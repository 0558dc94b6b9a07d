----------------------------- MODULE MCSolenoid -----------------------------
(* Small instances of Solenoid for TLC. *)
EXTENDS Solenoid

MCInject    == <<"inject", "inject2">>
MCPlans     == {<<"o2flush", "o2flush", "dilflush", "dilflush">>, <<>>}
MCAll       == {"OFF", "PID", "MK15"}
MCSources   == {{"can"}, {"uds"}}
MCSetpoints == {60, 90}
MCPressures == {0, 1, 6}
=============================================================================
