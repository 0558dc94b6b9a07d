------------------------------ MODULE HeadLife ------------------------------
(***************************************************************************)
(* The head from one reset to the next: the boot (main.c, errors.c,        *)
(* boot_history.c), the watchdog feeder and the heartbeats it listens to   *)
(* (watchdog_feeder.c, heartbeat.c), the shutdown thread and the wake-up   *)
(* from SHUTDOWN (power_management.c), and the Poseidon accessories that   *)
(* are told to sleep first (poseidon_accessories.c).                       *)
(*                                                                         *)
(* CAN_EN is a shared open-drain line: the handset's contribution is       *)
(* `line', the head's is `held'. Faults (a crash, a hung thread, a failed  *)
(* flash write or pin access, a power cut) come from one budget. Time is   *)
(* the feeder's lap of two seconds, the watchdog's window a number of laps.*)
(***************************************************************************)
EXTENDS Integers, Sequences

CONSTANTS Threads,   \* threads that registered a heartbeat
          Ops,       \* long flash operations: a log flush, an image capture
          Attempts,  \* SHUTDOWN_ABORT_WINDOW_ATTEMPTS
          Confirm,   \* SHUTDOWN_CONFIRM_INACTIVE_POLLS
          Window,    \* WDT_TIMEOUT_MS in laps of WDT_FEED_INTERVAL_MS
          Depth,     \* BOOT_HISTORY_DEPTH
          LastSeq,   \* the largest reboot sequence number before it wraps to 1
          MaxFaults  \* bound: faults of one behaviour

ASSUME LifeConstants ==
  /\ Threads # {} /\ {Attempts, Confirm, Window, Depth, LastSeq} \subseteq Nat \ {0}
  /\ MaxFaults \in Nat

VARIABLES
  soc,     \* "up", or "asleep" in SHUTDOWN mode
  stage,   \* how far the boot is; "run" once boot_history_init has returned
  line,    \* the handset pulls CAN_EN
  held,    \* the head's CAN_EN pin: "held", "released", or "stuck": an assert failed
  backup,  \* backup domain and reset flags: the wake marker and the latched causes
  crash,   \* noinit: id of the crash whose magic stands, last: last_crash, 0 for none
  store,   \* NVS: next_sequence, the reboot records and the crash records
  seq,     \* boot_history_init's sequence, 0 outside it
  sd,      \* the shutdown thread and its scan of the abort window
  acc,     \* the accessory thread and what the peers were told last
  hb,      \* beats since the last lap, hung threads, the feeder and its watchdog
  ops,     \* long operations in progress, and the one flag they share
  owed,    \* history: the newest crash since RAM last lost power
  left     \* faults left

lifevars == <<soc, stage, line, held, backup, crash, store, seq, sd, acc, hb, ops, owed, left>>

IdleThread == [pc |-> "idle", req |-> FALSE, polls |-> << >>, run |-> 0, quiet |-> FALSE]
FreshBeats == [beat |-> [t \in Threads |-> FALSE], hung |-> {}, primed |-> FALSE, dog |-> Window]

LifeInit ==
  /\ soc = "up" /\ stage = "errors" /\ line \in BOOLEAN /\ held = "released"
  /\ backup = [marker |-> FALSE, cause |-> {"pin_bor"}]
  /\ crash = [noinit |-> 0, last |-> 0]
  /\ store = [next |-> 1, reboots |-> << >>, crashes |-> << >>]
  /\ seq = 0 /\ sd = IdleThread /\ hb = FreshBeats
  /\ acc = [pc |-> "top", down |-> FALSE, peers |-> "awake"]
  /\ ops = [busy |-> {}, flag |-> FALSE]
  /\ owed = 0 /\ left = MaxFaults

Fault == left > 0 /\ left' = left - 1
Clean == left' = left

\* What a reset does, whatever caused it: RAM is fresh but for the noinit
\* slot, pins are inputs, every thread starts again.
Restart ==
  /\ soc' = "up" /\ stage' = "errors" /\ held' = "released" /\ seq' = 0
  /\ sd' = IdleThread /\ hb' = FreshBeats /\ ops' = [busy |-> {}, flag |-> FALSE]
  /\ acc' = [acc EXCEPT !.pc = "top", !.down = FALSE]
  /\ UNCHANGED line

Latch(c) == backup' = [backup EXCEPT !.cause = @ \cup {c}]

\* Power is lost altogether: noinit RAM, the backup register and the latched
\* causes go with it.
PowerCut ==
  /\ Fault /\ Restart
  /\ backup' = [marker |-> FALSE, cause |-> {"pin_bor"}]
  /\ crash' = [noinit |-> 0, last |-> 0] /\ owed' = 0
  /\ UNCHANGED store

HandsetMovesLine ==
  /\ line' = ~line
  /\ UNCHANGED <<soc, stage, held, backup, crash, store, seq, sd, acc, hb, ops, owed, left>>
-----------------------------------------------------------------------------
(* Power management.                                                       *)

\* power_is_can_active: a pin that cannot be read counts as inactive.
Reads(active) == \/ active = line /\ Clean
                 \/ ~active /\ line /\ Fault

\* power_can_enable_assert; its callers ignore a failure.
power_can_enable_assert == \/ held' = "held" /\ Clean
                           \/ held' = "stuck" /\ Fault

\* power_shutdown: the pin is released, VBUS drops, the wake pin is armed and
\* the marker set, then the SoC is off: SRAM is not retained, and the exit is
\* a power reset that forgets the causes latched before.
power_shutdown ==
  /\ soc' = "asleep" /\ stage' = "off" /\ held' = "released" /\ seq' = 0
  /\ backup' = [marker |-> TRUE, cause |-> {}]
  /\ crash' = [noinit |-> 0, last |-> 0] /\ owed' = 0
  /\ sd' = IdleThread /\ hb' = FreshBeats /\ ops' = [busy |-> {}, flag |-> FALSE]
  /\ acc' = [pc |-> "top", down |-> FALSE, peers |-> "off"]
  /\ UNCHANGED <<line, store>>

\* WKUP2_LOW: a pulled line resets the sleeping SoC. The silicon reports it
\* as a low-power wake or as PIN|BROWNOUT.
Wake ==
  /\ soc = "asleep" /\ line
  /\ Restart
  /\ \E c \in {"wake", "pin_bor"} : Latch(c)
  /\ UNCHANGED <<crash, store, owed, left>>

\* The marker is looked at, and consumed, only when the cause is PIN|BROWNOUT.
Consults == "wake" \notin backup.cause /\ "pin_bor" \in backup.cause
power_reset_requires_can_enable_check == "wake" \in backup.cause \/ (Consults /\ backup.marker)

\* The handset's BUS_OFF frame: divecan_rx publishes the request.
RespShutdown ==
  /\ stage = "run" /\ ~sd.req
  /\ sd' = [sd EXCEPT !.req = TRUE]
  /\ UNCHANGED <<soc, stage, line, held, backup, crash, store, seq, acc, hb, ops, owed, left>>

\* shutdown_thread_fn takes a request and lets go of the line. If that fails
\* it asserts it again at once.
TakeRequest ==
  /\ stage = "run" /\ sd.pc = "idle" /\ sd.req
  /\ \/ /\ sd' = [IdleThread EXCEPT !.pc = "scan"] /\ held' = "released" /\ Clean
     \/ /\ sd' = IdleThread /\ held' = "held" /\ Fault
  /\ UNCHANGED <<soc, stage, line, backup, crash, store, seq, acc, hb, ops, owed>>

PolledLoose(active) ==
  LET run == IF active THEN sd.run ELSE sd.run + 1
  IN [sd EXCEPT !.polls = Append(@, active), !.run = run, !.quiet = sd.quiet \/ run >= Confirm]

\* One poll of scan_shutdown_abort_window. A poll that is active after the bus
\* went quiet ends the scan.
Polled(active) ==
  LET run   == IF active THEN 0 ELSE sd.run + 1
      quiet == sd.quiet \/ run >= Confirm
  IN [sd EXCEPT !.polls = Append(@, active), !.run = run, !.quiet = quiet]

scan_shutdown_abort_window ==
  /\ sd.pc = "scan" /\ Len(sd.polls) < Attempts
  /\ \E active \in BOOLEAN :
       /\ Reads(active)
       /\ IF active /\ sd.quiet THEN sd' = [Polled(active) EXCEPT !.pc = "abort"]
                                ELSE sd' = Polled(active)
  /\ UNCHANGED <<soc, stage, line, held, backup, crash, store, seq, acc, hb, ops, owed>>

Decides ==
  /\ sd.pc = "scan" /\ Len(sd.polls) = Attempts
  /\ sd' = [sd EXCEPT !.pc = IF sd.quiet THEN "drain" ELSE "abort"]
  /\ acc' = [acc EXCEPT !.down = sd.quiet]
  /\ UNCHANGED <<soc, stage, line, held, backup, crash, store, seq, hb, ops, owed, left>>

Aborts ==
  /\ sd.pc = "abort"
  /\ sd' = [IdleThread EXCEPT !.req = sd.req]
  /\ power_can_enable_assert
  /\ UNCHANGED <<soc, stage, line, backup, crash, store, seq, acc, hb, ops, owed>>

\* The wait for the accessory thread to park is bounded, then the frames go out
\* under the bus lock, each of them retried and perhaps lost.
poseidon_accessories_shutdown ==
  \E p \in {acc.peers, "told"} : acc' = [acc EXCEPT !.down = TRUE, !.peers = p]

TellsPeers ==
  /\ sd.pc = "drain"
  /\ sd' = [sd EXCEPT !.pc = "down"] /\ poseidon_accessories_shutdown
  /\ UNCHANGED <<soc, stage, line, held, backup, crash, store, seq, hb, ops, owed, left>>

ShutsDown == sd.pc = "down" /\ power_shutdown /\ Clean
-----------------------------------------------------------------------------
(* The boot. main() runs at the highest priority and does not block before *)
(* boot_history_init has returned.                                         *)

\* errors_init copies the crash slot and leaves its magic standing.
errors_init ==
  /\ stage = "errors"
  /\ stage' = "guard" /\ crash' = [crash EXCEPT !.last = crash.noinit]
  /\ UNCHANGED <<soc, line, held, backup, store, seq, sd, acc, hb, ops, owed, left>>

startup_can_wake_guard_inverted ==
  /\ stage = "guard" /\ Clean
  /\ stage' = IF power_reset_requires_can_enable_check /\ line THEN "refused" ELSE "assert"
  /\ UNCHANGED <<soc, line, held, backup, crash, store, seq, sd, acc, hb, ops, owed>>

\* A wake that the handset did not keep up for a second goes back to sleep,
\* after the peers were told, whatever the line does meanwhile. A reset cause
\* that cannot be read is not checked at all.
startup_can_wake_guard ==
  /\ stage = "guard"
  /\ \/ /\ power_reset_requires_can_enable_check
        /\ Reads(FALSE)
        /\ stage' = "refused" /\ poseidon_accessories_shutdown
     \/ /\ power_reset_requires_can_enable_check
        /\ Reads(TRUE)
        /\ stage' = "assert" /\ UNCHANGED acc
     \/ /\ ~power_reset_requires_can_enable_check
        /\ Clean
        /\ stage' = "assert" /\ UNCHANGED acc
  /\ backup' = [backup EXCEPT !.marker = @ /\ ~Consults]
  /\ UNCHANGED <<soc, line, held, crash, store, seq, sd, hb, ops, owed>>

CauseUnread ==
  /\ stage = "guard" /\ Fault
  /\ stage' = "assert"
  /\ UNCHANGED <<soc, line, held, backup, crash, store, seq, sd, acc, hb, ops, owed>>

RefusesWake == stage = "refused" /\ power_shutdown /\ Clean

\* main() holds the line and arms the watchdog before any flash work.
main ==
  /\ stage = "assert"
  /\ stage' = "reboots" /\ power_can_enable_assert
  /\ UNCHANGED <<soc, line, backup, crash, store, seq, sd, acc, hb, ops, owed>>

Recent(s) == IF Len(s) > Depth THEN Tail(s) ELSE s
allocate_reboot_sequence == IF store.next = LastSeq THEN 1 ELSE store.next + 1

\* boot_history_init: the causes are read and cleared, then the reboot record
\* is appended and saved. Without the settings subsystem neither record is
\* kept and the boot goes on.
record_reboot ==
  /\ stage = "reboots"
  /\ backup' = [backup EXCEPT !.cause = {}]
  /\ \/ /\ Clean /\ stage' = "crashes" /\ seq' = store.next
        /\ store' = [store EXCEPT !.next = allocate_reboot_sequence,
                                  !.reboots = Recent(Append(@, store.next))]
     \/ /\ Fault /\ stage' = "crashes" /\ seq' = store.next /\ UNCHANGED store
     \/ /\ Fault /\ stage' = "run" /\ UNCHANGED <<seq, store>>
  /\ UNCHANGED <<soc, line, held, crash, sd, acc, hb, ops, owed>>

record_crash_unchecked ==
  /\ stage = "crashes" /\ seq' = 0 /\ stage' = IF crash.last = 0 THEN "run" ELSE "ack"
  /\ \/ /\ Clean
        /\ store' = IF crash.last = 0 THEN store
                    ELSE [store EXCEPT !.crashes = Recent(Append(@, [seq |-> seq, id |-> crash.last]))]
     \/ crash.last # 0 /\ Fault /\ UNCHANGED store
  /\ UNCHANGED <<soc, line, held, backup, crash, sd, acc, hb, ops, owed>>

record_crash ==
  /\ stage = "crashes"
  /\ seq' = 0
  /\ \/ /\ crash.last = 0 /\ stage' = "run" /\ Clean /\ UNCHANGED store
     \/ /\ crash.last # 0 /\ stage' = "ack" /\ Clean
        /\ store' = [store EXCEPT !.crashes = Recent(Append(@, [seq |-> seq, id |-> crash.last]))]
     \/ /\ crash.last # 0 /\ stage' = "run" /\ Fault /\ UNCHANGED store
  /\ UNCHANGED <<soc, line, held, backup, crash, sd, acc, hb, ops, owed>>
errors_acknowledge_last_crash ==
  /\ stage = "ack"
  /\ stage' = "run" /\ crash' = [crash EXCEPT !.noinit = 0]
  /\ UNCHANGED <<soc, line, held, backup, store, seq, sd, acc, hb, ops, owed, left>>

\* fatal_op_error and k_sys_fatal_error_handler overwrite the slot and reboot.
fatal_op_error ==
  /\ soc = "up" /\ stage # "errors" /\ Fault
  /\ Restart /\ Latch("soft")
  /\ crash' = [noinit |-> left, last |-> 0] /\ owed' = left
  /\ UNCHANGED store
-----------------------------------------------------------------------------
(* Heartbeats and the watchdog.                                            *)

heartbeat_kick(t) ==
  /\ stage = "run" /\ t \notin hb.hung /\ ~hb.beat[t]
  /\ hb' = [hb EXCEPT !.beat[t] = TRUE]
  /\ UNCHANGED <<soc, stage, line, held, backup, crash, store, seq, sd, acc, ops, owed, left>>

Hang(t) ==
  /\ stage = "run" /\ t \notin hb.hung /\ Fault
  /\ hb' = [hb EXCEPT !.hung = @ \cup {t}]
  /\ UNCHANGED <<soc, stage, line, held, backup, crash, store, seq, sd, acc, ops, owed>>

\* One flag for all long operations: whoever ends first clears it.
heartbeat_set_long_op(o, on) ==
  /\ stage = "run" /\ (o \in ops.busy) # on
  /\ ops' = [busy |-> IF on THEN ops.busy \cup {o} ELSE ops.busy \ {o}, flag |-> on]
  /\ UNCHANGED <<soc, stage, line, held, backup, crash, store, seq, sd, acc, hb, owed, left>>

heartbeat_check_all_alive == ops.flag \/ \A t \in Threads : hb.beat[t]

\* A lap of the feeder. A thread that is neither hung nor starved by a long
\* operation beats at least once a lap. The first lap feeds without looking.
watchdog_feeder_thread ==
  /\ stage = "run"
  /\ ops.busy = {} => \A t \in Threads \ hb.hung : hb.beat[t]
  /\ IF hb.primed /\ ~heartbeat_check_all_alive /\ hb.dog = 1
     THEN Restart /\ Latch("wdt") /\ UNCHANGED <<crash, store, owed, left>>
     ELSE /\ hb' = [hb EXCEPT !.beat = [t \in Threads |-> FALSE], !.primed = TRUE,
                              !.dog = IF hb.primed /\ ~heartbeat_check_all_alive THEN @ - 1 ELSE Window]
          /\ UNCHANGED <<soc, stage, line, held, backup, crash, store, seq, sd, acc, ops, owed, left>>
-----------------------------------------------------------------------------
(* The accessory thread.                                                   *)

\* The flag is looked at once a lap, before the wait.
accessories_thread ==
  /\ stage = "run" /\ acc.pc = "top"
  /\ acc' = [acc EXCEPT !.pc = IF acc.down THEN "parked" ELSE "wait"]
  /\ UNCHANGED <<soc, stage, line, held, backup, crash, store, seq, sd, hb, ops, owed, left>>

\* After the wait the gauge is asked and, on an alarm or every fourth lap, the
\* peers are refreshed with a normal heartbeat, under the bus lock.
refresh_outputs ==
  /\ stage = "run" /\ acc.pc = "wait"
  /\ \E p \in {acc.peers, "awake"} : acc' = [acc EXCEPT !.pc = "top", !.peers = p]
  /\ UNCHANGED <<soc, stage, line, held, backup, crash, store, seq, sd, hb, ops, owed, left>>
-----------------------------------------------------------------------------
StartStep == errors_init \/ startup_can_wake_guard \/ CauseUnread \/ RefusesWake \/ main
             \/ record_reboot \/ record_crash \/ errors_acknowledge_last_crash
ShutdownStep == TakeRequest \/ scan_shutdown_abort_window \/ Decides \/ Aborts
                \/ TellsPeers \/ ShutsDown
Hangs == \E t \in Threads : Hang(t)
Beats == \E t \in Threads : heartbeat_kick(t)
Ends  == \E o \in Ops : heartbeat_set_long_op(o, FALSE)
Starts == \E o \in Ops : heartbeat_set_long_op(o, TRUE)

LifeNext == \/ StartStep \/ ShutdownStep \/ RespShutdown \/ HandsetMovesLine \/ Wake
        \/ PowerCut \/ fatal_op_error \/ Hangs \/ Beats \/ Starts \/ Ends
        \/ watchdog_feeder_thread \/ accessories_thread \/ refresh_outputs

LifeSpec == LifeInit /\ [][LifeNext]_lifevars

\* Threads of a running head are scheduled, a boot goes on, the wake pin
\* works, and a long operation ends.
FairLifeSpec ==
  /\ LifeSpec
  /\ WF_<<stage, soc>>(StartStep) /\ WF_<<sd, soc>>(ShutdownStep) /\ WF_soc(Wake)
  /\ \A t \in Threads : WF_hb(heartbeat_kick(t))
  /\ \A o \in Ops : WF_ops(heartbeat_set_long_op(o, FALSE))
  /\ WF_<<hb, stage>>(watchdog_feeder_thread)
-----------------------------------------------------------------------------
TypeOK ==
  /\ soc \in {"up", "asleep"} /\ line \in BOOLEAN /\ held \in {"held", "released", "stuck"}
  /\ stage \in {"off", "errors", "guard", "refused", "assert", "reboots", "crashes", "ack", "run"}
  /\ backup \in [marker : BOOLEAN, cause : SUBSET {"wake", "pin_bor", "soft", "wdt"}]
  /\ crash \in [noinit : 0..MaxFaults, last : 0..MaxFaults] /\ owed \in 0..MaxFaults
  /\ hb.dog \in 1..Window /\ hb.hung \subseteq Threads /\ left \in 0..MaxFaults
  /\ sd.pc \in {"idle", "scan", "abort", "drain", "down"} /\ Len(sd.polls) <= Attempts

\* The polls of an abort window, in the words of scan_shutdown_abort_window:
\* the bus went quiet and stayed quiet through to the end.
WentAndStayedQuiet(p) ==
  \E k \in Confirm..Len(p) :
     /\ \A j \in (k - Confirm + 1)..Len(p) : ~p[j]
     /\ \A i \in Confirm..(k - 1) : \E j \in (i - Confirm + 1)..i : p[j]

\* No shutdown that was not earned. The shutdown thread tells the peers to
\* sleep and cuts the power only after a whole window whose polls went quiet and
\* stayed quiet. Without a window only the boot guard does both, and only of a
\* boot that the wake-up pin may have caused, never of one that only a crash or
\* the watchdog did. Outside a window the running head keeps the shared line
\* pulled, unless the pin itself failed.
ShutdownEarned ==
  /\ sd.pc \in {"drain", "down"} => Len(sd.polls) = Attempts /\ WentAndStayedQuiet(sd.polls)
  /\ acc.down \/ acc.pc = "parked" => sd.pc \in {"drain", "down"} \/ stage = "refused"
  /\ stage = "refused" => sd.pc = "idle" /\ backup.cause \cap {"wake", "pin_bor"} # {}
  /\ stage = "run" /\ sd.pc = "idle" => held # "released"

\* No crash is forgotten while the RAM that holds it has power: until the next
\* crash overwrites it, the newest crash is in the noinit slot with its magic
\* or in the stored history, whatever save failed and whatever reset came.
CrashKept ==
  owed # 0 => crash.noinit = owed \/ \E i \in DOMAIN store.crashes : store.crashes[i].id = owed

\* A head whose handset keeps the line pulled ends up running with every
\* registered thread alive, and stays so: a wake is not refused for good, a
\* hung thread is reset, no shutdown sticks. The log flush and the feeder share
\* a period and a flush excuses every thread, so this holds once no lap falls
\* into a long operation any more.
Up == soc = "up" /\ stage = "run" /\ hb.hung = {}
CalledIsUp == <>[]line /\ <>[](~ops.flag) => <>[]Up
=============================================================================
