------------------------------ MODULE Solenoid ------------------------------
(***************************************************************************)
(* The solenoid bank and everyone who drives it: the driver with its one   *)
(* hardware deadman for all channels (drivers/solenoid/solenoid.c), the    *)
(* PID and fire threads (ppo2_control.c), the flush pulses of the          *)
(* calibration thread and the ownership boundary around them               *)
(* (calibration.c), and the UDS solenoid override (uds.c).                 *)
(*                                                                         *)
(* The RX thread (priority 5) preempts the PID, fire and calibration       *)
(* threads (all 6) anywhere, so its handlers are single steps while        *)
(* solenoid_fire is two: the deadman is armed, then the pin is driven.     *)
(* Time passes only while every thread sleeps: runs between two sleeps     *)
(* take milliseconds, the durations counted here at least 100 ms. A sleep  *)
(* begins after the arm of the same length, so the deadman expires first.  *)
(* The counter and GPIO calls succeed, as the STM32 drivers' do here.      *)
(***************************************************************************)
EXTENDS Integers, Sequences, FiniteSets

CONSTANTS Inject,       \* the O2 inject channels, alternated: a sequence of one or two
          O2Flush, DilFlush,
          Modes,        \* subset of {"OFF", "PID", "MK15"}: the persisted control mode
          MaxOn,        \* max_on_time_us
          Cycle, MinFire, MaxFire, \* SOLENOID_CYCLE_MS, SOLENOID_MIN_FIRE_MS, SOLENOID_MAX_FIRE_MS
          Mk15On, Mk15Off,
          FlushOn,      \* CONFIG_SOL_FLUSH_TIME
          OverrideOn,   \* SOLENOID_OVERRIDE_ON_US
          CalPulse,     \* CAL_FLUSH_US and CAL_FLUSH_MS
          CalPlans,     \* the channels a calibration method pulses, in order
          Sources,      \* where the calibration requests of a behaviour come from
          Setpoints,    \* diver-commanded setpoints
          Default,      \* DEFAULT_SETPOINT_CB
          Pressures,    \* chan_atmos_pressure, 0 = unavailable
          Bar,          \* MBAR_PER_BAR: the pressure at which a duty is not compensated
          Long,         \* 2^31: lroundf's long holds less, uint32_t less than twice that
          DepthComp,    \* depth_compensation
          O2FlushMax,   \* SETPOINT_O2_FLUSH_MAX_PRESSURE_MBAR
          MaxMisses,    \* bound: zbus reads and publications that time out
          MaxCommands,  \* bound: setpoints the diver commands
          MaxCals,      \* bound: calibration requests
          MaxOverrides  \* bound: override writes

Injectors == {Inject[i] : i \in DOMAIN Inject}
Channels  == Injectors \cup {O2Flush, DilFlush}

ASSUME SolenoidConstants ==
  /\ Inject \in Seq(Channels) /\ Len(Inject) \in 1..2 /\ Injectors \cap {O2Flush, DilFlush} = {}
  /\ Modes \subseteq {"OFF", "PID", "MK15"}
  /\ MaxOn \in Nat /\ Cycle \in Nat /\ Mk15Off \in Nat \ {0}
  /\ MinFire \in 1..MaxFire /\ MaxFire \in 1..(Cycle - 1)
  /\ \A d \in {MaxFire, Mk15On, FlushOn, OverrideOn, CalPulse} : d \in 1..MaxOn
  /\ CalPlans \subseteq Seq(Channels) /\ Sources \subseteq SUBSET {"can", "uds"}
  /\ Setpoints \subseteq Nat /\ Default \in Nat /\ Pressures \subseteq Nat
  /\ DepthComp \in BOOLEAN /\ O2FlushMax \in Nat
  /\ MaxMisses \in Nat /\ MaxCommands \in Nat /\ MaxCals \in Nat /\ MaxOverrides \in Nat
  /\ Bar \in Nat /\ Long \in Nat /\ \A d \in {MaxOn, Cycle, Mk15Off} : d < Long

\* Above 2 mbar the compensated on-time fits lroundf's long, whatever the duty.
ASSUME OnTimeFits ==
  \A p \in Pressures \ {0}, d \in 0..MaxFire : (d * Bar) \div p \in 0..(Long - 1)

\* A calibration flushes with CAL_FLUSH_SECONDS or CHECK_FLUSH_SECONDS pulses of a
\* valve, so the first two pulses are of the same one.
ASSUME CalPlansRepeat == \A p \in CalPlans : Len(p) > 1 => p[1] = p[2]

VARIABLES
  valve,     \* the GPIOs: "shut", or who drove the pin high
  deadman,   \* time until the counter's top; 0 = counter stopped
  mode, latched,     \* activeMode as persisted; modeLatched
  ppo2,      \* chan_consensus against chan_setpoint: "fail", "below" or "above"
  cmd,       \* chan_setpoint_cmd
  duty,      \* chan_duty_cycle, as on-time per Cycle before clamping
  failed,    \* consensusFailedLatch
  firePc, fireCh, fireOn, wake,  \* fire thread: step, channel, on-time, sleep left
  secondary, \* injectUseSecondary
  lastCmd,   \* lastCmdSetpoint
  source,    \* the member of Sources this behaviour has
  running,   \* cal_running
  calSub,    \* requests queued for the calibration thread
  calPc, plan, calWake, \* calibration thread: step, pulses to come, sleep left
  budget,    \* what is left of each bound
  openFor,   \* history: time since the channel was fired, while open
  seen,      \* history: the command in force at the last flush check; 0 if that read missed
  earned,    \* history: the last check's decision follows from seen and cmd, or a read missed
  strayed    \* history: injections fired since the failure was latched; 9 once a publication was lost

drive == <<valve, deadman, openFor>>
fire  == <<firePc, fireCh, fireOn, wake, secondary, lastCmd, seen, earned>>
ctl   == <<source, mode, latched, ppo2, cmd, duty, failed, strayed>>
cal   == <<running, calSub, calPc, plan, calWake>>
svars == <<drive, fire, ctl, cal, budget>>

Spend(b) == budget[b] > 0 /\ budget' = [budget EXCEPT ![b] = @ - 1]

-----------------------------------------------------------------------------
(* The driver.                                                             *)

AllShut == [c \in Channels |-> "shut"]

ArmTimerExtends(d) == deadman' = IF deadman + d > MaxOn THEN MaxOn ELSE deadman + d

\* arm_timer: stop, reprogram and restart the one counter, clamped.
ArmTimer(d) == deadman' = IF d > MaxOn THEN MaxOn ELSE d

\* The second half of solenoid_fire: drive the pin.
PinHigh(c, who) ==
  /\ valve' = [valve EXCEPT ![c] = who]
  /\ openFor' = [openFor EXCEPT ![c] = 0]

\* solenoid_off on each of a set of channels; the deadman keeps running.
Off(cs) ==
  /\ valve' = [c \in Channels |-> IF c \in cs THEN "shut" ELSE valve[c]]
  /\ openFor' = [c \in Channels |-> IF c \in cs THEN 0 ELSE openFor[c]]
  /\ UNCHANGED deadman

\* solenoid_all_off: stop the counter, then every pin low.
AllOff == deadman' = 0 /\ valve' = AllShut /\ openFor' = [c \in Channels |-> 0]

DeadmanClosesOne(v) == IF deadman = 1 THEN [v EXCEPT ![Inject[1]] = "shut"] ELSE v

\* deadman_top_cb, run when the counter reaches its top: every pin low, counter stopped.
DeadmanTopCb(v) == IF deadman = 1 THEN AllShut ELSE v

-----------------------------------------------------------------------------
(* The environment: cells, diver, persisted mode, time.                    *)

Init ==
  /\ valve = AllShut /\ deadman = 0 /\ openFor = [c \in Channels |-> 0]
  /\ source \in Sources /\ mode \in Modes /\ latched = FALSE
  /\ ppo2 = "fail" /\ cmd = Default /\ duty = 0 /\ failed = FALSE /\ strayed = 0
  /\ firePc = "init" /\ fireCh = Inject[1] /\ fireOn = 0 /\ wake = 0
  /\ secondary = FALSE /\ lastCmd = 0 /\ seen = 0 /\ earned = TRUE
  /\ running = FALSE /\ calSub = <<>> /\ calPc = "idle" /\ plan = <<>> /\ calWake = 0
  /\ budget = [misses |-> MaxMisses, commands |-> MaxCommands, cals |-> MaxCals,
               overrides |-> MaxOverrides]

\* ppo2_control_init: the mode becomes authoritative and the threads start.
ControlInit ==
  /\ ~latched /\ latched' = TRUE
  /\ UNCHANGED <<drive, fire, source, mode, ppo2, cmd, duty, failed, strayed, cal, budget>>

\* A new consensus, or a new control setpoint to hold it against.
NewConsensus ==
  /\ \E m \in {"fail", "below", "above"} \ {ppo2} : ppo2' = m
  /\ UNCHANGED <<drive, fire, source, mode, latched, cmd, duty, failed, strayed, cal, budget>>

\* RespSetpoint's chan_setpoint_cmd; the handset-loss failsafe never writes it.
DiverCommands ==
  /\ Spend("commands")
  /\ \E s \in Setpoints \ {cmd} : cmd' = s
  /\ UNCHANGED <<drive, firePc, fireCh, fireOn, wake, secondary, lastCmd, seen, earned,
                 source, mode, latched, ppo2, duty, failed, strayed, cal>>

\* Every thread is asleep or waiting for input.
Asleep ==
  /\ wake > 0 \/ (firePc = "init" /\ (latched => mode = "OFF"))
  /\ calWake > 0 \/ (calPc = "idle" /\ calSub = <<>>)

\* remaining -= chunk of a kicking sleep
Count(n) == IF n = 0 THEN 0 ELSE n - 1

\* Time passes; the deadman's interrupt runs at its top.
Tick ==
  /\ Asleep
  /\ deadman > 0 \/ wake > 0 \/ calWake > 0
  /\ wake' = Count(wake) /\ calWake' = Count(calWake) /\ deadman' = Count(deadman)
  /\ valve' = DeadmanTopCb(valve)
  /\ openFor' = [c \in Channels |-> IF valve'[c] = "shut" THEN 0 ELSE openFor[c] + 1]
  /\ UNCHANGED <<firePc, fireCh, fireOn, secondary, lastCmd, seen, earned, ctl,
                 running, calSub, calPc, plan, budget>>

-----------------------------------------------------------------------------
(* The PID thread: one pass every 100 ms.                                  *)

\* publish on chan_duty_cycle, which may time out.
PublishDuty(d) ==
  \/ duty' = d /\ UNCHANGED budget
  \/ Spend("misses") /\ UNCHANGED duty

Lost(d) == duty' # d

PidFailKeepsDuty ==
  /\ latched /\ mode = "PID" /\ ppo2 = "fail" /\ ~failed
  /\ failed' = TRUE /\ strayed' = 0
  /\ Off(Injectors)
  /\ UNCHANGED <<fire, source, mode, latched, ppo2, cmd, duty, cal, budget>>

\* The consensus has failed: on the edge, zero the duty and close the inject valves.
PidFail ==
  /\ latched /\ mode = "PID" /\ ppo2 = "fail" /\ ~failed
  /\ failed' = TRUE
  /\ PublishDuty(0)
  /\ strayed' = IF Lost(0) THEN 9 ELSE 0
  /\ Off(Injectors)
  /\ UNCHANGED <<fire, source, mode, latched, ppo2, cmd, cal>>

\* The consensus cannot be read: the same path.
PidReadMiss ==
  /\ latched /\ mode = "PID" /\ ppo2 # "fail" /\ ~failed
  /\ Spend("misses")
  /\ failed' = TRUE /\ strayed' = 0 /\ duty' = 0
  /\ Off(Injectors)
  /\ UNCHANGED <<fire, source, mode, latched, ppo2, cmd, cal>>

\* pid_update's duty, any value, gated when the measurement is above the
\* setpoint. A setpoint read that misses is gated against the default instead.
PidRun ==
  /\ latched /\ mode = "PID" /\ ppo2 # "fail"
  /\ failed' = FALSE /\ strayed' = 0
  /\ \/ \E d \in IF ppo2 = "above" THEN {0} ELSE 0..Cycle : PublishDuty(d)
     \/ Spend("misses") /\ duty' \in 0..Cycle
  /\ UNCHANGED <<drive, fire, source, mode, latched, ppo2, cmd, cal>>

-----------------------------------------------------------------------------
(* The fire thread.                                                        *)

\* read_cmd_setpoint: a read that times out returns the default.
ReadCmd(s) ==
  \/ s = cmd /\ UNCHANGED budget
  \/ s = Default /\ s # cmd /\ Spend("misses")

\* The thread starts: whatever is commanded now is the flush baseline.
FireStart ==
  /\ firePc = "init" /\ latched /\ mode # "OFF"
  /\ firePc' = "flush"
  /\ \E s \in Setpoints \cup {Default} :
       ReadCmd(s) /\ lastCmd' = s /\ seen' = IF s = cmd THEN cmd ELSE 0
  /\ UNCHANGED <<fireCh, fireOn, wake, secondary, earned, drive, ctl, cal>>

\* setpoint_flush_direction
FlushDirection(previous, current) ==
  IF current > previous THEN {O2Flush} ELSE IF current < previous THEN {DilFlush} ELSE {}

\* The pressures under which ppo2_setpoint_o2_flush_allowed.
Allowed(p) == p <= O2FlushMax

FlushCheckDefers ==
  /\ firePc = "flush"
  /\ \E s \in Setpoints \cup {Default} :
       /\ ReadCmd(s)
       /\ seen' = IF s = cmd THEN cmd ELSE 0
       /\ LET dir == FlushDirection(lastCmd, s) IN
          /\ earned' = (s # cmd \/ seen = 0 \/ dir = FlushDirection(seen, cmd))
          /\ IF running \/ dir = {}
             THEN firePc' = "cycle" /\ UNCHANGED <<fireCh, lastCmd>>
             ELSE firePc' = "flushArm" /\ fireCh' \in dir /\ lastCmd' = s
  /\ UNCHANGED <<fireOn, wake, secondary, drive, ctl, cal>>

\* run_setpoint_flush_check up to the fire: the change is consumed whether or
\* not it is flushed.
FlushCheck ==
  /\ firePc = "flush"
  /\ \E s \in Setpoints \cup {Default}, p \in Pressures :
       /\ ReadCmd(s)
       /\ lastCmd' = s /\ seen' = IF s = cmd THEN cmd ELSE 0
       /\ LET dir == FlushDirection(lastCmd, s) IN
          /\ earned' = (s # cmd \/ seen = 0 \/ dir = FlushDirection(seen, cmd))
          /\ IF running \/ dir = {} \/ (dir = {O2Flush} /\ ~Allowed(p))
             THEN firePc' = "cycle" /\ UNCHANGED fireCh
             ELSE firePc' = "flushArm" /\ fireCh' \in dir
  /\ UNCHANGED <<fireOn, wake, secondary, drive, ctl, cal>>

FlushArm ==
  /\ firePc = "flushArm" /\ firePc' = "flushPin"
  /\ ArmTimer(FlushOn)
  /\ UNCHANGED <<valve, openFor, fireCh, fireOn, wake, secondary, lastCmd, seen, earned,
                 ctl, cal, budget>>

FlushPin ==
  /\ firePc = "flushPin" /\ firePc' = "flushOn" /\ wake' = FlushOn
  /\ PinHigh(fireCh, "control")
  /\ UNCHANGED <<deadman, fireCh, fireOn, secondary, lastCmd, seen, earned, ctl, cal, budget>>

FlushOff ==
  /\ firePc = "flushOn" /\ wake = 0 /\ firePc' = "cycle"
  /\ Off({fireCh})
  /\ UNCHANGED <<fireCh, fireOn, wake, secondary, lastCmd, seen, earned, ctl, cal, budget>>

\* pid_compute_fire_timing: the on-time, 0 when below the hardware minimum. The cap
\* comes before apply_depth_compensation, which lengthens the pulse below one bar.
FireTiming(d, p) ==
  LET capped == IF d > MaxFire THEN MaxFire ELSE d
      comp   == (capped * Bar) \div p
  IN  IF capped < MinFire THEN 0
      ELSE IF ~DepthComp \/ p = 0 THEN capped
      ELSE IF comp < MinFire THEN MinFire ELSE comp

\* The reads at the start of a cycle. They may block, so what they returned
\* may be stale when it is used; a miss reads as duty 0, failed consensus or
\* the default setpoint.
ReadCycle ==
  /\ firePc = "cycle" /\ firePc' = "decide"
  /\ \/ /\ mode = "PID" /\ UNCHANGED budget
        /\ \E p \in Pressures : fireOn' = FireTiming(duty, p)
     \/ /\ mode = "MK15" /\ UNCHANGED budget
        /\ fireOn' = IF ppo2 = "below" THEN Mk15On ELSE 0
     \/ Spend("misses")
        /\ fireOn' \in IF mode = "MK15" /\ ppo2 # "fail" THEN {0, Mk15On} ELSE {0}
  /\ UNCHANGED <<fireCh, wake, secondary, lastCmd, seen, earned, drive, ctl, cal>>

\* The off-time: duty_to_microseconds casts what remains of the cycle to uint32_t,
\* also when the on-time is longer than the cycle.
OffTime(on) == IF mode = "MK15" THEN Mk15Off ELSE (Cycle - on) % (2 * Long)

\* The ownership test: calibration keeps the bank, and the cycle stays quiet for the
\* sum of on-time and off-time, which wraps back to the cycle.
Inhibit ==
  /\ firePc = "decide" /\ running
  /\ firePc' = "off" /\ wake' = OffTime(0)
  /\ Off(Injectors)
  /\ UNCHANGED <<fireCh, fireOn, secondary, lastCmd, seen, earned, ctl, cal, budget>>

Quiet ==
  /\ firePc = "decide" /\ ~running /\ fireOn = 0
  /\ firePc' = "off" /\ wake' = OffTime(0)
  /\ UNCHANGED <<drive, fireCh, fireOn, secondary, lastCmd, seen, earned, ctl, cal, budget>>

\* inject_solenoid_fire picks the next injector; the alternation flips on every attempt.
Choose ==
  /\ firePc = "decide" /\ ~running /\ fireOn > 0
  /\ firePc' = "arm"
  /\ fireCh' = IF secondary THEN Inject[2] ELSE Inject[1]
  /\ secondary' = (Len(Inject) = 2 /\ ~secondary)
  /\ UNCHANGED <<fireOn, wake, lastCmd, seen, earned, drive, ctl, cal, budget>>

InjectArm ==
  /\ firePc = "arm" /\ firePc' = "pin"
  /\ ArmTimer(fireOn)
  /\ UNCHANGED <<valve, openFor, fireCh, fireOn, wake, secondary, lastCmd, seen, earned,
                 ctl, cal, budget>>

InjectPin ==
  /\ firePc = "pin" /\ firePc' = "on" /\ wake' = fireOn
  /\ PinHigh(fireCh, "control")
  /\ strayed' = IF failed /\ strayed < 9 THEN strayed + 1 ELSE strayed
  /\ UNCHANGED <<deadman, fireCh, fireOn, secondary, lastCmd, seen, earned,
                 source, mode, latched, ppo2, cmd, duty, failed, cal, budget>>

InjectOff ==
  /\ firePc = "on" /\ wake = 0
  /\ firePc' = "off" /\ wake' = OffTime(fireOn)
  /\ Off(Injectors)
  /\ UNCHANGED <<fireCh, fireOn, secondary, lastCmd, seen, earned, ctl, cal, budget>>

NextCycle ==
  /\ firePc = "off" /\ wake = 0 /\ firePc' = "flush"
  /\ UNCHANGED <<fireCh, fireOn, wake, secondary, lastCmd, seen, earned, drive, ctl, cal, budget>>

FireThread == FireStart \/ FlushCheck \/ FlushArm \/ FlushPin \/ FlushOff \/ ReadCycle
              \/ Inhibit \/ Quiet \/ Choose \/ InjectArm \/ InjectPin \/ InjectOff \/ NextCycle

-----------------------------------------------------------------------------
(* Calibration: the RX thread's two triggers and the calibration thread.   *)

\* RespCal: calibration_try_acquire, then queue the request.
RespCal ==
  /\ "can" \in source /\ Spend("cals")
  /\ ~running /\ running' = TRUE
  /\ AllOff
  /\ \E p \in CalPlans : calSub' = Append(calSub, p)
  /\ UNCHANGED <<fire, ctl, calPc, plan, calWake>>

\* RespCal whose publication fails: calibration_release.
RespCalFails ==
  /\ "can" \in source /\ Spend("cals") /\ ~running
  /\ AllOff
  /\ UNCHANGED <<fire, ctl, cal>>

\* writeCalibrationTriggerDID tests the guard without taking it.
UdsTrigger ==
  /\ "uds" \in source /\ Spend("cals") /\ ~running
  /\ \E p \in CalPlans : calSub' = Append(calSub, p)
  /\ UNCHANGED <<drive, fire, ctl, running, calPc, plan, calWake>>

CalTake ==
  /\ calPc = "idle" /\ calSub # <<>>
  /\ calPc' = "ready" /\ plan' = Head(calSub) /\ calSub' = Tail(calSub)
  /\ UNCHANGED <<drive, fire, ctl, running, calWake, budget>>

CalArm ==
  /\ calPc = "ready" /\ plan # <<>> /\ calPc' = "armed"
  /\ ArmTimer(CalPulse)
  /\ UNCHANGED <<valve, openFor, fire, ctl, running, calSub, plan, calWake, budget>>

CalPin ==
  /\ calPc = "armed" /\ calPc' = "sleep" /\ calWake' = CalPulse
  /\ PinHigh(Head(plan), "cal")
  /\ UNCHANGED <<deadman, fire, ctl, running, calSub, plan, budget>>

CalWakes ==
  /\ calPc = "sleep" /\ calWake = 0
  /\ calPc' = "ready" /\ plan' = Tail(plan)
  /\ UNCHANGED <<drive, fire, ctl, running, calSub, calWake, budget>>

\* calibration_release does nothing for a run nobody claimed the guard for.
CalRelease ==
  /\ calPc = "ready" /\ plan = <<>> /\ calPc' = "idle"
  /\ IF running THEN AllOff /\ running' = FALSE ELSE UNCHANGED <<drive, running>>
  /\ UNCHANGED <<fire, ctl, calSub, plan, calWake, budget>>

CalThread == CalTake \/ CalArm \/ CalPin \/ CalWakes \/ CalRelease

-----------------------------------------------------------------------------

\* writeSolenoidOverrideDID once session, dive, length and magic are accepted.
Override ==
  /\ latched /\ mode = "OFF" /\ ~running
  /\ Spend("overrides")
  /\ \E c \in Channels : PinHigh(c, "uds")
  /\ ArmTimer(OverrideOn)
  /\ UNCHANGED <<fire, ctl, cal>>

Next == ControlInit \/ NewConsensus \/ DiverCommands \/ Tick \/ PidFail \/ PidReadMiss \/ PidRun
        \/ FireThread \/ RespCal \/ RespCalFails \/ UdsTrigger \/ CalThread \/ Override

Spec == Init /\ [][Next]_svars

-----------------------------------------------------------------------------
DriveType ==
  /\ valve \in [Channels -> {"shut", "control", "cal", "uds"}]
  /\ deadman \in 0..MaxOn /\ openFor \in [Channels -> Nat]

FireType ==
  /\ firePc \in {"init", "flush", "flushArm", "flushPin", "flushOn", "cycle", "decide",
                 "arm", "pin", "on", "off"}
  /\ fireCh \in Channels /\ fireOn \in 0..(Long - 1) /\ wake \in 0..(2 * Long - 1)
  /\ secondary \in BOOLEAN /\ lastCmd \in Nat /\ seen \in Nat /\ earned \in BOOLEAN

CtlType ==
  /\ source \in Sources /\ mode \in Modes /\ latched \in BOOLEAN
  /\ ppo2 \in {"fail", "below", "above"} /\ cmd \in Setpoints \cup {Default}
  /\ duty \in 0..Cycle /\ failed \in BOOLEAN /\ strayed \in Nat

CalType ==
  /\ running \in BOOLEAN /\ calSub \in Seq(CalPlans)
  /\ calPc \in {"idle", "ready", "armed", "sleep"} /\ plan \in Seq(Channels)
  /\ calWake \in 0..CalPulse

\* The state of the driver, the fire thread, the control inputs and the
\* calibration thread each keeps its type.
TypeOK == DriveType /\ FireType /\ CtlType /\ CalType

\* An open valve always has something that will close it: the running
\* deadman, the fire thread sleeping through the on-time it opened it for, or
\* a calibration that owns the bank and will release it.
OpenHasCloser ==
  \A c \in Channels : valve[c] # "shut" =>
    \/ deadman > 0
    \/ firePc \in {"on", "flushOn"} /\ fireCh = c
    \/ running

\* No pulse of the control loop outlasts the hardware limit, whoever rearms or stops
\* the shared deadman meanwhile, unless low ambient pressure has lengthened its
\* on-time beyond the limit and a calibration has taken the deadman away: a request
\* that stopped the counter between arm and pin, the guard, or a pulse in progress.
\* Then it lasts no longer than that on-time.
ControlBounded(c) ==
  \/ openFor[c] <= MaxOn
  \/ /\ openFor[c] <= fireOn
     /\ deadman = 0 \/ running \/ calPc \in {"armed", "sleep"}

\* Nor does a calibration pulse while the guard keeps the fire thread from rearming
\* the deadman, but for the injection already decided on when the guard was taken.
\* A run triggered over UDS has no guard.
PulseBounded ==
  \A c \in Channels :
    /\ valve[c] = "control" => ControlBounded(c)
    /\ valve[c] = "cal" /\ "uds" \notin source => openFor[c] <= MaxOn

\* "Caller guarantees inputs are non-negative" (ppo2_control_math.c): the fire thread
\* rests no longer than a whole cycle. Refuted: below one bar a full duty exceeds the cycle.
RestFits == firePc = "off" => wake <= IF mode = "MK15" THEN Mk15Off ELSE Cycle

\* A setpoint flush answers, in direction, a command the diver gave since the
\* last check: it is never a change consumed earlier, under calibration or above the
\* pressure limit, unless the command channel could not be read.
FlushEarned == firePc \in {"flushArm", "flushPin", "flushOn"} => earned

\* Once the PID thread has latched a consensus failure and its zero duty is
\* published, at most the injection already decided is still fired.
FailQuiets == failed => strayed <= 1 \/ strayed = 9

\* Calibration owns the bank from try_acquire on: no pulse of the control loop
\* is open while the guard is set.
CalOwnsBank == running => \A c \in Channels : valve[c] # "control"
=============================================================================
