----------------------------- MODULE Calibration -----------------------------
(***************************************************************************)
(* Oxygen-cell calibration (calibration.c, calibration_store.c) with its   *)
(* two triggers and the other writers of the control setpoint: the RX      *)
(* thread's RespCal, RespSetpoint and handset-loss failsafe and the UDS    *)
(* write handlers. The calibration thread (priority 6) is preempted by the *)
(* RX thread (priority 5) between any two steps; power may fail anywhere.  *)
(*                                                                         *)
(* A coefficient is the number of the run that computed it: 0 is the       *)
(* zeroed cache, 1 the coefficients stored before the first run.           *)
(***************************************************************************)
EXTENDS Naturals, Sequences, FiniteSets

CONSTANTS N,             \* CONFIG_CELL_COUNT
          Methods,       \* sets of cells a method calibrates; {} is CAL_CHECK
          Setpoints,     \* setpoints clamp_setpoint_cb passes; the floor is one of them
          Floor,         \* CAL_SUPPRESS_SETPOINT_CB
          Safe,          \* HANDSET_LOST_SETPOINT_CB and the power-on default
          PingTimeout,   \* HANDSET_PING_TIMEOUT_MS, in ticks
          MaxRequests,   \* bound: requests received
          MaxUds,        \* bound: those of them that come from writeCalibrationTriggerDID
          MaxFlashFails, \* bound: flash operations that fail
          MaxPubFails,   \* bound: zbus publications or reads that time out
          MaxCommands,   \* bound: setpoint commands of the diver
          MaxPings,      \* bound: handset pings
          MaxCrashes     \* bound: power losses

Cells == 1..N

ASSUME CalConstants ==
  /\ N \in Nat \ {0} /\ Methods \subseteq SUBSET Cells
  /\ Setpoints \subseteq Nat /\ Floor \in Nat /\ Safe \in Nat
  /\ PingTimeout \in Nat /\ MaxRequests \in Nat /\ MaxUds \in Nat /\ MaxFlashFails \in Nat
  /\ MaxPubFails \in Nat /\ MaxCommands \in Nat /\ MaxPings \in Nat
  /\ MaxCrashes \in Nat

VARIABLES
  running,   \* cal_running
  calSub,    \* cal_sub: runs waiting for the calibration thread
  pc,        \* where the calibration thread is
  run,       \* CalSmCtx_t: run number, cells to calibrate, next cell, result
  prev,      \* previous_cals
  nvs,       \* coefficients in flash
  cache,     \* getCalCache()
  setpoint,  \* chan_setpoint
  saved,     \* saved_setpoint of the calibration thread
  hs,        \* HandsetFailsafeState_t; age stands for now - last_handset_ping_ms
  budget,    \* what is left of each bound
  preNvs,    \* history: coefficients in flash when the run began
  clean,     \* history: the run began with cache = nvs and met no flash failure
  imposed,   \* history: whether a calibration imposed the setpoint in force (live)
             \* and the one to restore (saved), which may equal one the diver selected
  stuck,     \* history: cal_restore_setpoint failed to publish
  fallback   \* history: the failsafe has published and nothing has superseded it

cvars == <<running, calSub, pc, run, prev, nvs, cache, setpoint, saved, hs,
           budget, preNvs, clean, imposed, stuck, fallback>>

-----------------------------------------------------------------------------
NoRun == [id |-> 0, cells |-> {}, next |-> 1, result |-> "FAILED"]

NotImposed == [live |-> FALSE, saved |-> FALSE]

\* Spend one unit of a bound.
Spend(b) == budget[b] > 0 /\ budget' = [budget EXCEPT ![b] = @ - 1]

Init ==
  /\ running = FALSE /\ calSub = <<>> /\ pc = "idle" /\ run = NoRun
  /\ prev = [c \in Cells |-> 0]
  /\ nvs = [c \in Cells |-> 1] /\ preNvs = nvs
  /\ \/ cache = nvs
     \/ cache = [c \in Cells |-> 0] /\ MaxFlashFails > 0
  /\ setpoint = Safe /\ saved = Safe
  /\ hs = [seen |-> FALSE, applied |-> FALSE, age |-> 0]
  /\ budget = [requests |-> MaxRequests, uds |-> MaxUds,
               flash |-> MaxFlashFails, pub |-> MaxPubFails, commands |-> MaxCommands,
               pings |-> MaxPings, crashes |-> MaxCrashes]
  /\ clean = TRUE /\ stuck = FALSE /\ fallback = FALSE /\ imposed = NotImposed

\* A fresh run number.
NextId == MaxRequests - budget.requests + 2

-----------------------------------------------------------------------------
(* The RX thread: DiveCAN and UDS handlers, and the failsafe.              *)

\* RespCal: claim the slot, queue the request; if it cannot be queued the slot
\* is released again.
RespCalFails ==
  /\ ~running /\ budget.requests > 0 /\ budget.pub > 0
  /\ budget' = [budget EXCEPT !.requests = @ - 1, !.pub = @ - 1]
  /\ UNCHANGED <<running, calSub>>

RespCalQueues ==
  /\ ~running
  /\ running' = TRUE
  /\ calSub' = Append(calSub, NextId)
  /\ Spend("requests")

\* A duplicate request is acknowledged and dropped.
RespCalDuplicate ==
  /\ running
  /\ Spend("requests")
  /\ UNCHANGED <<running, calSub>>

\* writeCalibrationTriggerDID: refused while a calibration is running, else
\* published; the slot is not claimed.
UdsTrigger ==
  /\ ~running /\ budget.requests > 0 /\ budget.uds > 0
  /\ calSub' = Append(calSub, NextId)
  /\ budget' = [budget EXCEPT !.requests = @ - 1, !.uds = @ - 1]
  /\ UNCHANGED running

Request ==
  /\ RespCalQueues \/ RespCalFails \/ RespCalDuplicate \/ UdsTrigger
  /\ UNCHANGED <<pc, run, prev, nvs, cache, setpoint, saved, hs, preNvs, clean,
                 imposed, stuck, fallback>>

\* A setpoint that is not a calibration's.
Publish(v) == setpoint' = v /\ imposed' = [imposed EXCEPT !.live = FALSE]

\* RespSetpoint and writeSetpointDID.
RespSetpoint(v) ==
  /\ Spend("commands")
  /\ Publish(v)
  /\ fallback' = FALSE
  /\ UNCHANGED <<running, calSub, pc, run, prev, nvs, cache, saved, hs, preNvs,
                 clean, stuck>>

\* NoteHandsetPing.
Ping ==
  /\ Spend("pings")
  /\ hs' = [seen |-> TRUE, applied |-> FALSE, age |-> 0]
  /\ fallback' = FALSE
  /\ UNCHANGED <<running, calSub, pc, run, prev, nvs, cache, setpoint, saved,
                 preNvs, clean, imposed, stuck>>

\* handset_failsafe_should_revert.
ShouldRevert == hs.seen /\ ~hs.applied /\ hs.age > PingTimeout

\* Mutant: the latch is set whether or not the publication worked.
FailsafePublishLatches ==
  /\ hs' = [hs EXCEPT !.applied = TRUE]
  /\ \/ Publish(Safe) /\ fallback' = TRUE /\ UNCHANGED budget
     \/ Spend("pub") /\ UNCHANGED <<setpoint, imposed, fallback>>

\* The RX loop publishes the safe setpoint; the latch is set only if that works.
FailsafePublish ==
  \/ /\ Publish(Safe)
     /\ hs' = [hs EXCEPT !.applied = TRUE]
     /\ fallback' = TRUE
     /\ UNCHANGED budget
  \/ Spend("pub") /\ UNCHANGED <<setpoint, imposed, hs, fallback>>

Failsafe ==
  /\ ShouldRevert
  /\ FailsafePublish
  /\ UNCHANGED <<running, calSub, pc, run, prev, nvs, cache, saved, preNvs, clean, stuck>>

Tick ==
  /\ hs.seen /\ hs.age <= PingTimeout
  /\ hs' = [hs EXCEPT !.age = @ + 1]
  /\ UNCHANGED <<running, calSub, pc, run, prev, nvs, cache, setpoint, saved,
                 budget, preNvs, clean, imposed, stuck, fallback>>

-----------------------------------------------------------------------------
(* The calibration thread: cal_thread_fn and the SMF machine.              *)

RxState == <<running, hs, fallback>>

\* Mutant: the setpoint is read after the floor was published.
SuppressThenRead ==
  /\ setpoint' = Floor /\ saved' = Floor
  /\ imposed' = [live |-> TRUE, saved |-> TRUE]
  /\ UNCHANGED budget

\* cal_suppress_setpoint: read the setpoint to restore (0.70 bar if the read
\* fails), publish the floor (or fail to).
SuppressSetpoint ==
  \E readFails, pubFails \in 0..1 :
    /\ budget.pub >= readFails + pubFails
    /\ budget' = [budget EXCEPT !.pub = @ - (readFails + pubFails)]
    /\ saved' = IF readFails = 1 THEN Safe ELSE setpoint
    /\ setpoint' = IF pubFails = 1 THEN setpoint ELSE Floor
    /\ imposed' = [live  |-> pubFails = 0 \/ imposed.live,
                   saved |-> readFails = 0 /\ imposed.live]

\* A request is taken from cal_sub and the control loop quiesced.
Start ==
  /\ pc = "idle" /\ calSub # <<>>
  /\ run' = [NoRun EXCEPT !.id = Head(calSub)]
  /\ calSub' = Tail(calSub)
  /\ SuppressSetpoint
  /\ pc' = "backup"
  /\ UNCHANGED <<RxState, prev, nvs, cache, preNvs, clean, stuck>>

\* cal_backing_up_entry reads the cache; the fO2 was checked by both triggers,
\* so cal_validating_request_entry passes the request on.
BackUp ==
  /\ pc = "backup"
  /\ prev' = cache
  /\ preNvs' = nvs /\ clean' = (cache = nvs)
  /\ pc' = "execute"
  /\ UNCHANGED <<RxState, calSub, run, nvs, cache, setpoint, saved, budget, imposed, stuck>>

\* cal_executing_entry after the settle or flush time: the method is rejected (no
\* reference cell, target PPO2 out of range) or its cells are calibrated in turn.
Execute ==
  /\ pc = "execute"
  /\ \/ run' = [run EXCEPT !.result = "REJECTED"] /\ pc' = "restore"
     \/ \E s \in Methods : /\ run' = [run EXCEPT !.result = "OK", !.cells = s]
                           /\ pc' = "cell"
  /\ UNCHANGED <<RxState, calSub, prev, nvs, cache, setpoint, saved, budget,
                 preNvs, clean, imposed, stuck>>

\* calibration_store_save of coefficient k for cell c: one key is written, then
\* the whole subtree is read back into the cache. ok is its outcome together with
\* the caller's comparison of the cache with k.
Save(c, k, ok) ==
  \/ /\ ok /\ nvs' = [nvs EXCEPT ![c] = k] /\ cache' = nvs'
     /\ UNCHANGED <<budget, clean>>
  \/ /\ ~ok /\ Spend("flash") /\ clean' = FALSE
     /\ \/ UNCHANGED <<nvs, cache>>                             \* the write fails
        \/ nvs' = [nvs EXCEPT ![c] = k] /\ UNCHANGED cache      \* the reload fails
        \/ UNCHANGED nvs /\ cache' = nvs                        \* accepted, not stored

\* Mutant: the result of the last cell replaces that of the others.
LatchLast(r, ok) == IF ok THEN "OK" ELSE "FAILED"

\* A cell that fails fails the run; a later success does not clear it.
Latch(r, ok) == IF ok THEN r ELSE "FAILED"

\* calibrate_cell for the next cell: skipped if the method leaves it out; no
\* reading or a coefficient out of range; or validated and saved.
CalibrateCell ==
  LET c == run.next
  IN /\ pc = "cell" /\ c \in Cells
     /\ \/ /\ c \notin run.cells
           /\ run' = [run EXCEPT !.next = c + 1]
           /\ UNCHANGED <<nvs, cache, budget, clean>>
        \/ /\ c \in run.cells
           /\ run' = [run EXCEPT !.next = c + 1, !.result = Latch(@, FALSE)]
           /\ UNCHANGED <<nvs, cache, budget, clean>>
        \/ /\ c \in run.cells
           /\ \E ok \in BOOLEAN :
                /\ Save(c, run.id, ok)
                /\ run' = [run EXCEPT !.next = c + 1, !.result = Latch(@, ok)]
     /\ UNCHANGED <<RxState, calSub, pc, prev, setpoint, saved, preNvs, imposed, stuck>>

\* Mutant: a failed run is not rolled back.
ExecutedNoRollback ==
  /\ pc = "cell" /\ run.next = N + 1
  /\ pc' = "respond"
  /\ run' = [run EXCEPT !.next = 1]

\* All cells done: DONE, or RESTORING_ON_FAIL.
Executed ==
  /\ pc = "cell" /\ run.next = N + 1
  /\ pc' = IF run.result = "OK" THEN "respond" ELSE "restore"
  /\ run' = [run EXCEPT !.next = 1]

\* cal_restoring_on_fail_entry for the next cell; failures are only logged.
RestoreCell ==
  LET c == run.next
  IN /\ pc = "restore" /\ c \in Cells
     /\ \E ok \in BOOLEAN : Save(c, prev[c], ok)
     /\ run' = [run EXCEPT !.next = c + 1]
     /\ UNCHANGED <<RxState, calSub, pc, prev, setpoint, saved, preNvs, imposed, stuck>>

Restored ==
  /\ pc = "restore" /\ run.next = N + 1
  /\ pc' = "respond" /\ run' = [run EXCEPT !.next = 1]

Advance ==
  /\ Executed \/ Restored
  /\ UNCHANGED <<RxState, calSub, prev, nvs, cache, setpoint, saved, budget,
                 preNvs, clean, imposed, stuck>>

\* cal_done_entry or cal_failed_entry publishes the response.
Respond ==
  /\ pc = "respond" /\ pc' = "unsuppress"
  /\ UNCHANGED <<RxState, calSub, run, prev, nvs, cache, setpoint, saved, budget,
                 preNvs, clean, imposed, stuck>>

\* cal_restore_setpoint.
RestoreSetpoint ==
  /\ pc = "unsuppress" /\ pc' = "release"
  /\ \/ /\ setpoint' = saved /\ imposed' = [imposed EXCEPT !.live = imposed.saved]
        /\ UNCHANGED <<budget, stuck>>
     \/ Spend("pub") /\ stuck' = TRUE /\ UNCHANGED <<setpoint, imposed>>
  /\ UNCHANGED <<RxState, calSub, run, prev, nvs, cache, saved, preNvs, clean>>

\* Mutant: the run ends without giving the slot back.
ReleaseNever == UNCHANGED running

\* calibration_release.
ReleaseSlot == running' = FALSE

Release ==
  /\ pc = "release" /\ pc' = "idle"
  /\ ReleaseSlot
  /\ UNCHANGED <<hs, fallback, calSub, run, prev, nvs, cache, setpoint, saved,
                 budget, preNvs, clean, imposed, stuck>>

\* Power is lost; on the next boot calibration_load_coefficients fills the cache,
\* unless every attempt fails.
Crash ==
  /\ budget.crashes > 0
  /\ running' = FALSE /\ calSub' = <<>> /\ pc' = "idle" /\ run' = NoRun
  /\ prev' = [c \in Cells |-> 0]
  /\ setpoint' = Safe /\ saved' = Safe
  /\ hs' = [seen |-> FALSE, applied |-> FALSE, age |-> 0]
  /\ \/ /\ cache' = nvs
        /\ budget' = [budget EXCEPT !.crashes = @ - 1]
     \/ /\ cache' = [c \in Cells |-> 0] /\ budget.flash > 0
        /\ budget' = [budget EXCEPT !.crashes = @ - 1, !.flash = @ - 1]
  /\ stuck' = FALSE /\ fallback' = FALSE /\ imposed' = NotImposed
  /\ UNCHANGED <<nvs, preNvs, clean>>

CalThread ==
  Start \/ BackUp \/ Execute \/ CalibrateCell \/ RestoreCell \/ Advance
    \/ Respond \/ RestoreSetpoint \/ Release

Next ==
  \/ Request \/ (\E v \in Setpoints : RespSetpoint(v)) \/ Ping \/ Failsafe \/ Tick
  \/ CalThread
  \/ Crash

Spec == Init /\ [][Next]_cvars

\* Zephyr schedules the calibration thread whenever the threads above it block,
\* which the RX thread does between frames; the RX loop evaluates the failsafe at
\* least once per second.
FairSpec == Spec /\ WF_cvars(CalThread) /\ WF_cvars(Failsafe)

-----------------------------------------------------------------------------
TypeOK ==
  /\ running \in BOOLEAN /\ clean \in BOOLEAN
  /\ stuck \in BOOLEAN /\ fallback \in BOOLEAN
  /\ imposed \in [live : BOOLEAN, saved : BOOLEAN]
  /\ calSub \in Seq(2..(MaxRequests + 1))
  /\ pc \in {"idle", "backup", "execute", "cell", "restore", "respond", "unsuppress",
             "release"}
  /\ run \in [id : 0..(MaxRequests + 1), cells : SUBSET Cells, next : 1..(N + 1),
              result : {"OK", "FAILED", "REJECTED"}]
  /\ {prev, nvs, cache, preNvs} \subseteq [Cells -> 0..(MaxRequests + 1)]
  /\ {setpoint, saved} \subseteq Setpoints \cup {Floor, Safe}
  /\ hs \in [seen : BOOLEAN, applied : BOOLEAN, age : 0..(PingTimeout + 1)]

\* A calibration that reports failure leaves the stored coefficients as they
\* were before it, whichever cells had already been saved, provided the cache agreed
\* with flash when it began and flash did not fail (cal_restoring_on_fail_entry).
RollbackRestores ==
  pc = "unsuppress" /\ run.result # "OK" /\ clean => nvs = preNvs

\* A calibration that reports success has stored the new coefficient of every cell
\* its method covers and touched no other, even though flash operations may fail
\* or lie: the readback catches them (cal_validate_and_save).
OkMeansStored ==
  pc = "unsuppress" /\ run.result = "OK" =>
    nvs = [c \in Cells |-> IF c \in run.cells THEN run.id ELSE preNvs[c]]

\* A calibration's hypoxic floor does not outlive it: outside a calibration the
\* setpoint in force is one the diver commanded, the fallback or the power-on
\* default, never one cal_suppress_setpoint published or a later run read back,
\* unless a publication of cal_restore_setpoint was lost since power-on. The value
\* alone tells nothing: the diver may select 0.19 bar himself.
FloorOnlyDuringCal == pc = "idle" /\ imposed.live => stuck

\* "the thread only ever dequeues requests it already owns" (STATE_MACHINES.md).
RunOwnsGuard == pc # "idle" => running

\* "the fallback holds at the safe setpoint until the diver actively re-selects on
\* the returning handset" (handset_failsafe.h).
FallbackHolds == fallback /\ pc = "idle" => setpoint = Safe

\* A handset lost for longer than the timeout brings the safe setpoint, even if
\* publications fail and a calibration is under way, unless the handset returns
\* first or the head restarts (the RX loop retries until the latch is set).
LossReverts ==
  ShouldRevert ~> (setpoint = Safe \/ hs.age = 0)

\* Every calibration ends and gives the slot back, however its steps fail.
SlotReleased == running ~> ~running
=============================================================================
