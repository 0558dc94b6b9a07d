---------------------------- MODULE ConfigProofs ----------------------------
(***************************************************************************)
(* Proofs about what the diver configures: Calibration, for every number   *)
(* of cells, set of methods and setpoints, and Settings, for every menu,   *)
(* set of options, defaults and leftovers of earlier firmware; both for    *)
(* every bound on requests, failures and power losses.                     *)
(*                                                                         *)
(* The calibration thread is the only writer of coefficients, so each of   *)
(* its properties is an induction over its program counter: RunInv says    *)
(* what flash holds in each state of the SMF machine, FloorInv what the    *)
(* setpoint and its saved copy are. The steps of the RX thread leave the   *)
(* first alone, and of the second change only the setpoint.                *)
(*                                                                         *)
(* Settings have two writers, and SettingsInv relates what each of them    *)
(* has in hand, a save that waits for the flash and a copy that autotune   *)
(* will write back, to the live settings. That entries do not disturb one  *)
(* another rests on the menu being a permutation (MenuPermutes); that keys *)
(* do not, on what loads being valid setting by setting (LoadsValid).      *)
(***************************************************************************)
EXTENDS Calibration, Settings, SequenceTheorems, FiniteSetTheorems, WellFoundedInduction, TLAPS

-----------------------------------------------------------------------------
(* Calibration.                                                            *)


Numbers == 0..(MaxRequests + 1)
Coefficients == [Cells -> Numbers]

Bounds == {"requests", "uds", "flash", "pub", "commands", "pings", "crashes"}
BudgetType == budget \in [Bounds -> Nat] /\ budget["requests"] <= MaxRequests

RunType ==
  run \in [id : Numbers, cells : SUBSET Cells, next : 1..(N + 1),
           result : {"OK", "FAILED", "REJECTED"}]

HsType == hs \in [seen : BOOLEAN, applied : BOOLEAN, age : 0..(PingTimeout + 1)]

FlagType == /\ running \in BOOLEAN /\ clean \in BOOLEAN /\ stuck \in BOOLEAN /\ fallback \in BOOLEAN
            /\ imposed \in [live : BOOLEAN, saved : BOOLEAN]

PcType ==
  pc \in {"idle", "backup", "execute", "cell", "restore", "respond", "unsuppress", "release"}

StoreType ==
  /\ prev \in Coefficients /\ nvs \in Coefficients
  /\ cache \in Coefficients /\ preNvs \in Coefficients

SetpointType ==
  setpoint \in Setpoints \cup {Floor, Safe} /\ saved \in Setpoints \cup {Floor, Safe}

TypeInv ==
  BudgetType /\ RunType /\ HsType /\ FlagType /\ PcType /\ StoreType /\ SetpointType
    /\ calSub \in Seq(2..(MaxRequests + 1))

\* What flash holds as the run goes: the old coefficients until the first cell is
\* saved; in a run without a failure so far, the new ones of the cells behind next;
\* in a roll-back, the backed-up ones of the cells behind next.
RunInv ==
  /\ pc \in {"backup", "execute"} => run.next = 1
  /\ pc = "execute" => nvs = preNvs
  /\ pc \in {"execute", "cell", "restore"} /\ clean => prev = preNvs
  /\ pc = "cell" /\ run.result = "OK" =>
       \A c \in Cells : nvs[c] = IF c \in run.cells /\ c < run.next THEN run.id ELSE preNvs[c]
  /\ pc = "restore" => run.result # "OK"
  /\ pc = "restore" /\ clean => \A c \in Cells : c < run.next => nvs[c] = prev[c]
  /\ pc \in {"respond", "unsuppress"} =>
       /\ run.result # "OK" /\ clean => nvs = preNvs
       /\ run.result = "OK" =>
            \A c \in Cells : nvs[c] = IF c \in run.cells THEN run.id ELSE preNvs[c]

\* A calibration's setpoint is in force, and is saved as what to restore, only in a
\* run or after a restoring publication was lost.
FloorInv ==
  /\ pc \in {"idle", "release"} => (imposed.live => stuck)
  /\ imposed.saved => stuck

-----------------------------------------------------------------------------
LEMMA Sizes == N \in Nat \ {0} /\ MaxRequests \in Nat /\ PingTimeout \in Nat
  BY CalConstants

LEMMA MethodCells == \A s \in Methods : s \subseteq Cells
  BY CalConstants

\* All is well typed at power-on, before any run.
LEMMA CalInit == Init => TypeInv /\ RunInv /\ FloorInv
  <1>. SUFFICES ASSUME Init PROVE TypeInv /\ RunInv /\ FloorInv
    OBVIOUS
  <1>. USE CalConstants
  <1>0. FlagType
    BY DEF Init, FlagType, NotImposed
  <1>1. RunType /\ HsType /\ PcType /\ SetpointType /\ BudgetType
    BY DEF Init, NoRun, Numbers, RunType, HsType, PcType, SetpointType, BudgetType, Bounds
  <1>2. StoreType
    BY DEF Init, StoreType, Coefficients, Numbers
  <1>3. RunInv /\ FloorInv /\ calSub \in Seq(2..(MaxRequests + 1))
    BY DEF Init, RunInv, FloorInv, NotImposed
  <1>. QED BY <1>0, <1>1, <1>2, <1>3 DEF TypeInv

\* Spending from one bound, or from two, keeps every bound a number.
LEMMA Spent ==
  ASSUME BudgetType, NEW a \in Bounds, Spend(a)
  PROVE  BudgetType'
  BY Sizes DEF BudgetType, Bounds, Spend

LEMMA SpentTwo ==
  ASSUME BudgetType, NEW a \in Bounds, NEW b \in Bounds, a # b, budget[a] > 0, budget[b] > 0,
         budget' = [budget EXCEPT ![a] = @ - 1, ![b] = @ - 1]
  PROVE  BudgetType'
  <1>1. budget[a] - 1 \in Nat /\ budget[b] - 1 \in Nat /\ budget \in [Bounds -> Nat]
    BY DEF BudgetType
  <1>. DEFINE n == budget[a] - 1   m == budget[b] - 1
  <1>2. budget' = [[budget EXCEPT ![a] = n] EXCEPT ![b] = m]
    OBVIOUS
  <1>3. n <= budget[a] /\ m <= budget[b]
    BY <1>1
  <1>4. budget["requests"] <= MaxRequests /\ budget["requests"] \in Nat /\ "requests" \in Bounds
    BY DEF BudgetType, Bounds
  <1>. HIDE DEF n, m, Bounds
  <1>5. budget' \in [Bounds -> Nat]
    BY <1>1, <1>2 DEF n, m
  <1>6. budget'["requests"] <= MaxRequests
    <2>1. CASE a = "requests"
      BY <1>1, <1>2, <1>3, <1>4, <2>1, Sizes DEF n
    <2>2. CASE b = "requests"
      BY <1>1, <1>2, <1>3, <1>4, <2>2, Sizes DEF m
    <2>3. CASE a # "requests" /\ b # "requests"
      BY <1>1, <1>2, <1>4, <2>3
    <2>. QED BY <2>1, <2>2, <2>3
  <1>. QED BY <1>5, <1>6 DEF BudgetType

\* Every bound is spent downwards, so that each request has a number of its own.
LEMMA BudgetStep ==
  ASSUME TypeInv, [Next]_cvars  PROVE  BudgetType'
  <1>. BudgetType
    BY DEF TypeInv
  <1>0. /\ "requests" \in Bounds /\ "uds" \in Bounds /\ "flash" \in Bounds /\ "pub" \in Bounds
        /\ "commands" \in Bounds /\ "pings" \in Bounds /\ "crashes" \in Bounds
    BY DEF Bounds
  <1>1. CASE RespCalFails
    BY <1>0, <1>1, SpentTwo DEF RespCalFails
  <1>2. CASE UdsTrigger
    BY <1>0, <1>2, SpentTwo DEF UdsTrigger
  <1>3. CASE Crash
    <2>1. CASE Spend("crashes")
      BY <1>0, <2>1, Spent
    <2>2. CASE budget["flash"] > 0 /\ budget' = [budget EXCEPT !.crashes = @ - 1, !.flash = @ - 1]
      BY <1>0, <1>3, <2>2, SpentTwo DEF Crash
    <2>. QED BY <1>3, <2>1, <2>2 DEF Crash, Spend
  <1>4. ASSUME NEW b \in Bounds, Spend(b)  PROVE BudgetType'
    BY <1>4, Spent
  <1>5. CASE UNCHANGED budget
    BY <1>5 DEF BudgetType
  <1>6. CASE Request
    BY <1>0, <1>1, <1>2, <1>4, <1>6 DEF Request, RespCalQueues, RespCalDuplicate
  <1>9. CASE Start
    <2>0. PICK a \in 0..1, b \in 0..1 :
            budget.pub >= a + b /\ budget' = [budget EXCEPT !.pub = @ - (a + b)]
      BY <1>9 DEF Start, SuppressSetpoint
    <2>. DEFINE n == a + b
    <2>a. n \in 0..2
      OBVIOUS
    <2>1. budget.pub >= n /\ budget' = [budget EXCEPT !.pub = @ - n]
      BY <2>0
    <2>. HIDE DEF n
    <2>2. budget.pub \in Nat /\ budget.pub - n \in Nat
      BY <1>0, <2>1, <2>a DEF BudgetType
    <2>. QED BY <1>0, <2>1, <2>2, <2>a, Sizes DEF BudgetType, Bounds
  <1>7. CASE CalThread
    BY <1>0, <1>4, <1>5, <1>7, <1>9
    DEF CalThread, BackUp, Execute, CalibrateCell, Save, RestoreCell, Advance, Respond,
        RestoreSetpoint, Release
  <1>8. CASE Failsafe \/ Tick \/ Ping \/ \E v \in Setpoints : RespSetpoint(v)
    BY <1>0, <1>4, <1>5, <1>8 DEF Failsafe, FailsafePublish, Tick, Ping, RespSetpoint
  <1>. QED BY <1>3, <1>5, <1>6, <1>7, <1>8 DEF Next, cvars

\* A request that the bound admits has a number below the bound.
LEMMA Numbered ==
  ASSUME BudgetType, budget["requests"] > 0
  PROVE  NextId \in 2..(MaxRequests + 1)
  BY Sizes DEF BudgetType, Bounds, NextId

\* The calibration thread's queue holds numbers of requests.
LEMMA QueueStep ==
  ASSUME TypeInv, [Next]_cvars  PROVE  calSub' \in Seq(2..(MaxRequests + 1))
  <1>. USE Sizes DEF TypeInv, Spend
  <1>1. CASE RespCalFails
    BY <1>1 DEF RespCalFails
  <1>2. CASE RespCalQueues
    BY <1>2, Numbered DEF RespCalQueues
  <1>3. CASE RespCalDuplicate
    BY <1>3 DEF RespCalDuplicate
  <1>4. CASE UdsTrigger
    BY <1>4, Numbered DEF UdsTrigger
  <1>5. CASE Start
    BY <1>5 DEF Start
  <1>6. CASE Crash
    BY <1>6 DEF Crash
  <1>7. CASE UNCHANGED calSub
    BY <1>7
  <1>. QED
    BY <1>1, <1>2, <1>3, <1>4, <1>5, <1>6, <1>7
    DEF Next, Request, CalThread, cvars, RxState, RespSetpoint, Ping, Failsafe,
        FailsafePublish, Tick, SuppressSetpoint, BackUp, Execute, CalibrateCell, RestoreCell,
        Advance, Executed, Restored, Respond, RestoreSetpoint, Release, ReleaseSlot

\* The run record moves on by one cell at a time.
LEMMA RunTypeStep ==
  ASSUME TypeInv, [Next]_cvars  PROVE  RunType' /\ PcType'
  <1>. USE Sizes DEF TypeInv, RunType, PcType
  <1>1. CASE Start
    <2>1. pc' = "backup" /\ run' = [NoRun EXCEPT !.id = Head(calSub)] /\ calSub # <<>>
      BY <1>1 DEF Start
    <2>2. Head(calSub) \in 2..(MaxRequests + 1)
      BY <2>1
    <2>3. Head(calSub) \in Numbers
      BY <2>2 DEF Numbers
    <2>4. 1 \in 1..(N + 1)
      OBVIOUS
    <2>. DEFINE id == Head(calSub)
    <2>5. run' = [id |-> id, cells |-> {}, next |-> 1, result |-> "FAILED"]
      BY <2>1 DEF NoRun
    <2>6. id \in Numbers
      BY <2>3
    <2>. HIDE DEF id
    <2>7. RunType'
      BY <2>4, <2>5, <2>6
    <2>8. PcType'
      BY <2>1
    <2>. QED BY <2>7, <2>8
  <1>2. CASE BackUp
    BY <1>2 DEF BackUp
  <1>3. CASE Execute
    <2>1. ASSUME NEW s \in Methods, run' = [[run EXCEPT !.result = "OK"] EXCEPT !.cells = s]
          PROVE  RunType'
      BY <2>1, MethodCells
    <2>2. run' = [run EXCEPT !.result = "REJECTED"] => RunType'
      OBVIOUS
    <2>3. PcType'
      BY <1>3 DEF Execute
    <2>. QED BY <1>3, <2>1, <2>2, <2>3 DEF Execute
  <1>4. CASE CalibrateCell
    <2>. DEFINE next == run.next + 1
    <2>0. run.next \in Cells /\ pc' = pc
      BY Zenon, <1>4 DEF CalibrateCell
    <2>1. next \in 1..(N + 1)
      BY <2>0 DEF Cells
    <2>2. \/ run' = [run EXCEPT !.next = next]
          \/ \E r \in {"OK", "FAILED", "REJECTED"} :
               run' = [[run EXCEPT !.next = next] EXCEPT !.result = r]
      BY <1>4 DEF CalibrateCell, Latch
    <2>. HIDE DEF next
    <2>. QED BY <2>0, <2>1, <2>2
  <1>5. CASE RestoreCell
    <2>. DEFINE next == run.next + 1
    <2>0. run.next \in Cells /\ pc' = pc
      BY Zenon, <1>5 DEF RestoreCell
    <2>1. next \in 1..(N + 1)
      BY <2>0 DEF Cells
    <2>2. run' = [run EXCEPT !.next = next]
      BY <1>5 DEF RestoreCell
    <2>. HIDE DEF next
    <2>. QED BY <2>0, <2>1, <2>2
  <1>6. CASE Advance
    <2>1. run' = [run EXCEPT !.next = 1] /\ pc' \in {"respond", "restore"}
      BY <1>6 DEF Advance, Executed, Restored
    <2>2. 1 \in 1..(N + 1)
      OBVIOUS
    <2>. QED BY <2>1, <2>2
  <1>7. CASE Respond
    BY <1>7 DEF Respond
  <1>8. CASE RestoreSetpoint
    BY <1>8 DEF RestoreSetpoint
  <1>9. CASE Release
    BY <1>9 DEF Release
  <1>10. CASE Crash
    BY <1>10 DEF Crash, NoRun, Numbers
  <1>11. CASE UNCHANGED <<run, pc>>
    BY <1>11
  <1>. QED
    BY <1>1, <1>2, <1>3, <1>4, <1>5, <1>6, <1>7, <1>8, <1>9, <1>10, <1>11
    DEF Next, Request, CalThread, cvars, RxState, RespCalFails, RespCalQueues,
        RespCalDuplicate, UdsTrigger, RespSetpoint, Ping, Failsafe, FailsafePublish, Tick,
        SuppressSetpoint, Executed, Restored, ReleaseSlot

\* The failsafe's age stops counting above the timeout.
LEMMA HsTypeStep ==
  ASSUME TypeInv, [Next]_cvars  PROVE  HsType'
  <1>. USE Sizes DEF TypeInv, HsType
  <1>1. CASE Ping
    BY <1>1 DEF Ping
  <1>2. CASE Failsafe
    BY <1>2 DEF Failsafe, FailsafePublish
  <1>3. CASE Tick
    <2>. DEFINE older == hs.age + 1
    <2>1. older \in 0..(PingTimeout + 1) /\ hs' = [hs EXCEPT !.age = older]
      BY <1>3 DEF Tick
    <2>. HIDE DEF older
    <2>. QED BY <2>1
  <1>4. CASE Crash
    BY <1>4 DEF Crash
  <1>5. CASE UNCHANGED hs
    BY <1>5
  <1>. QED
    BY <1>1, <1>2, <1>3, <1>4, <1>5
    DEF Next, Request, CalThread, cvars, RxState, RespCalFails, RespCalQueues,
        RespCalDuplicate, UdsTrigger, RespSetpoint, FailsafePublish, Start, SuppressSetpoint,
        BackUp, Execute, CalibrateCell, RestoreCell, Advance, Executed, Restored, Respond,
        RestoreSetpoint, Release, ReleaseSlot

\* The flags are flags.
LEMMA FlagTypeStep ==
  ASSUME TypeInv, [Next]_cvars  PROVE  FlagType'
  <1>. DEFINE Two == [live : BOOLEAN, saved : BOOLEAN]
  <1>0. /\ running \in BOOLEAN /\ clean \in BOOLEAN /\ stuck \in BOOLEAN
        /\ fallback \in BOOLEAN /\ imposed \in Two
    BY Zenon DEF TypeInv, FlagType
  <1>a. running' \in BOOLEAN
    BY Zenon, <1>0
    DEF Next, Request, CalThread, cvars, RxState, RespCalFails, RespCalQueues,
        RespCalDuplicate, UdsTrigger, RespSetpoint, Ping, Failsafe, Tick, Start, BackUp,
        Execute, CalibrateCell, RestoreCell, Advance, Respond, RestoreSetpoint, Release,
        ReleaseSlot, Crash
  <1>b. clean' \in BOOLEAN
    BY Zenon, <1>0
    DEF Next, Request, CalThread, cvars, RxState, RespSetpoint, Ping, Failsafe, Tick, Start,
        BackUp, Execute, CalibrateCell, Save, RestoreCell, Advance, Respond, RestoreSetpoint,
        Release, Crash
  <1>c. stuck' \in BOOLEAN /\ fallback' \in BOOLEAN
    BY Zenon, <1>0
    DEF Next, Request, CalThread, cvars, RxState, RespSetpoint, Ping, Failsafe,
        FailsafePublish, Tick, Start, BackUp, Execute, CalibrateCell, RestoreCell, Advance,
        Respond, RestoreSetpoint, Release, Crash
  <1>d. imposed' \in Two
    <2>1. CASE UNCHANGED imposed
      BY <1>0, <2>1
    <2>2. ASSUME NEW v, Publish(v)  PROVE imposed' \in Two
      BY <1>0, <2>2 DEF Publish
    <2>3. CASE Start
      BY <1>0, <2>3 DEF Start, SuppressSetpoint
    <2>4. CASE RestoreSetpoint
      BY <1>0, <2>4 DEF RestoreSetpoint
    <2>5. CASE Crash
      BY <2>5 DEF Crash, NotImposed
    <2>. HIDE DEF Two
    <2>. QED
      BY Zenon, <2>1, <2>2, <2>3, <2>4, <2>5
      DEF Next, Request, CalThread, cvars, RespSetpoint, Ping, Failsafe, FailsafePublish,
          Tick, BackUp, Execute, CalibrateCell, RestoreCell, Advance, Respond, Release
  <1>. QED BY Zenon, <1>0, <1>a, <1>b, <1>c, <1>d DEF FlagType

\* Flash, cache and backup hold coefficients of runs.
LEMMA StoreTypeStep ==
  ASSUME TypeInv, [Next]_cvars  PROVE  StoreType'
  <1>. USE Sizes DEF TypeInv, StoreType, Coefficients
  <1>1. CASE BackUp
    BY <1>1 DEF BackUp
  <1>2. CASE CalibrateCell
    <2>. DEFINE saved_ == [nvs EXCEPT ![run.next] = run.id]
    <2>1. saved_ \in Coefficients
      BY DEF RunType
    <2>2. nvs' \in {nvs, saved_} /\ cache' \in {cache, nvs, saved_} /\ UNCHANGED <<prev, preNvs>>
      BY <1>2 DEF CalibrateCell, Save
    <2>. HIDE DEF saved_
    <2>. QED BY <2>1, <2>2
  <1>3. CASE RestoreCell
    <2>. DEFINE rolled == [nvs EXCEPT ![run.next] = prev[run.next]]
    <2>1. rolled \in Coefficients
      BY <1>3 DEF RestoreCell
    <2>2. nvs' \in {nvs, rolled} /\ cache' \in {cache, nvs, rolled} /\ UNCHANGED <<prev, preNvs>>
      BY <1>3 DEF RestoreCell, Save
    <2>. HIDE DEF rolled
    <2>. QED BY <2>1, <2>2
  <1>4. CASE Crash
    <2>1. 0 \in Numbers
      BY DEF Numbers
    <2>2. [c \in Cells |-> 0] \in Coefficients
      BY <2>1
    <2>. QED BY <1>4, <2>2 DEF Crash
  <1>5. CASE UNCHANGED <<prev, nvs, cache, preNvs>>
    BY <1>5
  <1>. QED
    BY <1>1, <1>2, <1>3, <1>4, <1>5
    DEF Next, Request, CalThread, cvars, RxState, RespCalFails, RespCalQueues,
        RespCalDuplicate, UdsTrigger, RespSetpoint, Ping, Failsafe, FailsafePublish, Tick,
        Start, SuppressSetpoint, Execute, Advance, Executed, Restored, Respond,
        RestoreSetpoint, Release, ReleaseSlot

\* The setpoint is the diver's, the safe one or the floor.
LEMMA SetpointTypeStep ==
  ASSUME TypeInv, [Next]_cvars  PROVE  SetpointType'
  <1>. USE Sizes DEF TypeInv, SetpointType
  <1>1. ASSUME NEW v \in Setpoints, RespSetpoint(v)  PROVE SetpointType'
    BY <1>1 DEF RespSetpoint, Publish
  <1>2. CASE Failsafe
    BY <1>2 DEF Failsafe, FailsafePublish, Publish
  <1>3. CASE Start
    BY <1>3 DEF Start, SuppressSetpoint
  <1>4. CASE RestoreSetpoint
    BY <1>4 DEF RestoreSetpoint
  <1>5. CASE Crash
    BY <1>5 DEF Crash
  <1>6. CASE UNCHANGED <<setpoint, saved>>
    BY <1>6
  <1>. QED
    BY <1>1, <1>2, <1>3, <1>4, <1>5, <1>6
    DEF Next, Request, CalThread, cvars, RxState, RespCalFails, RespCalQueues,
        RespCalDuplicate, UdsTrigger, RespSetpoint, Ping, FailsafePublish, Tick,
        SuppressSetpoint, BackUp, Execute, CalibrateCell, RestoreCell, Advance, Executed,
        Restored, Respond, Release, ReleaseSlot

\* Each cell a run saves or rolls back moves flash one cell on.
LEMMA RunStep ==
  ASSUME TypeInv, RunInv, [Next]_cvars  PROVE  RunInv'
  <1>. USE Sizes DEF TypeInv, RunInv
  <1>1. CASE Start
    BY <1>1 DEF Start, NoRun, RunType
  <1>2. CASE BackUp
    BY <1>2 DEF BackUp
  <1>3. CASE Execute
    <2>1. run.next = 1 /\ nvs = preNvs /\ (clean => prev = preNvs)
          /\ UNCHANGED <<prev, nvs, preNvs, clean>>
      BY <1>3 DEF Execute
    <2>2. \/ pc' = "restore" /\ run' = [run EXCEPT !.result = "REJECTED"]
          \/ pc' = "cell" /\ \E s \in Methods :
               run' = [[run EXCEPT !.result = "OK"] EXCEPT !.cells = s]
      BY <1>3 DEF Execute
    <2>3. run'.next = 1 /\ (pc' = "restore" => run'.result # "OK")
      BY <2>1, <2>2 DEF RunType
    <2>4. \A c \in Cells : ~(c < 1)
      BY DEF Cells
    <2>. QED BY <2>1, <2>2, <2>3, <2>4
  <1>4. CASE CalibrateCell
    <2>. DEFINE c == run.next
    <2>0. c \in Cells /\ pc = "cell" /\ UNCHANGED <<pc, prev, preNvs>>
      BY Zenon, <1>4 DEF CalibrateCell
    <2>1a. \/ run' = [run EXCEPT !.next = c + 1]
           \/ \E r \in {"OK", "FAILED", "REJECTED"} :
                run' = [[run EXCEPT !.next = c + 1] EXCEPT !.result = r]
      BY <1>4 DEF CalibrateCell, Latch, RunType
    <2>1b. c \in Nat
      BY <2>0 DEF Cells
    <2>1. c \in Nat /\ run'.next = c + 1 /\ run'.cells = run.cells /\ run'.id = run.id
      <3>. DEFINE next == c + 1
      <3>. HIDE DEF next
      <3>1. run'.next = next /\ run'.cells = run.cells /\ run'.id = run.id
        BY <2>1a DEF RunType, next
      <3>. QED BY <2>1b, <3>1 DEF next
    <2>2. clean' => clean
      BY Zenon, <1>4 DEF CalibrateCell, Save
    <2>3. run'.result = "OK" =>
            /\ run.result = "OK"
            /\ nvs' = IF c \in run.cells THEN [nvs EXCEPT ![c] = run.id] ELSE nvs
      BY <1>4 DEF CalibrateCell, Save, Latch, RunType
    <2>4. run'.result = "OK" => \A d \in Cells :
            nvs'[d] = IF d \in run.cells /\ d < c + 1 THEN run.id ELSE preNvs[d]
      <3>. SUFFICES ASSUME run'.result = "OK", NEW d \in Cells
                    PROVE  nvs'[d] = IF d \in run.cells /\ d < c + 1 THEN run.id ELSE preNvs[d]
        OBVIOUS
      <3>1. nvs[d] = IF d \in run.cells /\ d < c THEN run.id ELSE preNvs[d]
        BY <2>0, <2>3
      <3>2. nvs'[d] = IF d = c /\ c \in run.cells THEN run.id ELSE nvs[d]
        BY <2>0, <2>3 DEF StoreType, Coefficients
      <3>3. d < c + 1 <=> d < c \/ d = c
        BY <2>0 DEF Cells
      <3>. QED BY <3>1, <3>2, <3>3
    <2>. QED BY <2>0, <2>1, <2>2, <2>4
  <1>5. CASE RestoreCell
    <2>. DEFINE c == run.next
    <2>1. c \in Cells /\ c \in Nat /\ pc = "restore" /\ run'.next = c + 1
          /\ run'.result = run.result /\ UNCHANGED <<pc, prev, preNvs>>
      BY <1>5 DEF RestoreCell, RunType, Cells
    <2>2. clean' => clean /\ nvs' = [nvs EXCEPT ![c] = prev[c]]
      BY Zenon, <1>5 DEF RestoreCell, Save
    <2>3. ASSUME clean', NEW d \in Cells, d < c + 1  PROVE nvs'[d] = prev[d]
      <3>1. d < c \/ d = c
        BY <2>1, <2>3 DEF Cells
      <3>2. nvs'[d] = IF d = c THEN prev[c] ELSE nvs[d]
        BY <2>1, <2>2, <2>3 DEF StoreType, Coefficients
      <3>. QED BY <2>1, <2>2, <2>3, <3>1, <3>2
    <2>. QED BY <2>1, <2>2, <2>3
  <1>6. CASE Advance
    <2>0. \A c \in Cells : c < N + 1
      BY DEF Cells
    <2>1. /\ pc' \in {"respond", "restore"} /\ run'.next = 1
          /\ UNCHANGED <<prev, nvs, preNvs, clean>>
          /\ run'.result = run.result /\ run'.cells = run.cells /\ run'.id = run.id
      BY <1>6 DEF Advance, Executed, Restored, RunType
    <2>2. CASE Executed
      <3>1. pc = "cell" /\ run.next = N + 1 /\ (pc' = "respond" <=> run.result = "OK")
        BY <2>2 DEF Executed
      <3>2. \A c \in Cells : ~(c < 1)
        BY DEF Cells
      <3>. QED BY <2>0, <2>1, <3>1, <3>2
    <2>3. CASE Restored
      <3>1. pc = "restore" /\ run.next = N + 1 /\ pc' = "respond"
        BY <2>3 DEF Restored
      <3>2. clean => nvs = prev
        BY <2>0, <3>1 DEF StoreType, Coefficients
      <3>. QED BY <2>1, <3>1, <3>2
    <2>. QED BY <1>6, <2>2, <2>3 DEF Advance
  <1>7. CASE Respond
    BY <1>7 DEF Respond
  <1>8. CASE RestoreSetpoint
    BY <1>8 DEF RestoreSetpoint
  <1>9. CASE Release
    BY <1>9 DEF Release
  <1>10. CASE Crash
    BY <1>10 DEF Crash
  <1>11. CASE UNCHANGED <<pc, run, prev, nvs, preNvs, clean>>
    BY <1>11
  <1>. QED
    BY <1>1, <1>2, <1>3, <1>4, <1>5, <1>6, <1>7, <1>8, <1>9, <1>10, <1>11
    DEF Next, Request, CalThread, cvars, RxState, RespCalFails, RespCalQueues,
        RespCalDuplicate, UdsTrigger, RespSetpoint, Ping, Failsafe, FailsafePublish, Tick,
        SuppressSetpoint, Executed, Restored, ReleaseSlot

\* Whoever publishes a setpoint in a run, what is restored is not the
\* calibration's.
LEMMA FloorStep ==
  ASSUME TypeInv, FloorInv, [Next]_cvars  PROVE  FloorInv'
  <1>. USE Sizes DEF TypeInv, FloorInv
  <1>1. ASSUME NEW v \in Setpoints, RespSetpoint(v)  PROVE FloorInv'
    BY <1>1 DEF RespSetpoint, Publish, FlagType
  <1>2. CASE Failsafe
    BY <1>2 DEF Failsafe, FailsafePublish, Publish, FlagType
  <1>3. CASE Start
    BY <1>3 DEF Start, SuppressSetpoint, FlagType
  <1>4. CASE BackUp
    BY <1>4 DEF BackUp
  <1>5. CASE Execute
    BY <1>5 DEF Execute
  <1>6. CASE CalibrateCell
    BY <1>6 DEF CalibrateCell
  <1>7. CASE RestoreCell
    BY <1>7 DEF RestoreCell
  <1>8. CASE Advance
    BY <1>8 DEF Advance, Executed, Restored
  <1>9. CASE Respond
    BY <1>9 DEF Respond
  <1>10. CASE RestoreSetpoint
    BY <1>10 DEF RestoreSetpoint, FlagType
  <1>11. CASE Release
    BY <1>11 DEF Release
  <1>12. CASE Crash
    BY <1>12 DEF Crash, NotImposed
  <1>13. CASE UNCHANGED <<pc, imposed, stuck>>
    BY <1>13
  <1>. QED
    BY <1>1, <1>2, <1>3, <1>4, <1>5, <1>6, <1>7, <1>8, <1>9, <1>10, <1>11, <1>12, <1>13
    DEF Next, Request, CalThread, cvars, RxState, RespCalFails, RespCalQueues,
        RespCalDuplicate, UdsTrigger, RespSetpoint, Ping, FailsafePublish, Tick,
        SuppressSetpoint, Executed, Restored, ReleaseSlot

\* The inductive invariant of the calibration machine.
LEMMA CalStep ==
  TypeInv /\ RunInv /\ FloorInv /\ [Next]_cvars => (TypeInv /\ RunInv /\ FloorInv)'
  BY BudgetStep, QueueStep, RunTypeStep, HsTypeStep, FlagTypeStep, StoreTypeStep,
     SetpointTypeStep, RunStep,
     FloorStep DEF TypeInv

\* Every variable keeps its type: no run number, cell index or handset age leaves
\* its range.
THEOREM CalTypeCorrect == Spec => []TypeOK
  <1>1. TypeInv => TypeOK
    BY DEF TypeInv, TypeOK, RunType, HsType, FlagType, PcType, StoreType, SetpointType,
       Coefficients,
       Numbers
  <1>. QED BY <1>1, CalInit, CalStep, PTL DEF Spec

\* A calibration that reports failure has rolled every cell back, however many it
\* had saved, whatever was requested, commanded or lost meanwhile.
THEOREM FailureRollsBack == Spec => []RollbackRestores
  <1>1. RunInv => RollbackRestores
    BY DEF RunInv, RollbackRestores
  <1>. QED BY <1>1, CalInit, CalStep, PTL DEF Spec

\* A calibration that reports success has stored the coefficients it computed, of
\* exactly the cells of its method, although flash may fail or lie at any write.
THEOREM SuccessIsStored == Spec => []OkMeansStored
  <1>1. TypeInv /\ RunInv => OkMeansStored
    BY DEF TypeInv, StoreType, Coefficients, RunInv, OkMeansStored
  <1>. QED BY <1>1, CalInit, CalStep, PTL DEF Spec

\* Outside a calibration the setpoint in force is never one a calibration imposed,
\* although 0.19 bar is also a setpoint the diver may select, unless a publication
\* that restores the setpoint was lost.
THEOREM FloorEnds == Spec => []FloorOnlyDuringCal
  <1>1. FloorInv => FloorOnlyDuringCal
    BY DEF FloorInv, FloorOnlyDuringCal
  <1>. QED BY <1>1, CalInit, CalStep, PTL DEF Spec

-----------------------------------------------------------------------------
(* Settings: the menu.                                                     *)

\* Every non-empty set of numbers has a least one.
LEMMA LeastIn ==
  ASSUME NEW S, S \subseteq Nat, S # {}
  PROVE  \E m \in S : \A k \in S : m =< k
  <1>. DEFINE R == OpToRel(<, Nat)
  <1>1. IsWellFoundedOn(R, Nat)
    BY NatLessThanWellFounded, Zenon
  <1>2. \A x, y \in Nat : x < y => <<x, y>> \in R
    BY SMT DEF OpToRel
  <1>. HIDE DEF R
  <1>3. PICK m \in S : \A y \in S : <<y, m>> \notin R
    BY <1>1, WFMin
  <1>4. ASSUME NEW y \in S PROVE m =< y
    <2>1. m \in Nat /\ y \in Nat
      BY <1>3
    <2>2. ~(y < m)
      BY <1>2, <1>3, <2>1
    <2>. QED BY <2>1, <2>2
  <1>. QED BY <1>4

\* The slots: every setting is one of them.
LEMMA SlotsAre ==
  /\ \E k \in Nat : DOMAIN Slots = 1..k
  /\ \A s \in Storage : \E n \in DOMAIN Slots : Slots[n] = s
  <1>. DEFINE T == Storage \cup {-1}
              m == MenuSlots
              k == Len(m)
              all == [i \in 1 .. 12 |-> i - 1]
              c == m \o all
  <1>1. m \in Seq(T) /\ k \in Nat
    BY SettingsConstants DEF SettingsConstants
  <1>2. all \in Seq(T) /\ Len(all) = 12
    BY DEF Storage
  <1>3. \A s \in Storage : \E i \in 1..12 : all[i] = s
    <2>1. ASSUME NEW s \in Storage PROVE s + 1 \in 1..12 /\ all[s + 1] = s
      BY DEF Storage
    <2>. QED BY <2>1
  <1>4. Slots = c
    BY DEF Slots
  <1>. HIDE DEF T, m, all
  <1>5. /\ Len(c) = k + 12
        /\ \A i \in 1..(k + 12) : c[i] = IF i <= k THEN m[i] ELSE all[i - k]
    <2>1. /\ m \o all \in Seq(T) /\ Len(m \o all) = Len(m) + Len(all)
          /\ \A i \in 1 .. Len(m) + Len(all) :
               (m \o all)[i] = IF i <= Len(m) THEN m[i] ELSE all[i - Len(m)]
      BY <1>1, <1>2, ConcatProperties
    <2>. QED BY <1>1, <1>2, <2>1
  <1>6. c \in Seq(T)
    BY <1>1, <1>2, ConcatProperties
  <1>. HIDE DEF c, k
  <1>7. DOMAIN c = 1..(k + 12) /\ k + 12 \in Nat
    BY <1>1, <1>5, <1>6
  <1>8. ASSUME NEW s \in Storage PROVE \E n \in DOMAIN c : c[n] = s
    <2>1. PICK i \in 1..12 : all[i] = s
      BY <1>3
    <2>2. k \in Nat
      BY <1>1
    <2>3. k + i \in 1..(k + 12) /\ ~(k + i <= k) /\ (k + i) - k = i
      BY <2>2
    <2>4. c[k + i] = s
      BY <1>5, <2>1, <2>3
    <2>. QED BY <1>7, <2>3, <2>4
  <1>. QED BY <1>4, <1>7, <1>8

LEMMA ShownFinite == IsFiniteSet(Shown) /\ Shown \subseteq Nat
  <1>1. PICK k \in Nat : DOMAIN Slots = 1..k
    BY SlotsAre
  <1>2. Shown \subseteq 1..k /\ 1..k \subseteq Nat
    BY <1>1 DEF Shown
  <1>3. IsFiniteSet(1..k)
    BY FS_Interval
  <1>. QED BY <1>2, <1>3, FS_Subset

\* Every setting is shown in exactly one slot.
LEMMA ShownOnce ==
  /\ \A s \in Storage : \E n \in Shown : Slots[n] = s
  /\ \A n, m \in Shown : Slots[n] = Slots[m] => n = m
  /\ \A n \in Shown : Slots[n] \in Storage
  <1>1. ASSUME NEW s \in Storage PROVE \E n \in Shown : Slots[n] = s
    <2>. DEFINE S == {n \in DOMAIN Slots : Slots[n] = s}
    <2>1. PICK k \in Nat : DOMAIN Slots = 1..k
      BY SlotsAre
    <2>2. S \subseteq Nat /\ S # {}
      BY <2>1, SlotsAre
    <2>3. PICK n \in S : \A m \in S : n =< m
      <3>. HIDE DEF S
      <3>. QED BY <2>2, LeastIn, Zenon
    <2>4. n \in 1..k /\ Slots[n] = s
      BY <2>1, <2>3
    <2>5. ASSUME NEW m \in 1..(n - 1) PROVE Slots[m] # s
      <3>1. m \in DOMAIN Slots /\ ~(n =< m)
        BY <2>1, <2>4
      <3>. QED BY <2>3, <3>1
    <2>. QED BY <2>1, <2>4, <2>5 DEF Shown
  <1>2. ASSUME NEW n \in Shown, NEW m \in Shown, Slots[n] = Slots[m], n < m PROVE FALSE
    <2>1. PICK k \in Nat : DOMAIN Slots = 1..k
      BY SlotsAre
    <2>2. n \in 1..(m - 1)
      BY <1>2, <2>1 DEF Shown
    <2>. QED BY <1>2, <2>2 DEF Shown
  <1>3. \A n \in Shown : n \in Nat
    BY ShownFinite
  <1>. QED BY <1>1, <1>2, <1>3 DEF Shown

\* Place numbers the shown slots from 0 to 11.
LEMMA PlaceIsNumber ==
  /\ \A n \in Shown : Place(n) \in Wires
  /\ \A n, m \in Shown : Place(n) = Place(m) => n = m
  /\ \A wire \in Wires : \E n \in Shown : Place(n) = wire
  <1>. DEFINE slot == [n \in Shown |-> Slots[n]]
              place == [n \in Shown |-> Place(n)]
              below(n) == {m \in Shown : m < n}
  <1>1. IsFiniteSet(Storage) /\ Cardinality(Storage) = 12
    <2>1. \A a, b \in Int : /\ IsFiniteSet(a..b)
                             /\ Cardinality(a..b) = IF a > b THEN 0 ELSE b - a + 1
      BY FS_Interval
    <2>2. 0 \in Int /\ 11 \in Int
      OBVIOUS
    <2>3. IsFiniteSet(0..11) /\ Cardinality(0..11) = IF 0 > 11 THEN 0 ELSE 11 - 0 + 1
      BY <2>1, <2>2, Zenon
    <2>. QED BY <2>3 DEF Storage
  <1>2. IsFiniteSet(Wires) /\ Cardinality(Wires) = 12
    <2>1. \A a, b \in Int : /\ IsFiniteSet(a..b)
                             /\ Cardinality(a..b) = IF a > b THEN 0 ELSE b - a + 1
      BY FS_Interval
    <2>2. 0 \in Int /\ 11 \in Int
      OBVIOUS
    <2>3. IsFiniteSet(0..11) /\ Cardinality(0..11) = IF 0 > 11 THEN 0 ELSE 11 - 0 + 1
      BY <2>1, <2>2, Zenon
    <2>. QED BY <2>3 DEF Wires
  <1>3. slot \in Injection(Shown, Storage) /\ slot \in Surjection(Shown, Storage)
    BY ShownOnce DEF Injection, IsInjective, Surjection
  <1>4. Cardinality(Shown) = 12
    <2>. HIDE DEF slot
    <2>. QED BY <1>1, <1>3, FS_Injection
  <1>5. /\ \A n \in Shown : n \in Nat
        /\ \A n \in Shown : Place(n) = Cardinality(below(n))
    BY ShownFinite DEF Place
  <1>6. ASSUME NEW n \in Shown PROVE Place(n) \in Wires
    <2>1. below(n) \subseteq Shown /\ below(n) # Shown
      BY <1>5
    <2>. HIDE DEF below
    <2>2. Cardinality(below(n)) \in Nat /\ Cardinality(below(n)) < 12
      BY <1>4, <2>1, ShownFinite, FS_Subset, FS_CardinalityType
    <2>. QED BY <1>5, <2>2 DEF Wires
  <1>7. ASSUME NEW n \in Shown, NEW m \in Shown, n < m PROVE Place(n) # Place(m)
    <2>1. below(n) \subseteq below(m) /\ below(m) \subseteq Shown /\ n \in below(m)
      BY <1>5, <1>7
    <2>2. n \notin below(n)
      BY <1>5
    <2>. HIDE DEF below
    <2>3. IsFiniteSet(below(m))
      BY <2>1, ShownFinite, FS_Subset
    <2>4. Cardinality(below(n)) # Cardinality(below(m))
      BY <2>1, <2>2, <2>3, FS_Subset
    <2>. QED BY <1>5, <2>4
  <1>8. \A n, m \in Shown : Place(n) = Place(m) => n = m
    BY <1>5, <1>7
  <1>9. place \in Injection(Shown, Wires)
    BY <1>6, <1>8 DEF Injection, IsInjective
  <1>10. place \in Surjection(Shown, Wires)
    <2>. HIDE DEF place
    <2>. QED BY <1>2, <1>4, <1>9, FS_Injection
  <1>. QED BY <1>6, <1>8, <1>10 DEF Surjection

\* The menu is a permutation: every setting is at exactly one entry of it.
LEMMA MenuPermutes ==
  /\ \A wire \in Wires : menu_to_storage(wire) \in Storage
  /\ \A v, w \in Wires : menu_to_storage(v) = menu_to_storage(w) => v = w
  /\ \A s \in Storage : \E wire \in Wires : menu_to_storage(wire) = s
  <1>. DEFINE at(w) == CHOOSE n \in Shown : Place(n) = w
  <1>1. \A wire \in Wires : menu_to_storage(wire) = Slots[at(wire)]
    BY DEF menu_to_storage, UDS_ComputeMenuOrder
  <1>2. \A wire \in Wires : at(wire) \in Shown /\ Place(at(wire)) = wire
    BY PlaceIsNumber
  <1>3. \A n \in Shown : at(Place(n)) = n
    BY PlaceIsNumber
  <1>. HIDE DEF at
  <1>4. \A s \in Storage : \E wire \in Wires : menu_to_storage(wire) = s
    BY <1>1, <1>3, ShownOnce, PlaceIsNumber
  <1>. QED BY <1>1, <1>2, <1>4, ShownOnce

-----------------------------------------------------------------------------
(* The values a client reads.                                              *)

\* What a client reads depends on the menu entry's own setting alone.
LEMMA ReadsOwn ==
  ASSUME NEW f, NEW g, NEW wire \in Wires,
         menu_to_storage(wire) # Fixed => f[menu_to_storage(wire)] = g[menu_to_storage(wire)]
  PROVE  UDS_GetSettingValue(f, wire) = UDS_GetSettingValue(g, wire)
  BY DEF UDS_GetSettingValue, Fixed, Gains

\* The stored keys partition the settings.
LEMMA KeysPartition ==
  /\ \A s \in Fields : setting_index_to_field(s) \in Keys /\ s \in setting_index_to_field(s)
  /\ \A s \in Fields : setting_index_to_field(s) \subseteq Fields
  /\ \A k \in Keys : \A s \in k : s \in Fields /\ setting_index_to_field(s) = k
  BY DEF setting_index_to_field, Keys, Fields, Storage, Fixed, CellBcst

\* A written value reads back as it was written.
LEMMA WrittenReads ==
  ASSUME NEW cfg, NEW wire \in Wires, NEW value \in Nat,
         Accepts(menu_to_storage(wire), value), DOMAIN live = Fields,
         cfg[menu_to_storage(wire)] = Edited(menu_to_storage(wire), value)[menu_to_storage(wire)]
  PROVE  Same(wire, UDS_GetSettingValue(cfg, wire), value)
  <1>. DEFINE s == menu_to_storage(wire)
  <1>1. s \in Fields /\ s # Fixed /\ s \in Storage
    BY MenuPermutes DEF Accepts, Fields
  <1>2. cfg[s] = IF s \in Gains THEN GainOf(value) ELSE value
    BY <1>1 DEF Edited, With
  <1>3. value \in 0 .. Max[s]
    BY <1>1, SettingsConstants DEF Accepts, SettingsConstants
  <1>4. CASE s \in Gains
    <2>1. pid_gain_valid(GainOf(value))
      <3>1. Edited(s, value)[s] = GainOf(value)
        BY <1>1, <1>4 DEF Edited, With
      <3>2. runtime_settings_validate(Edited(s, value))
        BY DEF Accepts
      <3>. QED BY <1>4, <3>1, <3>2 DEF runtime_settings_validate
    <2>2. Near(WireOf(GainOf(value)), value)
      BY <1>3, <1>4, <2>1, GainsRoundTrip
    <2>3. UDS_GetSettingValue(cfg, wire) = WireOf(GainOf(value))
      BY <1>1, <1>2, <1>4 DEF UDS_GetSettingValue
    <2>. QED BY <1>4, <2>2, <2>3 DEF Same
  <1>5. CASE s \notin Gains
    BY <1>1, <1>2, <1>5 DEF UDS_GetSettingValue, Same
  <1>. QED BY <1>4, <1>5

-----------------------------------------------------------------------------
(* The invariant.                                                          *)

LiveInv == DOMAIN live = Fields /\ runtime_settings_validate(live)

\* Before the settings are loaded nobody works on them.
LoadedInv ==
  ~loaded => rx = Idle /\ ~tune.busy /\ \A wire \in Wires : told[wire] = Unset

HistoryInv == DOMAIN told = Wires /\ DOMAIN kept = Wires

ToldInv ==
  \A wire \in Wires : told[wire] # Unset => Same(wire, UDS_GetSettingValue(live, wire), told[wire])

\* What autotune does not stage, and no client has edited since it took its copy,
\* is in the copy as it is live.
TuneInv ==
  /\ DOMAIN tune = {"busy", "copy", "missed"}
  /\ tune.busy =>
       /\ DOMAIN tune.copy = Fields
       /\ \A s \in Fields \ (Gains \cup tune.missed) : tune.copy[s] = live[s]

\* A save that waits for the flash will write what the client asked for: it has
\* its own copy of the value, or the live settings still hold it.
RxInv ==
  /\ DOMAIN rx = {"wire", "value", "key", "bytes", "overtaken"}
  /\ rx # Idle =>
       LET s == menu_to_storage(rx.wire) IN
       /\ rx.wire \in Wires /\ s # Fixed /\ rx.key = setting_index_to_field(s)
       /\ ~rx.overtaken => Same(rx.wire, UDS_GetSettingValue(live, rx.wire), rx.value)
       /\ rx.bytes # << >> =>
            /\ rx.key = {s} /\ s \notin ByAddress
            /\ rx.bytes[1][s] = rx.value /\ rx.value \in Valid[s]

\* The cells' flags, which are loaded without a check, are valid.
StoreInv ==
  /\ DOMAIN store = Keys
  /\ store[CellBcst] # << >> => \A s \in CellBcst : store[CellBcst][1][s] \in Valid[s]

\* What was answered as stored is in the keys, shown or not.
KeptInv ==
  \A wire \in Wires : kept[wire] # Unset =>
    Same(wire, UDS_GetSettingValue(Gathered(Keys), wire), kept[wire])

SettingsInv ==
  LiveInv /\ LoadedInv /\ HistoryInv /\ ToldInv /\ TuneInv /\ RxInv /\ StoreInv /\ KeptInv

-----------------------------------------------------------------------------
(* The steps.                                                              *)

LEMMA AtRest ==
  /\ DOMAIN Idle = {"wire", "value", "key", "bytes", "overtaken"}
  /\ DOMAIN NotTuning = {"busy", "copy", "missed"} /\ ~NotTuning.busy
  BY DEF Idle, NotTuning

LEMMA InvStarts == SettingsInit => SettingsInv
  <1>. SUFFICES ASSUME SettingsInit PROVE SettingsInv
    OBVIOUS
  <1>. USE DEF SettingsInit
  <1>1. LiveInv
    BY SettingsConstants, WhatIsThere DEF LiveInv, SettingsConstants
  <1>2. LoadedInv /\ HistoryInv /\ ToldInv /\ KeptInv
    BY DEF LoadedInv, HistoryInv, ToldInv, KeptInv, NotTuning
  <1>3. TuneInv /\ RxInv
    BY AtRest DEF TuneInv, RxInv
  <1>4. StoreInv
    BY WhatIsThere DEF StoreInv
  <1>. QED BY <1>1, <1>2, <1>3, <1>4 DEF SettingsInv

\* What is loaded is valid: the settings of the keys that can be read, or the defaults.
LEMMA LoadsValid ==
  ASSUME NEW readable
  PROVE  runtime_settings_validate(FromStore(readable)) /\ DOMAIN FromStore(readable) = Fields
  <1>1. DOMAIN Gathered(readable) = Fields
    BY DEF Gathered
  <1>2. runtime_settings_validate(Default) /\ DOMAIN Default = Fields
    BY WhatIsThere, SettingsConstants DEF SettingsConstants
  <1>. QED BY <1>1, <1>2 DEF FromStore

\* The settings in the keys are valid one by one, so none is thrown away for the
\* sake of another, unless it is for the depth flag's.
LEMMA FromStoreIs ==
  ASSUME StoreInv, DepthFits
  PROVE  FromStore(Keys) = Gathered(Keys)
  <1>. DEFINE cfg == Gathered(Keys)
  <1>1. ASSUME NEW s \in Fields
        PROVE  IF s \in Gains THEN pid_gain_valid(cfg[s]) ELSE cfg[s] \in Valid[s]
    <2>. DEFINE k == setting_index_to_field(s)
    <2>1. k \in Keys /\ s \in k
      BY KeysPartition
    <2>2. IF s \in Gains THEN pid_gain_valid(Default[s]) ELSE Default[s] \in Valid[s]
      BY WhatIsThere DEF runtime_settings_validate
    <2>3. cfg[s] = IF k \in Keys /\ store[k] # << >> /\ Loads(s, store[k][1][s])
                   THEN store[k][1][s] ELSE Default[s]
      BY DEF Gathered
    <2>4. CASE store[k] # << >> /\ Loads(s, store[k][1][s])
      <3>. DEFINE v == store[k][1][s]
      <3>1. s \in CellBcst => v \in Valid[s]
        BY <2>4 DEF StoreInv, setting_index_to_field
      <3>2. s = Depth => v \in Valid[s]
        <4>1. s = Depth => k = {Depth}
          BY DEF setting_index_to_field, Depth, CellBcst
        <4>. QED BY <2>4, <4>1 DEF DepthFits
      <3>3. IF s \in Gains THEN pid_gain_valid(v)
            ELSE (s \in CellBcst \cup {Depth} \/ v \in Valid[s])
        <4>1. Loads(s, v)
          BY <2>4
        <4>2. s \in Gains => s \notin CellBcst \cup {Depth}
          BY DEF Gains, CellBcst, Depth
        <4>. HIDE DEF v
        <4>. QED BY <4>1, <4>2, Zenon DEF Loads
      <3>4. cfg[s] = v
        BY <2>1, <2>3, <2>4
      <3>. HIDE DEF v, cfg
      <3>. QED BY <3>1, <3>2, <3>3, <3>4
    <2>5. CASE ~(store[k] # << >> /\ Loads(s, store[k][1][s]))
      BY <2>2, <2>3, <2>5
    <2>. QED BY <2>4, <2>5
  <1>2. Gains \subseteq Fields
    BY DEF Gains, Fields, Storage, Fixed
  <1>3. runtime_settings_validate(cfg)
    <2>. HIDE DEF cfg
    <2>. QED BY <1>1, <1>2 DEF runtime_settings_validate
  <1>. QED BY <1>3 DEF FromStore

\* Main's load.
LEMMA LoadKeeps == SettingsInv /\ runtime_settings_load => SettingsInv'
  <1>. SUFFICES ASSUME SettingsInv, runtime_settings_load PROVE SettingsInv'
    OBVIOUS
  <1>. USE DEF SettingsInv, runtime_settings_load
  <1>1. PICK readable \in {Keys, {}, { {s} : s \in 1 .. 3 }} : live' = FromStore(readable)
    OBVIOUS
  <1>3. LiveInv'
    BY <1>1, LoadsValid DEF LiveInv
  <1>4. LoadedInv' /\ HistoryInv' /\ ToldInv' /\ TuneInv' /\ RxInv'
    BY DEF LoadedInv, HistoryInv, ToldInv, TuneInv, RxInv
  <1>5. StoreInv' /\ KeptInv'
    BY DEF StoreInv, KeptInv, Gathered
  <1>. QED BY <1>3, <1>4, <1>5

\* An edit changes what one menu entry reads, to the value written.
LEMMA EditChangesOne ==
  ASSUME SettingsInv, NEW wire \in Wires, NEW value \in Nat, UDS_SetSettingValue(wire, value)
  PROVE  /\ LiveInv' /\ TuneInv'
         /\ Same(wire, UDS_GetSettingValue(live', wire), value)
         /\ \A w \in Wires \ {wire} : UDS_GetSettingValue(live', w) = UDS_GetSettingValue(live, w)
  <1>. DEFINE s == menu_to_storage(wire)
  <1>. USE DEF SettingsInv
  <1>1. /\ Accepts(s, value) /\ live' = Edited(s, value) /\ s \in Fields /\ s # Fixed
        /\ tune' = IF tune.busy THEN [tune EXCEPT !.missed = @ \cup {s}] ELSE tune
    BY MenuPermutes DEF UDS_SetSettingValue, Accepts, Fields
  <1>2. /\ DOMAIN live = Fields /\ DOMAIN live' = Fields
        /\ \A t \in Fields \ {s} : live'[t] = live[t]
    BY <1>1 DEF LiveInv, Edited, With
  <1>3. LiveInv'
    BY <1>1, <1>2 DEF LiveInv, Accepts
  <1>4. TuneInv'
    BY <1>1, <1>2 DEF TuneInv
  <1>5. Same(wire, UDS_GetSettingValue(live', wire), value)
    BY <1>1, <1>2, WrittenReads
  <1>6. ASSUME NEW w \in Wires \ {wire}
        PROVE  UDS_GetSettingValue(live', w) = UDS_GetSettingValue(live, w)
    <2>1. menu_to_storage(w) # s /\ menu_to_storage(w) \in Storage
      BY MenuPermutes
    <2>2. menu_to_storage(w) # Fixed => live'[menu_to_storage(w)] = live[menu_to_storage(w)]
      BY <1>2, <2>1 DEF Fields
    <2>. QED BY <2>2, ReadsOwn
  <1>. QED BY <1>3, <1>4, <1>5, <1>6

LEMMA WriteKeeps ==
  ASSUME SettingsInv, NEW wire \in Wires, NEW value \in Nat,
         writeSettingValueDID_handler(wire, value)
  PROVE  SettingsInv'
  <1>. USE DEF SettingsInv, writeSettingValueDID_handler
  <1>1. /\ LiveInv' /\ TuneInv'
        /\ Same(wire, UDS_GetSettingValue(live', wire), value)
        /\ \A w \in Wires \ {wire} : UDS_GetSettingValue(live', w) = UDS_GetSettingValue(live, w)
    BY EditChangesOne
  <1>2. told' = [told EXCEPT ![wire] = value] /\ loaded /\ rx = Idle /\ rx' = rx /\ loaded' = loaded
    BY DEF Asks
  <1>3. LoadedInv' /\ HistoryInv' /\ RxInv'
    BY <1>2 DEF LoadedInv, HistoryInv, RxInv
  <1>4. ToldInv'
    <2>1. ASSUME NEW w \in Wires, told'[w] # Unset
          PROVE  Same(w, UDS_GetSettingValue(live', w), told'[w])
      <3>1. told'[w] = IF w = wire THEN value ELSE told[w]
        BY <1>2 DEF HistoryInv
      <3>2. CASE w = wire
        BY <1>1, <3>1, <3>2
      <3>3. CASE w # wire
        <4>1. Same(w, UDS_GetSettingValue(live, w), told[w])
          BY <2>1, <3>1, <3>3 DEF ToldInv
        <4>. QED BY <1>1, <3>1, <3>3, <4>1
      <3>. QED BY <3>2, <3>3
    <2>. QED BY <2>1 DEF ToldInv
  <1>5. StoreInv' /\ KeptInv'
    BY DEF StoreInv, KeptInv, Gathered
  <1>. QED BY <1>1, <1>3, <1>4, <1>5

LEMMA SaveAskedKeeps ==
  ASSUME SettingsInv, NEW wire \in Wires, NEW value \in Nat, UDS_SaveSettingValue(wire, value)
  PROVE  SettingsInv'
  <1>. DEFINE s == menu_to_storage(wire)
              k == SavedKey(wire)
  <1>. USE DEF SettingsInv, UDS_SaveSettingValue
  <1>1. /\ LiveInv' /\ TuneInv'
        /\ Same(wire, UDS_GetSettingValue(live', wire), value)
        /\ \A w \in Wires \ {wire} : UDS_GetSettingValue(live', w) = UDS_GetSettingValue(live, w)
    BY EditChangesOne
  <1>2. /\ told' = [told EXCEPT ![wire] = Unset] /\ loaded /\ loaded' = loaded
        /\ rx'.wire = wire /\ rx'.value = value /\ rx'.key = k /\ rx'.overtaken = FALSE
        /\ rx'.bytes = IF k \subseteq ByAddress THEN << >>
                       ELSE << [t \in k |-> Edited(s, value)[t]] >>
    BY DEF Asks
  <1>3. LoadedInv' /\ HistoryInv'
    BY <1>2 DEF LoadedInv, HistoryInv
  <1>4. ToldInv'
    <2>1. ASSUME NEW w \in Wires, told'[w] # Unset
          PROVE  Same(w, UDS_GetSettingValue(live', w), told'[w])
      <3>1. w # wire /\ told'[w] = told[w]
        BY <1>2, <2>1 DEF HistoryInv
      <3>2. Same(w, UDS_GetSettingValue(live, w), told[w])
        BY <2>1, <3>1 DEF ToldInv
      <3>. QED BY <1>1, <3>1, <3>2
    <2>. QED BY <2>1 DEF ToldInv
  <1>5. RxInv'
    <2>1. Accepts(s, value) /\ s \in Fields /\ s # Fixed /\ k = setting_index_to_field(s)
      BY MenuPermutes DEF UDS_SetSettingValue, Accepts, Fields, SavedKey
    <2>2. ASSUME rx'.bytes # << >>
          PROVE  k = {s} /\ s \notin ByAddress /\ rx'.bytes[1][s] = value /\ value \in Valid[s]
      <3>1. ~(k \subseteq ByAddress) /\ rx'.bytes[1] = [t \in k |-> Edited(s, value)[t]]
        BY <1>2, <2>2
      <3>2. k = {s} /\ s \notin ByAddress
        BY <2>1, <3>1 DEF setting_index_to_field, ByAddress
      <3>3. Edited(s, value)[s] = value
        BY <2>1, <3>2 DEF Edited, With, LiveInv, ByAddress
      <3>4. value \in Valid[s]
        BY <2>1, <3>2, <3>3 DEF Accepts, runtime_settings_validate, ByAddress
      <3>. QED BY <3>1, <3>2, <3>3, <3>4
    <2>. QED BY <1>1, <1>2, <2>1, <2>2 DEF RxInv
  <1>6. StoreInv' /\ KeptInv'
    BY DEF StoreInv, KeptInv, Gathered
  <1>. QED BY <1>1, <1>3, <1>4, <1>5, <1>6

\* After a save the key's settings load as they are live, or as the saved copy has
\* them; every other key loads as before.
LEMMA SavedLoads ==
  ASSUME SettingsInv, runtime_settings_save_field
  PROVE  /\ StoreInv'
         /\ \A s \in Fields \ rx.key : Gathered(Keys)'[s] = Gathered(Keys)[s]
         /\ \A s \in rx.key : Gathered(Keys)'[s] =
              IF rx.bytes # << >> THEN rx.bytes[1][s] ELSE live[s]
  <1>. USE DEF SettingsInv, runtime_settings_save_field
  <1>. DEFINE menu == menu_to_storage(rx.wire)
              written == IF rx.bytes # << >> THEN rx.bytes ELSE << [s \in rx.key |-> live[s]] >>
              value(s) == IF rx.bytes # << >> THEN rx.bytes[1][s] ELSE live[s]
  <1>1. /\ menu \in Fields /\ rx.key = setting_index_to_field(menu) /\ rx.key \in Keys
        /\ rx.key \subseteq Fields
    BY MenuPermutes, KeysPartition DEF RxInv, Fields
  <1>2. store' = [store EXCEPT ![rx.key] = written] /\ DOMAIN store = Keys
    BY DEF StoreInv
  <1>3. written # << >> /\ \A s \in rx.key : written[1][s] = value(s)
    OBVIOUS
  <1>4. ASSUME NEW s \in rx.key
        PROVE  IF s \in Gains THEN pid_gain_valid(value(s)) ELSE value(s) \in Valid[s]
    <2>1. CASE rx.bytes # << >>
      <3>1. s = menu /\ menu \notin ByAddress /\ rx.bytes[1][menu] \in Valid[menu]
        BY <2>1 DEF RxInv
      <3>. QED BY <2>1, <3>1 DEF ByAddress
    <2>2. CASE rx.bytes = << >>
      BY <1>1, <2>2 DEF LiveInv, runtime_settings_validate
    <2>. QED BY <2>1, <2>2
  <1>. HIDE DEF written, value, menu
  <1>5. store'[rx.key] = written /\ \A k \in Keys : k # rx.key => store'[k] = store[k]
    BY <1>1, <1>2
  <1>6. StoreInv'
    <2>1. DOMAIN store' = Keys
      BY <1>2
    <2>2. ASSUME store'[CellBcst] # << >>, NEW s \in CellBcst
          PROVE  store'[CellBcst][1][s] \in Valid[s]
      <3>0. CellBcst \in Keys
        BY DEF Keys, setting_index_to_field, CellBcst, Fields, Storage, Fixed
      <3>1. CASE CellBcst = rx.key
        <4>1. store'[CellBcst][1][s] = value(s)
          BY <1>3, <1>5, <3>1
        <4>2. s \notin Gains
          BY DEF CellBcst, Gains
        <4>. QED BY <1>4, <3>1, <4>1, <4>2
      <3>2. CASE CellBcst # rx.key
        BY <1>5, <2>2, <3>0, <3>2 DEF StoreInv
      <3>. QED BY <3>1, <3>2
    <2>. QED BY <2>1, <2>2 DEF StoreInv
  <1>8. ASSUME NEW s \in Fields \ rx.key
        PROVE  Gathered(Keys)'[s] = Gathered(Keys)[s]
    <2>1. setting_index_to_field(s) \in Keys /\ setting_index_to_field(s) # rx.key
      BY KeysPartition
    <2>2. store'[setting_index_to_field(s)] = store[setting_index_to_field(s)]
      BY <1>5, <2>1
    <2>. QED BY <2>2 DEF Gathered
  <1>9. ASSUME NEW s \in rx.key PROVE Gathered(Keys)'[s] = value(s)
    <2>1. s \in Fields /\ setting_index_to_field(s) = rx.key
      BY <1>1, KeysPartition
    <2>2. store'[rx.key] # << >> /\ store'[rx.key][1][s] = value(s)
      BY <1>3, <1>5
    <2>3. Loads(s, value(s))
      BY <1>4, Zenon DEF Loads
    <2>. QED BY <1>1, <2>1, <2>2, <2>3 DEF Gathered
  <1>. QED BY <1>6, <1>8, <1>9 DEF value

LEMMA SaveKeeps ==
  ASSUME SettingsInv, runtime_settings_save_field
  PROVE  SettingsInv'
  <1>. USE DEF SettingsInv, runtime_settings_save_field
  <1>. DEFINE wire == rx.wire
              s == menu_to_storage(wire)
              after == Gathered(Keys)'
  <1>1. /\ wire \in Wires /\ s # Fixed /\ s \in Fields /\ rx.key = setting_index_to_field(s)
        /\ s \in rx.key /\ loaded /\ loaded' = loaded /\ live' = live
    BY MenuPermutes, KeysPartition DEF RxInv, LoadedInv, Fields
  <1>2. ~rx.overtaken => Same(wire, UDS_GetSettingValue(live, wire), rx.value)
    BY DEF RxInv
  <1>3. LiveInv' /\ TuneInv' /\ LoadedInv' /\ HistoryInv' /\ RxInv'
    BY <1>1, AtRest DEF LiveInv, TuneInv, LoadedInv, HistoryInv, RxInv
  <1>4. ToldInv'
    <2>1. ASSUME NEW w \in Wires, told'[w] # Unset
          PROVE  Same(w, UDS_GetSettingValue(live, w), told'[w])
      <3>1. told'[w] = IF w = wire THEN IF rx.overtaken THEN Unset ELSE rx.value ELSE told[w]
        BY DEF HistoryInv
      <3>. QED BY <1>2, <2>1, <3>1 DEF ToldInv
    <2>. QED BY <1>1, <2>1 DEF ToldInv
  <1>5. KeptInv'
    <2>1. ASSUME NEW w \in Wires, kept'[w] # Unset
          PROVE  Same(w, UDS_GetSettingValue(after, w), kept'[w])
      <3>. DEFINE t == menu_to_storage(w)
      <3>1. t \in Storage
        BY MenuPermutes
      <3>2. CASE t \notin rx.key
        <4>1. kept'[w] = kept[w]
          BY <1>1, <3>2
        <4>2. UDS_GetSettingValue(after, w) = UDS_GetSettingValue(Gathered(Keys), w)
          BY <3>1, <3>2, SavedLoads, ReadsOwn DEF Fields
        <4>3. Same(w, UDS_GetSettingValue(Gathered(Keys), w), kept[w])
          BY <2>1, <4>1 DEF KeptInv
        <4>. QED BY <4>1, <4>2, <4>3
      <3>3. CASE t \in rx.key /\ w = wire
        <4>1. ~rx.overtaken /\ kept'[w] = rx.value
          BY <1>1, <2>1, <3>3
        <4>2. after[t] = IF rx.bytes # << >> THEN rx.bytes[1][t] ELSE live[t]
          BY <3>3, SavedLoads
        <4>3. CASE rx.bytes = << >>
          BY <1>2, <3>3, <4>1, <4>2, <4>3, ReadsOwn
        <4>4. CASE rx.bytes # << >>
          <5>1. t \notin ByAddress /\ t # Fixed /\ after[t] = rx.value
            BY <3>3, <4>2, <4>4 DEF RxInv
          <5>. QED BY <4>1, <5>1 DEF UDS_GetSettingValue, Same, ByAddress
        <4>. QED BY <4>3, <4>4
      <3>4. CASE t \in rx.key /\ w # wire
        <4>1. t # s
          BY <1>1, <3>4, MenuPermutes
        <4>2. t \in CellBcst /\ s \in CellBcst /\ rx.key = CellBcst
          BY <1>1, <3>4, <4>1 DEF setting_index_to_field
        <4>3. rx.bytes = << >>
          BY <1>1, <4>2 DEF RxInv, ByAddress
        <4>4. after[t] = live[t]
          BY <3>4, <4>3, SavedLoads
        <4>5. kept'[w] = UDS_GetSettingValue(live, w)
          BY <1>1, <2>1, <3>4
        <4>6. t \notin Gains
          BY <4>2 DEF CellBcst, Gains
        <4>. QED BY <4>4, <4>5, <4>6, ReadsOwn DEF Same
      <3>. QED BY <3>2, <3>3, <3>4
    <2>. QED BY <2>1 DEF KeptInv
  <1>. QED BY <1>3, <1>4, <1>5, SavedLoads

\* Steps that leave what a client can read alone.
LEMMA QuietKeeps ==
  ASSUME SettingsInv,
         SaveFails \/ StageCopies \/ \E r \in Requests : Refused(r[1], r[2])
  PROVE  SettingsInv'
  <1>. USE DEF SettingsInv
  <1>1. UNCHANGED <<live, store, loaded, told, kept>>
    BY DEF SaveFails, StageCopies, Refused
  <1>2. LiveInv' /\ HistoryInv' /\ ToldInv' /\ StoreInv' /\ KeptInv'
    BY <1>1 DEF LiveInv, HistoryInv, ToldInv, StoreInv, KeptInv, Gathered
  <1>3. CASE SaveFails
    BY <1>1, <1>2, <1>3, AtRest DEF SaveFails, LoadedInv, TuneInv, RxInv
  <1>4. CASE StageCopies
    BY <1>1, <1>2, <1>4 DEF StageCopies, LoadedInv, TuneInv, RxInv
  <1>5. CASE \E r \in Requests : Refused(r[1], r[2])
    BY <1>1, <1>2, <1>5 DEF Refused, LoadedInv, TuneInv, RxInv
  <1>. QED BY <1>3, <1>4, <1>5

\* Autotune writes its copy back over whatever was done meanwhile.
LEMMA StageKeeps == SettingsInv /\ StageWrites => SettingsInv'
  <1>. SUFFICES ASSUME SettingsInv, StageWrites PROVE SettingsInv'
    OBVIOUS
  <1>. USE DEF SettingsInv, StageWrites
  <1>1. loaded /\ DOMAIN tune.copy = Fields
    BY DEF LoadedInv, TuneInv
  <1>2. LiveInv' /\ HistoryInv' /\ TuneInv' /\ LoadedInv'
    BY <1>1, AtRest DEF LiveInv, HistoryInv, TuneInv, LoadedInv
  <1>3. ToldInv'
    <2>1. ASSUME NEW w \in Wires, told'[w] # Unset
          PROVE  Same(w, UDS_GetSettingValue(live', w), told'[w])
      <3>1. menu_to_storage(w) \notin Gains \cup tune.missed /\ told'[w] = told[w]
        BY <2>1
      <3>2. menu_to_storage(w) \in Storage
        BY MenuPermutes
      <3>3. menu_to_storage(w) # Fixed => live'[menu_to_storage(w)] = live[menu_to_storage(w)]
        BY <3>1, <3>2 DEF TuneInv, Fields
      <3>4. UDS_GetSettingValue(live', w) = UDS_GetSettingValue(live, w)
        BY <3>3, ReadsOwn
      <3>. QED BY <2>1, <3>1, <3>4 DEF ToldInv
    <2>. QED BY <2>1 DEF ToldInv
  <1>4. RxInv'
    BY DEF RxInv
  <1>5. StoreInv' /\ KeptInv'
    BY DEF StoreInv, KeptInv, Gathered
  <1>. QED BY <1>2, <1>3, <1>4, <1>5

LEMMA CutKeeps == SettingsInv /\ PowerCut => SettingsInv'
  <1>. SUFFICES ASSUME SettingsInv, PowerCut PROVE SettingsInv'
    OBVIOUS
  <1>. USE DEF SettingsInv, PowerCut
  <1>1. LiveInv'
    BY SettingsConstants, WhatIsThere DEF LiveInv, SettingsConstants
  <1>2. LoadedInv' /\ HistoryInv' /\ ToldInv' /\ TuneInv' /\ RxInv'
    BY AtRest DEF LoadedInv, HistoryInv, ToldInv, TuneInv, RxInv
  <1>3. StoreInv' /\ KeptInv'
    BY DEF StoreInv, KeptInv, Gathered
  <1>. QED BY <1>1, <1>2, <1>3

LEMMA SettingsInvKept == SettingsInv /\ [SettingsNext]_vars => SettingsInv'
  <1>. SUFFICES ASSUME SettingsInv, [SettingsNext]_vars PROVE SettingsInv'
    OBVIOUS
  <1>1. CASE UNCHANGED vars
    BY <1>1 DEF vars, SettingsInv, LiveInv, LoadedInv, HistoryInv, ToldInv, TuneInv, RxInv,
                StoreInv, KeptInv, Gathered
  <1>2. CASE SettingsNext
    <2>1. ASSUME NEW r \in Requests,
                 writeSettingValueDID_handler(r[1], r[2]) \/ UDS_SaveSettingValue(r[1], r[2])
          PROVE  SettingsInv'
      <3>1. r[1] \in Wires /\ r[2] \in Nat
        BY SettingsConstants DEF SettingsConstants
      <3>. QED BY <2>1, <3>1, WriteKeeps, SaveAskedKeeps
    <2>. QED BY <1>2, <2>1, LoadKeeps, SaveKeeps, QuietKeeps, StageKeeps, CutKeeps DEF SettingsNext
  <1>. QED BY <1>1, <1>2

\* Every variable keeps its type.
LEMMA SettingsTyped ==
  /\ SettingsInit => SettingsTypeOK
  /\ SettingsInv /\ SettingsInv' /\ SettingsTypeOK /\ [SettingsNext]_vars => SettingsTypeOK'
  <1>1. ASSUME SettingsInit PROVE SettingsTypeOK
    <2>1. DOMAIN live = Fields /\ DOMAIN store = Keys
      BY <1>1, InvStarts DEF SettingsInv, LiveInv, StoreInv
    <2>2. loaded = FALSE /\ tune.busy = FALSE /\ tune.missed = {} /\ rx.wire = Unset
      BY <1>1 DEF SettingsInit, NotTuning, Idle
    <2>3. asked \in 0 .. MaxAsked /\ troubles \in 0 .. MaxTroubles
      BY <1>1, SettingsConstants DEF SettingsInit, SettingsConstants
    <2>. QED BY <2>1, <2>2, <2>3 DEF SettingsTypeOK
  <1>2. ASSUME SettingsInv, SettingsInv', SettingsTypeOK, [SettingsNext]_vars
        PROVE  SettingsTypeOK'
    <2>. USE <1>2 DEF SettingsTypeOK
    <2>1. DOMAIN live' = Fields /\ DOMAIN store' = Keys /\ MaxAsked \in Nat /\ MaxTroubles \in Nat
      BY SettingsConstants DEF SettingsInv, LiveInv, StoreInv, SettingsConstants
    <2>2. CASE UNCHANGED vars
      BY <2>1, <2>2 DEF vars
    <2>3. CASE runtime_settings_load
      BY <2>1, <2>3 DEF runtime_settings_load, Trouble
    <2>4. CASE runtime_settings_save_field \/ SaveFails
      BY <2>1, <2>4 DEF runtime_settings_save_field, SaveFails, Trouble, Idle
    <2>5. CASE StageCopies
      BY <2>1, <2>5 DEF StageCopies
    <2>6. CASE StageWrites
      <3>1. rx'.wire = rx.wire
        BY <1>2, <2>6 DEF StageWrites, SettingsInv, RxInv
      <3>. QED BY <2>1, <2>6, <3>1 DEF StageWrites, NotTuning
    <2>7. CASE PowerCut
      <3>1. loaded' = FALSE /\ tune'.busy = FALSE /\ tune'.missed = {} /\ rx'.wire = Unset
        BY <2>7 DEF PowerCut, NotTuning, Idle
      <3>2. asked' \in 0 .. MaxAsked /\ troubles' \in 0 .. MaxTroubles
        BY <2>1, <2>7 DEF PowerCut, Trouble
      <3>. QED BY <2>1, <3>1, <3>2
    <2>8. ASSUME NEW r \in Requests,
                 \/ writeSettingValueDID_handler(r[1], r[2]) \/ UDS_SaveSettingValue(r[1], r[2])
                 \/ Refused(r[1], r[2])
          PROVE  SettingsTypeOK'
      <3>1. r[1] \in Wires
        BY SettingsConstants DEF SettingsConstants
      <3>2. /\ loaded' = loaded /\ troubles' = troubles /\ asked' \in 0 .. MaxAsked
            /\ rx'.wire \in Wires \cup {Unset}
        BY <2>1, <2>8, <3>1
        DEF writeSettingValueDID_handler, UDS_SaveSettingValue, Refused, Asks
      <3>3. /\ tune'.busy = tune.busy
            /\ tune'.missed \subseteq tune.missed \cup {menu_to_storage(r[1])}
        <4>1. \/ tune' = tune
              \/ tune' = [tune EXCEPT !.missed = @ \cup {menu_to_storage(r[1])}]
          BY <2>8
          DEF writeSettingValueDID_handler, UDS_SaveSettingValue, Refused, UDS_SetSettingValue
        <4>2. DOMAIN tune = {"busy", "copy", "missed"}
          BY <1>2 DEF SettingsInv, TuneInv
        <4>. QED BY <4>1, <4>2
      <3>4. menu_to_storage(r[1]) # Fixed \/ tune' = tune
        BY <2>8
        DEF writeSettingValueDID_handler, UDS_SaveSettingValue, Refused, UDS_SetSettingValue,
            Accepts
      <3>5. tune'.missed \subseteq Fields
        BY <3>1, <3>3, <3>4, MenuPermutes DEF Fields
      <3>. QED BY <2>1, <3>2, <3>3, <3>5
    <2>. QED BY <2>2, <2>3, <2>4, <2>5, <2>6, <2>7, <2>8 DEF SettingsNext
  <1>. QED BY <1>1, <1>2

\* Menu entries, requests and troubles keep their ranges, whatever is asked
\* (UDS_SetSettingValue, runtime_settings_save_field).
THEOREM SettingsTypeCorrect == SettingsSpec => []SettingsTypeOK
  BY InvStarts, SettingsInvKept, SettingsTyped, PTL DEF SettingsSpec

\* An edit that was answered stands, at every entry of any menu and for any options,
\* defaults and earlier firmware, until something the property names replaces it
\* (UDS_SetSettingValue, runtime_settings_set_volatile).
THEOREM EditsStand == SettingsSpec => []EditStands
  <1>1. SettingsInv => EditStands
    BY DEF SettingsInv, ToldInv, EditStands
  <1>. QED BY <1>1, InvStarts, SettingsInvKept, PTL DEF SettingsSpec

\* A save that was answered survives failed saves, power cuts and unsaved edits, for
\* any menu, options, defaults and leftovers, unless a stored depth flag that this
\* build cannot act on makes it throw its settings away (UDS_SaveSettingValue,
\* runtime_settings_save_field, settings_set).
THEOREM SavesSurvive == SettingsSpec => []SavedSurvives
  <1>1. SettingsInv => SavedSurvives
    BY FromStoreIs DEF SettingsInv, KeptInv, SavedSurvives, StoredShows
  <1>. QED BY <1>1, InvStarts, SettingsInvKept, PTL DEF SettingsSpec
=============================================================================
