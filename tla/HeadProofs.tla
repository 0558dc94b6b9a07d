---------------------------- MODULE HeadProofs ----------------------------
(***************************************************************************)
(* Proofs about the head as a whole: how it goes to sleep, resets and keeps*)
(* its crashes, and how its firmware is replaced. The two parts are        *)
(* independent: no step of either mentions the state of the other.         *)
(***************************************************************************)
EXTENDS HeadLife, Maintenance, TLAPS

-----------------------------------------------------------------------------
(***************************************************************************)
(* Proofs about HeadLife, for every length of the abort window, number of  *)
(* quiet polls, depth of the history, set of threads and number of faults. *)
(*                                                                         *)
(* The shutdown argument is an induction over the polls of one window:     *)
(* ScanInv relates the three numbers scan_shutdown_abort_window carries to *)
(* the polls themselves. The crash argument follows one crash from noinit  *)
(* RAM to flash: NoinitInv says whose crash the slot holds at each stage   *)
(* of the boot.                                                            *)
(***************************************************************************)
Sds == [pc : {"idle", "scan", "abort", "drain", "down"}, req : BOOLEAN, polls : Seq(BOOLEAN),
        run : Nat, quiet : BOOLEAN]
Accs == [pc : {"top", "wait", "parked"}, down : BOOLEAN, peers : {"awake", "told", "off"}]
CrashRecords == [seq : Nat, id : Nat]

SdType == sd \in Sds
AccType == acc \in Accs
HistoryType ==
  /\ left \in Nat /\ seq \in Nat /\ owed \in Nat /\ crash \in [noinit : Nat, last : Nat]
  /\ store \in [next : Nat, reboots : Seq(Nat), crashes : Seq(CrashRecords)]

\* The last n polls were inactive, and the one before them, if any, was active.
EndsQuiet(p, n) ==
  /\ n <= Len(p)
  /\ \A j \in (Len(p) - n + 1)..Len(p) : ~p[j]
  /\ n < Len(p) => p[Len(p) - n]

\* The bus has not yet been quiet for the polls it takes.
NeverQuiet(p) == \A i \in Confirm..Len(p) : \E j \in (i - Confirm + 1)..i : p[j]

\* What the counters of the scan say about the polls so far.
ScanInv ==
  /\ sd.pc = "scan" =>
       /\ EndsQuiet(sd.polls, sd.run)
       /\ Len(sd.polls) <= Attempts
       /\ sd.quiet => WentAndStayedQuiet(sd.polls)
       /\ ~sd.quiet => sd.run < Confirm /\ NeverQuiet(sd.polls)
  /\ sd.pc \in {"drain", "down"} => Len(sd.polls) = Attempts /\ WentAndStayedQuiet(sd.polls)

\* The accessory thread parks for a shutdown that is decided, or for a refused boot.
ParkInv ==
  acc.down \/ acc.pc = "parked" => sd.pc \in {"drain", "down"} \/ stage = "refused"

\* No shutdown is under way during a boot, and the guard refuses a boot only when
\* the wake-up pin may have caused it.
GuardInv ==
  /\ DOMAIN backup = {"marker", "cause"}
  /\ stage # "run" => sd.pc = "idle"
  /\ stage = "refused" => backup.cause \cap {"wake", "pin_bor"} # {}

\* From main() on the head pulls the line, but for the length of a window.
LineInv ==
  stage \in {"reboots", "crashes", "ack", "run"} /\ sd.pc = "idle" => held # "released"

\* The noinit slot holds the newest crash or none; a boot carries a copy of it, and
\* clears it only with that crash in the stored history.
NoinitInv ==
  /\ crash.noinit # 0 => crash.noinit = owed
  /\ stage \in {"guard", "assert", "reboots", "crashes", "ack"} => crash.last = crash.noinit
  /\ stage = "ack" => \E i \in DOMAIN store.crashes : store.crashes[i].id = crash.last

-----------------------------------------------------------------------------
LEMMA Sizes == Attempts \in Nat \ {0} /\ Confirm \in Nat \ {0} /\ Depth \in Nat \ {0}
               /\ LastSeq \in Nat \ {0} /\ MaxFaults \in Nat
  BY LifeConstants

\* A poll makes the number of trailing quiet polls one more, or none.
LEMMA PollEndsQuiet ==
  ASSUME NEW p \in Seq(BOOLEAN), NEW n \in Nat, EndsQuiet(p, n), NEW active \in BOOLEAN
  PROVE  EndsQuiet(Append(p, active), IF active THEN 0 ELSE n + 1)
  <1>. DEFINE q == Append(p, active)
  <1>1. Len(q) = Len(p) + 1 /\ q[Len(p) + 1] = active /\ \A j \in 1..Len(p) : q[j] = p[j]
    OBVIOUS
  <1>2. Len(p) \in Nat
    OBVIOUS
  <1>. HIDE DEF q
  <1>3. CASE active
    BY <1>1, <1>2, <1>3 DEF EndsQuiet
  <1>4. CASE ~active
    BY <1>1, <1>2, <1>4 DEF EndsQuiet
  <1>. QED BY <1>3, <1>4 DEF q

\* One more inactive poll leaves a quiet bus quiet.
LEMMA StaysQuiet ==
  ASSUME NEW p \in Seq(BOOLEAN), WentAndStayedQuiet(p)
  PROVE  WentAndStayedQuiet(Append(p, FALSE))
  <1>. DEFINE q == Append(p, FALSE)
  <1>1. Len(q) = Len(p) + 1 /\ ~q[Len(p) + 1] /\ \A j \in 1..Len(p) : q[j] = p[j]
    OBVIOUS
  <1>2. Len(p) \in Nat /\ Confirm \in Nat \ {0}
    BY Sizes
  <1>. HIDE DEF q
  <1>3. PICK k \in Confirm..Len(p) :
          /\ \A j \in (k - Confirm + 1)..Len(p) : ~p[j]
          /\ \A i \in Confirm..(k - 1) : \E j \in (i - Confirm + 1)..i : p[j]
    BY DEF WentAndStayedQuiet
  <1>4. \A j \in (k - Confirm + 1)..Len(q) : ~q[j]
    BY <1>1, <1>2, <1>3
  <1>5. ASSUME NEW i \in Confirm..(k - 1)  PROVE \E j \in (i - Confirm + 1)..i : q[j]
    <2>1. PICK j \in (i - Confirm + 1)..i : p[j]
      BY <1>3
    <2>2. j \in 1..Len(p)
      BY <1>2, <1>3
    <2>. QED BY <1>1, <2>1, <2>2
  <1>6. k \in Confirm..Len(q)
    BY <1>1, <1>2, <1>3
  <1>7. WentAndStayedQuiet(q)
    BY <1>4, <1>5, <1>6 DEF WentAndStayedQuiet
  <1>. QED BY <1>7 DEF q

\* The poll that completes the quiet run is the first that does.
LEMMA GoesQuiet ==
  ASSUME NEW p \in Seq(BOOLEAN), NEW n \in Nat, EndsQuiet(p, n), NeverQuiet(p), n + 1 >= Confirm
  PROVE  WentAndStayedQuiet(Append(p, FALSE))
  <1>. DEFINE q == Append(p, FALSE)
  <1>1. Len(q) = Len(p) + 1 /\ ~q[Len(p) + 1] /\ \A j \in 1..Len(p) : q[j] = p[j]
    OBVIOUS
  <1>2. Len(p) \in Nat /\ Confirm \in Nat \ {0}
    BY Sizes
  <1>. HIDE DEF q
  <1>. DEFINE k == Len(p) + 1
  <1>3. k \in Confirm..Len(q)
    BY <1>1, <1>2 DEF EndsQuiet
  <1>4. \A j \in (k - Confirm + 1)..Len(q) : ~q[j]
    BY <1>1, <1>2 DEF EndsQuiet
  <1>5. \A i \in Confirm..(k - 1) : \E j \in (i - Confirm + 1)..i : q[j]
    BY <1>1, <1>2 DEF NeverQuiet
  <1>6. WentAndStayedQuiet(q)
    BY <1>3, <1>4, <1>5 DEF WentAndStayedQuiet
  <1>. QED BY <1>6 DEF q

\* Until then every window of polls has an active one.
LEMMA NotYetQuiet ==
  ASSUME NEW p \in Seq(BOOLEAN), NEW n \in Nat, EndsQuiet(p, n), NeverQuiet(p),
         NEW active \in BOOLEAN, ~active => n + 1 < Confirm
  PROVE  NeverQuiet(Append(p, active))
  <1>. DEFINE q == Append(p, active)
  <1>1. Len(q) = Len(p) + 1 /\ q[Len(p) + 1] = active /\ \A j \in 1..Len(p) : q[j] = p[j]
    OBVIOUS
  <1>2. Len(p) \in Nat /\ Confirm \in Nat \ {0}
    BY Sizes
  <1>. HIDE DEF q
  <1>3. ASSUME NEW i \in Confirm..Len(q)  PROVE \E j \in (i - Confirm + 1)..i : q[j]
    <2>1. CASE i <= Len(p)
      <3>1. PICK j \in (i - Confirm + 1)..i : p[j]
        BY <1>1, <1>2, <2>1 DEF NeverQuiet
      <3>2. j \in 1..Len(p)
        BY <1>2, <2>1
      <3>. QED BY <1>1, <3>1, <3>2
    <2>2. CASE i = Len(p) + 1 /\ active
      <3>1. i \in (i - Confirm + 1)..i
        BY <1>2, <2>2
      <3>2. q[i]
        BY Zenon, <1>1, <2>2
      <3>. QED BY <3>1, <3>2
    <2>3. CASE i = Len(p) + 1 /\ ~active
      <3>. DEFINE j == Len(p) - n
      <3>1. n < Len(p)
        BY <1>2, <2>3
      <3>2. j \in 1..Len(p) /\ j \in (i - Confirm + 1)..i /\ p[j]
        BY <1>2, <2>3, <3>1 DEF EndsQuiet
      <3>. QED BY <1>1, <3>2
    <2>. QED BY <1>1, <1>2, <2>1, <2>2, <2>3
  <1>4. NeverQuiet(q)
    BY <1>3 DEF NeverQuiet
  <1>. QED BY <1>4 DEF q

\* boot_history keeps the newest record, however short the history is.
LEMMA RecentKeepsNewest ==
  ASSUME NEW T, NEW s \in Seq(T), NEW x \in T
  PROVE  /\ Recent(Append(s, x)) \in Seq(T)
         /\ \E i \in DOMAIN Recent(Append(s, x)) : Recent(Append(s, x))[i] = x
  <1>. DEFINE q == Append(s, x)
  <1>1. /\ q \in Seq(T) /\ Len(q) = Len(s) + 1 /\ q[Len(q)] = x
        /\ Len(q) \in DOMAIN q /\ Len(s) \in Nat
    OBVIOUS
  <1>. HIDE DEF q
  <1>2. CASE Len(q) > Depth
    <2>1. Len(q) > 1 /\ Recent(q) = Tail(q)
      BY <1>1, <1>2, Sizes DEF Recent
    <2>2. Tail(q) \in Seq(T) /\ Len(Tail(q)) = Len(q) - 1 /\ Tail(q)[Len(q) - 1] = q[Len(q)]
      BY <1>1, <2>1
    <2>3. Len(q) - 1 \in DOMAIN Tail(q)
      BY <1>1, <2>1, <2>2
    <2>. QED BY <1>1, <2>1, <2>2, <2>3 DEF q
  <1>3. CASE ~(Len(q) > Depth)
    BY <1>1, <1>3 DEF Recent, q
  <1>. QED BY <1>2, <1>3

\* A poll leaves the scan's record well typed, and its fields are these.
LEMMA PolledType ==
  ASSUME SdType, NEW active \in BOOLEAN
  PROVE  /\ Polled(active) \in Sds
         /\ Polled(active).pc = sd.pc /\ Polled(active).polls = Append(sd.polls, active)
         /\ Polled(active).run = IF active THEN 0 ELSE sd.run + 1
         /\ Polled(active).quiet <=> sd.quiet \/ Polled(active).run >= Confirm
  <1>. DEFINE run == IF active THEN 0 ELSE sd.run + 1
              quiet == sd.quiet \/ run >= Confirm
              polls == Append(sd.polls, active)
  <1>1. run \in Nat /\ polls \in Seq(BOOLEAN)
    BY DEF SdType, Sds
  <1>2. quiet \in BOOLEAN
    BY Zenon DEF SdType, Sds
  <1>3. Polled(active) = [[[sd EXCEPT !.polls = polls] EXCEPT !.run = run] EXCEPT !.quiet = quiet]
    BY Zenon DEF Polled
  <1>. HIDE DEF run, quiet, polls
  <1>4. Polled(active) \in Sds
    BY <1>1, <1>2, <1>3 DEF SdType, Sds
  <1>5. /\ Polled(active).pc = sd.pc /\ Polled(active).polls = polls /\ Polled(active).run = run
        /\ Polled(active).quiet = quiet
    BY <1>1, <1>2, <1>3 DEF SdType, Sds
  <1>. QED BY <1>4, <1>5 DEF run, quiet, polls

\* The idle thread, and what it becomes when a request is taken or kept.
LEMMA IdleType ==
  /\ IdleThread \in Sds /\ [IdleThread EXCEPT !.pc = "scan"] \in Sds
  /\ \A b \in BOOLEAN : [IdleThread EXCEPT !.req = b] \in Sds
  <1>1. IdleThread \in Sds
    BY DEF IdleThread, Sds
  <1>2. [IdleThread EXCEPT !.pc = "scan"] \in Sds
    BY <1>1 DEF Sds
  <1>3. ASSUME NEW b \in BOOLEAN  PROVE [IdleThread EXCEPT !.req = b] \in Sds
    BY <1>1 DEF Sds
  <1>. QED BY <1>1, <1>2, <1>3

\* The shutdown thread's state keeps its type.
LEMMA SdTypeStep ==
  ASSUME SdType, [LifeNext]_lifevars  PROVE  SdType'
  <1>. USE DEF SdType, Sds
  <1>1. CASE RefusesWake
    <2>1. sd' = IdleThread
      BY <1>1 DEF RefusesWake, power_shutdown
    <2>. QED BY <2>1, IdleType
  <1>2. CASE TakeRequest
    BY <1>2, IdleType DEF TakeRequest
  <1>3. CASE scan_shutdown_abort_window
    <2>1. PICK active \in BOOLEAN : sd' \in {Polled(active), [Polled(active) EXCEPT !.pc = "abort"]}
      BY <1>3 DEF scan_shutdown_abort_window
    <2>2. Polled(active) \in Sds
      BY PolledType
    <2>. QED BY <2>1, <2>2
  <1>4. CASE Decides
    BY <1>4 DEF Decides
  <1>5. CASE Aborts
    <2>1. sd' = [IdleThread EXCEPT !.req = sd.req] /\ sd.req \in BOOLEAN
      BY <1>5 DEF Aborts
    <2>. QED BY <2>1, IdleType
  <1>6. CASE TellsPeers
    BY <1>6 DEF TellsPeers, poseidon_accessories_shutdown
  <1>7. CASE ShutsDown
    BY <1>7 DEF ShutsDown, power_shutdown, IdleThread
  <1>8. CASE RespShutdown
    BY <1>8 DEF RespShutdown
  <1>9. CASE Wake
    BY <1>9 DEF Wake, Restart, IdleThread
  <1>10. CASE PowerCut
    BY <1>10 DEF PowerCut, Restart, IdleThread
  <1>11. CASE fatal_op_error
    BY <1>11 DEF fatal_op_error, Restart, IdleThread
  <1>12. CASE watchdog_feeder_thread
    BY <1>12, IdleType DEF watchdog_feeder_thread, Restart
  <1>13. CASE UNCHANGED sd
    BY <1>13
  <1>. QED
    BY <1>1, <1>2, <1>3, <1>4, <1>5, <1>6, <1>7, <1>8, <1>9, <1>10, <1>11, <1>12, <1>13
    DEF LifeNext, StartStep, ShutdownStep, Hangs, Beats, Starts, Ends, lifevars, startup_can_wake_guard,
        CauseUnread, errors_init, main,
        record_reboot, record_crash, errors_acknowledge_last_crash, HandsetMovesLine, Hang,
        heartbeat_kick, heartbeat_set_long_op, accessories_thread, refresh_outputs

\* So does the accessory thread's.
LEMMA AccTypeStep ==
  ASSUME SdType, AccType, [LifeNext]_lifevars  PROVE  AccType'
  <1>. USE DEF AccType, Accs
  <1>1. CASE startup_can_wake_guard
    BY <1>1 DEF startup_can_wake_guard, poseidon_accessories_shutdown
  <1>12. CASE RefusesWake
    BY <1>12 DEF RefusesWake, power_shutdown
  <1>2. CASE Decides
    BY <1>2 DEF Decides, SdType, Sds
  <1>3. CASE TellsPeers
    BY <1>3 DEF TellsPeers, poseidon_accessories_shutdown
  <1>4. CASE ShutsDown
    BY <1>4 DEF ShutsDown, power_shutdown
  <1>5. CASE Wake
    BY <1>5 DEF Wake, Restart
  <1>6. CASE PowerCut
    BY <1>6 DEF PowerCut, Restart
  <1>7. CASE fatal_op_error
    BY <1>7 DEF fatal_op_error, Restart
  <1>8. CASE watchdog_feeder_thread
    BY <1>8 DEF watchdog_feeder_thread, Restart
  <1>9. CASE accessories_thread
    BY <1>9 DEF accessories_thread
  <1>10. CASE refresh_outputs
    BY <1>10 DEF refresh_outputs
  <1>11. CASE UNCHANGED acc
    BY <1>11
  <1>. QED
    BY <1>1, <1>2, <1>3, <1>4, <1>5, <1>6, <1>7, <1>8, <1>9, <1>10, <1>11, <1>12
    DEF LifeNext, StartStep, ShutdownStep, Hangs, Beats, Starts, Ends, lifevars, CauseUnread,
        errors_init, main,
        record_reboot, record_crash, errors_acknowledge_last_crash, TakeRequest,
        scan_shutdown_abort_window, Aborts, RespShutdown, HandsetMovesLine, Hang,
        heartbeat_kick, heartbeat_set_long_op

\* The accessory thread looks at a flag that only a decided shutdown sets.
LEMMA ParkStep ==
  ASSUME SdType, AccType, ParkInv, [LifeNext]_lifevars  PROVE  ParkInv'
  <1>. USE DEF ParkInv, AccType, Accs, SdType, Sds
  <1>1. CASE startup_can_wake_guard
    BY <1>1 DEF startup_can_wake_guard, poseidon_accessories_shutdown
  <1>16. CASE RefusesWake
    BY <1>16 DEF RefusesWake, power_shutdown, IdleThread
  <1>2. CASE TakeRequest
    BY <1>2 DEF TakeRequest, IdleThread
  <1>3. CASE scan_shutdown_abort_window
    BY <1>3 DEF scan_shutdown_abort_window
  <1>4. CASE Decides
    BY <1>4 DEF Decides
  <1>5. CASE Aborts
    BY <1>5 DEF Aborts, IdleThread
  <1>6. CASE TellsPeers
    BY <1>6 DEF TellsPeers, poseidon_accessories_shutdown
  <1>7. CASE ShutsDown
    BY <1>7 DEF ShutsDown, power_shutdown, IdleThread
  <1>8. CASE RespShutdown
    BY <1>8 DEF RespShutdown
  <1>9. CASE Wake
    BY <1>9 DEF Wake, Restart, IdleThread
  <1>10. CASE PowerCut
    BY <1>10 DEF PowerCut, Restart, IdleThread
  <1>11. CASE fatal_op_error
    BY <1>11 DEF fatal_op_error, Restart, IdleThread
  <1>12. CASE watchdog_feeder_thread
    BY <1>12 DEF watchdog_feeder_thread, Restart, IdleThread
  <1>13. CASE accessories_thread
    BY <1>13 DEF accessories_thread
  <1>14. CASE refresh_outputs
    BY <1>14 DEF refresh_outputs
  <1>15. CASE UNCHANGED <<sd, acc>> /\ (stage = "refused" => stage' = "refused")
    BY <1>15
  <1>. QED
    BY <1>1, <1>2, <1>3, <1>4, <1>5, <1>6, <1>7, <1>8, <1>9, <1>10, <1>11, <1>12, <1>13,
       <1>14, <1>15, <1>16
    DEF LifeNext, StartStep, ShutdownStep, Hangs, Beats, Starts, Ends, lifevars, CauseUnread,
        errors_init, main,
        record_reboot, record_crash, errors_acknowledge_last_crash, HandsetMovesLine, Hang,
        heartbeat_kick, heartbeat_set_long_op

\* A request is taken after the boot only, and the guard clears no cause.
LEMMA GuardStep ==
  ASSUME SdType, GuardInv, [LifeNext]_lifevars  PROVE  GuardInv'
  <1>. USE DEF GuardInv, SdType, Sds
  <1>1. CASE startup_can_wake_guard
    BY <1>1 DEF startup_can_wake_guard, power_reset_requires_can_enable_check, Consults
  <1>2. CASE RefusesWake \/ ShutsDown
    BY <1>2 DEF RefusesWake, ShutsDown, power_shutdown, IdleThread
  <1>3. CASE Wake \/ PowerCut \/ fatal_op_error
    BY <1>3 DEF Wake, PowerCut, fatal_op_error, Restart, Latch, IdleThread
  <1>4. CASE watchdog_feeder_thread
    BY <1>4 DEF watchdog_feeder_thread, Restart, Latch, IdleThread
  <1>5. CASE stage = "run" /\ stage' = "run" /\ UNCHANGED backup
    BY <1>5
  <1>6. CASE sd'.pc = "idle" /\ stage' # "refused" /\ DOMAIN backup' = {"marker", "cause"}
    BY <1>6
  <1>7. CASE UNCHANGED <<sd, stage, backup>>
    BY <1>7
  <1>8. ASSUME sd.pc # "idle"  PROVE stage = "run"
    BY <1>8
  <1>9. CASE scan_shutdown_abort_window \/ Decides \/ Aborts \/ TellsPeers
    <2>1. sd.pc # "idle" /\ UNCHANGED <<stage, backup>>
      BY <1>9 DEF scan_shutdown_abort_window, Decides, Aborts, TellsPeers
    <2>. QED  BY <1>5, <1>8, <2>1
  <1>11. CASE TakeRequest \/ RespShutdown
    <2>1. stage = "run" /\ UNCHANGED <<stage, backup>>
      BY <1>11 DEF TakeRequest, RespShutdown
    <2>. QED  BY <1>5, <2>1
  <1>10. CASE StartStep
    <2>1. CASE errors_init \/ CauseUnread \/ main \/ record_reboot \/ record_crash
               \/ errors_acknowledge_last_crash
      <3>1. /\ UNCHANGED sd /\ stage # "run" /\ stage' # "refused"
            /\ DOMAIN backup' = {"marker", "cause"}
        BY <2>1 DEF errors_init, CauseUnread, main, record_reboot, record_crash,
                    errors_acknowledge_last_crash
      <3>. QED  BY <1>6, <3>1
    <2>. QED  BY <1>1, <1>2, <1>10, <2>1 DEF StartStep
  <1>. QED
    BY <1>2, <1>3, <1>4, <1>7, <1>9, <1>10, <1>11
    DEF LifeNext, ShutdownStep, Hangs, Beats, Starts, Ends, lifevars, HandsetMovesLine, Hang,
        heartbeat_kick, heartbeat_set_long_op, accessories_thread, refresh_outputs

\* Whoever lets go of the line is the scan, and whoever ends it pulls the line again.
LEMMA LineStep ==
  ASSUME SdType, LineInv, [LifeNext]_lifevars  PROVE  LineInv'
  <1>. USE DEF LineInv, SdType, Sds
  <1>1. CASE errors_init
    BY <1>1 DEF errors_init
  <1>2. CASE startup_can_wake_guard \/ CauseUnread
    BY <1>2 DEF startup_can_wake_guard, CauseUnread
  <1>19. CASE RefusesWake
    BY <1>19 DEF RefusesWake, power_shutdown
  <1>3. CASE main
    BY <1>3 DEF main, power_can_enable_assert
  <1>4. CASE record_reboot
    BY <1>4 DEF record_reboot
  <1>5. CASE record_crash
    BY <1>5 DEF record_crash
  <1>6. CASE errors_acknowledge_last_crash
    BY <1>6 DEF errors_acknowledge_last_crash
  <1>7. CASE TakeRequest
    BY <1>7 DEF TakeRequest, IdleThread
  <1>8. CASE scan_shutdown_abort_window
    <2>1. PICK active \in BOOLEAN : sd' \in {Polled(active), [Polled(active) EXCEPT !.pc = "abort"]}
      BY <1>8 DEF scan_shutdown_abort_window
    <2>2. sd'.pc # "idle"
      BY <1>8, <2>1, PolledType DEF scan_shutdown_abort_window, SdType, Sds
    <2>. QED BY <2>2
  <1>9. CASE Decides
    BY <1>9 DEF Decides
  <1>10. CASE Aborts
    BY <1>10 DEF Aborts, power_can_enable_assert
  <1>11. CASE TellsPeers
    BY <1>11 DEF TellsPeers, poseidon_accessories_shutdown
  <1>12. CASE ShutsDown
    BY <1>12 DEF ShutsDown, power_shutdown
  <1>13. CASE RespShutdown
    BY <1>13 DEF RespShutdown
  <1>14. CASE Wake
    BY <1>14 DEF Wake, Restart, IdleThread
  <1>15. CASE PowerCut
    BY <1>15 DEF PowerCut, Restart, IdleThread
  <1>16. CASE fatal_op_error
    BY <1>16 DEF fatal_op_error, Restart, IdleThread
  <1>17. CASE watchdog_feeder_thread
    BY <1>17 DEF watchdog_feeder_thread, Restart, IdleThread
  <1>18. CASE UNCHANGED <<sd, stage, held>>
    BY <1>18
  <1>. QED
    BY <1>1, <1>2, <1>3, <1>4, <1>5, <1>6, <1>7, <1>8, <1>9, <1>10, <1>11, <1>12, <1>13,
       <1>14, <1>15, <1>16, <1>17, <1>18, <1>19
    DEF LifeNext, StartStep, ShutdownStep, Hangs, Beats, Starts, Ends, lifevars, HandsetMovesLine,
        Hang, heartbeat_kick, heartbeat_set_long_op, accessories_thread, refresh_outputs

\* A poll keeps the scan's numbers true of its polls; a decision rests on a whole window.
LEMMA ScanStep ==
  ASSUME SdType, ScanInv, [LifeNext]_lifevars  PROVE  ScanInv'
  <1>. USE DEF ScanInv, SdType, Sds
  <1>1. CASE RefusesWake
    BY <1>1 DEF RefusesWake, power_shutdown, IdleThread
  <1>2. CASE TakeRequest
    <2>1. sd' = IdleThread => ScanInv'
      BY DEF IdleThread
    <2>2. CASE sd' = [IdleThread EXCEPT !.pc = "scan"]
      <3>1. sd'.polls = <<>> /\ sd'.run = 0 /\ sd'.quiet = FALSE /\ sd'.pc = "scan"
        BY <2>2 DEF IdleThread
      <3>2. EndsQuiet(<<>>, 0) /\ NeverQuiet(<<>>)
        BY Sizes DEF EndsQuiet, NeverQuiet
      <3>. QED BY <3>1, <3>2, Sizes
    <2>. QED BY <1>2, <2>1, <2>2 DEF TakeRequest
  <1>3. CASE scan_shutdown_abort_window
    <2>1. PICK active \in BOOLEAN :
            sd' = IF active /\ sd.quiet THEN [Polled(active) EXCEPT !.pc = "abort"]
                  ELSE Polled(active)
      BY Zenon, <1>3 DEF scan_shutdown_abort_window
    <2>2. /\ sd.pc = "scan" /\ Len(sd.polls) < Attempts /\ sd.polls \in Seq(BOOLEAN)
          /\ sd.run \in Nat /\ EndsQuiet(sd.polls, sd.run)
      BY <1>3 DEF scan_shutdown_abort_window
    <2>3. CASE active /\ sd.quiet
      <3>1. sd'.pc = "abort"
        BY <2>1, <2>3, PolledType
      <3>. QED BY <3>1
    <2>4. CASE ~(active /\ sd.quiet)
      <3>1. sd' = Polled(active)
        BY <2>1, <2>4
      <3>2. /\ sd'.pc = "scan" /\ sd'.polls = Append(sd.polls, active)
            /\ sd'.run = IF active THEN 0 ELSE sd.run + 1
            /\ sd'.quiet <=> sd.quiet \/ sd'.run >= Confirm
        BY <2>2, <3>1, PolledType
      <3>3. EndsQuiet(sd'.polls, sd'.run)
        BY <2>2, <3>2, PollEndsQuiet
      <3>4. Len(sd'.polls) <= Attempts
        BY <2>2, <3>2, Sizes
      <3>5. sd.quiet => ~active /\ WentAndStayedQuiet(sd.polls)
        BY <2>2, <2>4
      <3>6. ~sd.quiet => sd.run < Confirm /\ NeverQuiet(sd.polls)
        BY <2>2
      <3>7. sd'.quiet => WentAndStayedQuiet(sd'.polls)
        <4>1. CASE sd.quiet
          BY <2>2, <3>2, <3>5, <4>1, StaysQuiet
        <4>2. CASE ~sd.quiet /\ sd'.run >= Confirm
          <5>1. ~active /\ sd.run + 1 >= Confirm
            BY <3>2, <4>2, Sizes
          <5>. QED BY <2>2, <3>2, <3>6, <4>2, <5>1, GoesQuiet
        <4>. QED BY <3>2, <4>1, <4>2
      <3>8. ~sd'.quiet => sd'.run < Confirm /\ NeverQuiet(sd'.polls)
        <4>. SUFFICES ASSUME ~sd'.quiet  PROVE sd'.run < Confirm /\ NeverQuiet(sd'.polls)
          OBVIOUS
        <4>1. ~sd.quiet /\ sd'.run < Confirm
          BY <2>2, <3>2, Sizes
        <4>2. ~active => sd.run + 1 < Confirm
          BY <3>2, <4>1
        <4>. QED BY <2>2, <3>2, <3>6, <4>1, <4>2, NotYetQuiet
      <3>. QED BY <3>2, <3>3, <3>4, <3>7, <3>8
    <2>. QED BY <2>3, <2>4
  <1>4. CASE Decides
    <2>1. /\ sd.pc = "scan" /\ Len(sd.polls) = Attempts /\ sd'.polls = sd.polls
          /\ sd'.pc = IF sd.quiet THEN "drain" ELSE "abort"
      BY <1>4 DEF Decides
    <2>. QED BY <2>1
  <1>5. CASE Aborts
    BY <1>5 DEF Aborts, IdleThread
  <1>6. CASE TellsPeers
    BY <1>6 DEF TellsPeers, poseidon_accessories_shutdown
  <1>7. CASE ShutsDown
    BY <1>7 DEF ShutsDown, power_shutdown, IdleThread
  <1>8. CASE RespShutdown
    BY <1>8 DEF RespShutdown
  <1>9. CASE Wake
    BY <1>9 DEF Wake, Restart, IdleThread
  <1>10. CASE PowerCut
    BY <1>10 DEF PowerCut, Restart, IdleThread
  <1>11. CASE fatal_op_error
    BY <1>11 DEF fatal_op_error, Restart, IdleThread
  <1>12. CASE watchdog_feeder_thread
    BY <1>12 DEF watchdog_feeder_thread, Restart, IdleThread
  <1>13. CASE UNCHANGED sd
    BY <1>13
  <1>. QED
    BY <1>1, <1>2, <1>3, <1>4, <1>5, <1>6, <1>7, <1>8, <1>9, <1>10, <1>11, <1>12, <1>13
    DEF LifeNext, StartStep, ShutdownStep, Hangs, Beats, Starts, Ends, lifevars, startup_can_wake_guard,
        CauseUnread, errors_init, main,
        record_reboot, record_crash, errors_acknowledge_last_crash, HandsetMovesLine, Hang,
        heartbeat_kick, heartbeat_set_long_op, accessories_thread, refresh_outputs

\* The histories keep their types.
LEMMA HistoryTypeStep ==
  ASSUME HistoryType, [LifeNext]_lifevars  PROVE  HistoryType'
  <1>. USE DEF HistoryType, Fault, Clean
  <1>1. CASE errors_init
    BY <1>1 DEF errors_init
  <1>2. CASE startup_can_wake_guard \/ CauseUnread
    BY <1>2 DEF startup_can_wake_guard, CauseUnread, Reads
  <1>17. CASE RefusesWake
    BY <1>17 DEF RefusesWake, power_shutdown
  <1>3. CASE main
    BY <1>3 DEF main, power_can_enable_assert
  <1>4. CASE record_reboot
    <2>1. CASE UNCHANGED store
      BY <1>4, <2>1 DEF record_reboot
    <2>2. CASE store' = [store EXCEPT !.next = allocate_reboot_sequence,
                                      !.reboots = Recent(Append(@, store.next))]
      <3>. DEFINE n == allocate_reboot_sequence
                  r == Recent(Append(store.reboots, store.next))
      <3>1. store.next \in Nat /\ store.reboots \in Seq(Nat)
        OBVIOUS
      <3>2. n \in Nat
        BY <3>1, Sizes DEF allocate_reboot_sequence
      <3>3. r \in Seq(Nat)
        BY <3>1, RecentKeepsNewest
      <3>4. store' = [[store EXCEPT !.next = n] EXCEPT !.reboots = r]
        BY <2>2
      <3>. HIDE DEF n, r
      <3>5. store' \in [next : Nat, reboots : Seq(Nat), crashes : Seq(CrashRecords)]
        BY <3>2, <3>3, <3>4
      <3>. QED BY <1>4, <3>1, <3>5 DEF record_reboot
    <2>. QED BY <1>4, <2>1, <2>2 DEF record_reboot
  <1>5. CASE record_crash
    <2>1. CASE UNCHANGED store
      BY <1>5, <2>1 DEF record_crash, Fault, Clean
    <2>2. CASE crash.last # 0 /\ stage' = "ack"
               /\ store' = [store EXCEPT
                               !.crashes = Recent(Append(@, [seq |-> seq, id |-> crash.last]))]
      <3>. DEFINE x == [seq |-> seq, id |-> crash.last]
                  r == Recent(Append(store.crashes, x))
      <3>1. x \in CrashRecords /\ store.crashes \in Seq(CrashRecords)
        BY DEF CrashRecords
      <3>2. r \in Seq(CrashRecords)
        BY <3>1, RecentKeepsNewest
      <3>3. store' = [store EXCEPT !.crashes = r]
        BY <2>2
      <3>. HIDE DEF r
      <3>4. store' \in [next : Nat, reboots : Seq(Nat), crashes : Seq(CrashRecords)]
        BY <3>2, <3>3
      <3>5. left' \in Nat /\ seq' \in Nat /\ UNCHANGED <<owed, crash>>
        BY <1>5 DEF record_crash
      <3>. QED BY <3>4, <3>5
    <2>. QED BY <1>5, <2>1, <2>2 DEF record_crash
  <1>6. CASE errors_acknowledge_last_crash
    BY <1>6 DEF errors_acknowledge_last_crash
  <1>7. CASE TakeRequest
    BY <1>7 DEF TakeRequest
  <1>8. CASE scan_shutdown_abort_window
    BY <1>8 DEF scan_shutdown_abort_window, Reads
  <1>9. CASE Aborts
    BY <1>9 DEF Aborts, power_can_enable_assert
  <1>10. CASE ShutsDown
    BY <1>10 DEF ShutsDown, power_shutdown
  <1>11. CASE Wake
    BY <1>11 DEF Wake, Restart
  <1>12. CASE PowerCut
    BY <1>12 DEF PowerCut, Restart
  <1>13. CASE fatal_op_error
    BY <1>13 DEF fatal_op_error, Restart
  <1>14. ASSUME NEW t \in Threads, Hang(t)  PROVE HistoryType'
    BY <1>14 DEF Hang
  <1>15. CASE watchdog_feeder_thread
    BY <1>15 DEF watchdog_feeder_thread, Restart
  <1>16. CASE UNCHANGED <<left, seq, owed, crash, store>>
    BY <1>16
  <1>. QED
    BY <1>1, <1>2, <1>3, <1>4, <1>5, <1>6, <1>7, <1>8, <1>9, <1>10, <1>11, <1>12, <1>13,
       <1>14, <1>15, <1>16, <1>17
    DEF LifeNext, StartStep, ShutdownStep, Hangs, Beats, Starts, Ends, lifevars, Decides,
        TellsPeers, RespShutdown, HandsetMovesLine, Hang, heartbeat_kick,
        heartbeat_set_long_op, accessories_thread, refresh_outputs

\* The slot is cleared only when its crash is on flash, and flash drops an older one.
LEMMA NoinitStep ==
  ASSUME HistoryType, NoinitInv, CrashKept, [LifeNext]_lifevars  PROVE  NoinitInv' /\ CrashKept'
  <1>. USE DEF HistoryType, NoinitInv, CrashKept
  <1>1. CASE errors_init
    BY <1>1 DEF errors_init
  <1>2. CASE startup_can_wake_guard \/ CauseUnread
    BY <1>2 DEF startup_can_wake_guard, CauseUnread
  <1>13. CASE RefusesWake
    BY <1>13 DEF RefusesWake, power_shutdown
  <1>3. CASE main
    BY <1>3 DEF main
  <1>4. CASE record_reboot
    <2>1. store'.crashes = store.crashes /\ UNCHANGED <<owed, crash>>
      BY <1>4 DEF record_reboot
    <2>2. stage = "reboots" /\ stage' \in {"crashes", "run"}
      BY <1>4 DEF record_reboot
    <2>. QED BY <2>1, <2>2
  <1>5. CASE record_crash
    <2>1. stage = "crashes" /\ UNCHANGED <<owed, crash>>
      BY <1>5 DEF record_crash
    <2>2. CASE UNCHANGED store /\ stage' = "run"
      BY <2>1, <2>2
    <2>3. CASE crash.last # 0 /\ stage' = "ack"
               /\ store' = [store EXCEPT
                               !.crashes = Recent(Append(@, [seq |-> seq, id |-> crash.last]))]
      <3>. DEFINE x == [seq |-> seq, id |-> crash.last]
                  r == Recent(Append(store.crashes, x))
      <3>1. x \in CrashRecords /\ store.crashes \in Seq(CrashRecords) /\ x.id = crash.last
        BY DEF CrashRecords
      <3>2. \E i \in DOMAIN r : r[i] = x
        BY <3>1, RecentKeepsNewest
      <3>3. store' = [store EXCEPT !.crashes = r]
        BY <2>3
      <3>. HIDE DEF r, x
      <3>4. store'.crashes = r
        BY <3>3
      <3>5. \E i \in DOMAIN store'.crashes : store'.crashes[i].id = crash.last
        BY <3>1, <3>2, <3>4
      <3>. QED BY <2>1, <2>3, <3>5
    <2>. QED BY <1>5, <2>2, <2>3 DEF record_crash
  <1>6. CASE errors_acknowledge_last_crash
    BY <1>6 DEF errors_acknowledge_last_crash
  <1>7. CASE ShutsDown
    BY <1>7 DEF ShutsDown, power_shutdown
  <1>8. CASE Wake
    BY <1>8 DEF Wake, Restart
  <1>9. CASE PowerCut
    BY <1>9 DEF PowerCut, Restart
  <1>10. CASE fatal_op_error
    BY <1>10 DEF fatal_op_error, Restart, Fault
  <1>11. CASE watchdog_feeder_thread
    BY <1>11 DEF watchdog_feeder_thread, Restart
  <1>12. CASE UNCHANGED <<stage, owed, crash, store>>
    BY <1>12
  <1>. QED
    BY <1>1, <1>2, <1>3, <1>4, <1>5, <1>6, <1>7, <1>8, <1>9, <1>10, <1>11, <1>12, <1>13
    DEF LifeNext, StartStep, ShutdownStep, Hangs, Beats, Starts, Ends, lifevars, TakeRequest,
        scan_shutdown_abort_window, Decides, Aborts, TellsPeers,
        RespShutdown, HandsetMovesLine, Hang, heartbeat_kick, heartbeat_set_long_op,
        accessories_thread, refresh_outputs

-----------------------------------------------------------------------------
\* The shutdown thread powers the head down, and silences its accessories, only
\* after an abort window of which every poll was taken and whose polls went quiet
\* and stayed quiet; it lets go of the shared line for such a window only. The boot
\* guard does so without a window, of a boot the wake-up pin may have caused.
THEOREM ShutdownIsEarned == LifeSpec => []ShutdownEarned
  <1>. DEFINE I == SdType /\ AccType /\ ScanInv /\ ParkInv /\ GuardInv /\ LineInv
  <1>1. LifeInit => I
    <2>. SUFFICES ASSUME LifeInit PROVE I
      OBVIOUS
    <2>1. SdType
      BY DEF LifeInit, IdleThread, SdType, Sds
    <2>2. AccType
      BY DEF LifeInit, AccType, Accs
    <2>. QED BY <2>1, <2>2 DEF LifeInit, IdleThread, ScanInv, ParkInv, GuardInv, LineInv
  <1>2. I /\ [LifeNext]_lifevars => I'
    BY SdTypeStep, AccTypeStep, ScanStep, ParkStep, GuardStep, LineStep
  <1>3. I => ShutdownEarned
    BY DEF ScanInv, ParkInv, GuardInv, LineInv, ShutdownEarned
  <1>. QED BY <1>1, <1>2, <1>3, PTL DEF LifeSpec

\* The newest crash stays in noinit RAM or in the stored history until power is
\* lost, through failed saves and resets at any step of the boot, even with a
\* history of one record.
THEOREM CrashIsKept == LifeSpec => []CrashKept
  <1>1. LifeInit => HistoryType /\ NoinitInv /\ CrashKept
    BY Sizes DEF LifeInit, HistoryType, NoinitInv, CrashKept, CrashRecords
  <1>2. HistoryType /\ NoinitInv /\ CrashKept /\ [LifeNext]_lifevars
        => (HistoryType /\ NoinitInv /\ CrashKept)'
    BY HistoryTypeStep, NoinitStep
  <1>. QED BY <1>1, <1>2, PTL DEF LifeSpec

-----------------------------------------------------------------------------
(***************************************************************************)
(* Firmware maintenance, for every image size, block number width, set of  *)
(* services and bound: an acknowledged activation boots, arena and log     *)
(* writer are given back, and a restore stages only a whole image that has *)
(* run confirmed.                                                          *)
(*                                                                         *)
(* The argument is ownership. Slot1 is written by a download or by a       *)
(* restore, the backup by a capture or an erase, and each does so only     *)
(* while it holds the arena (Tenants). What a writer has put in place so   *)
(* far is then its own work: the client's blocks (SlotInv), the running    *)
(* image or the backup (BackupInv), and an acknowledged activation stays   *)
(* in slot1 until the reset (PromiseInv).                                  *)
(***************************************************************************)
Owners  == {"free", "ota", "factory", "flash", "stream"}
Writing == {"erase", "copy", "parse", "fill"}  \* the steps at which a job holds the arena

Images    == [img : Nat, n : 0 .. Size]
SlotType  == slot0 \in Nat /\ slot1 \in Images /\ fac \in Images
Arenas    == [owner : Owners, content : Owners, gen : Nat, building : BOOLEAN]
ArenaType == arena \in Arenas
RxType    == /\ rx \in AllServices \cup {"idle", "34erase", "reboot"}
             /\ ota \in [st : {"idle", "downloading", "awaiting", "activating"}, seq : Nat]
             /\ cl \in Nat \ {0}
JobType   == /\ wq \in Seq(Works)
             /\ job \in [item : Works \cup {"none"}, at : Writing \cup {"idle", "start", "reboot"}]
             /\ job.item = "none" <=> job.at = "idle"
             /\ job.at \in {"erase", "copy"} => job.item \in {"capture", "force"}
             /\ job.at \in {"parse", "fill", "reboot"} => job.item = "restore"
HistType  == hist \in [proven : SUBSET Nat, confirmed : SUBSET Nat, promise : Nat, kept : BOOLEAN]
TypeInv   == SlotType /\ ArenaType /\ RxType /\ JobType /\ HistType

\* Who holds the arena, and who holds it is at work.
Tenants ==
  /\ arena.owner = "ota" <=> ota.st # "idle" \/ rx = "34erase"
  /\ arena.owner = "factory" <=> job.at \in Writing
  /\ arena.owner = "flash" => rx = "reboot"
  /\ ota.st = "activating" => rx = "reboot"
  /\ rx = "34erase" => ota.st = "idle"

\* While a download is open, slot1 holds blocks of the client's image, or a first
\* block that is no image's.
SlotInv ==
  ota.st # "idle" => slot1 = Spoilt \/ slot1.n = 0 \/ slot1.img = New

\* An acknowledged activation: the client's image is whole and staged, and stays so.
PromiseInv ==
  /\ hist.kept
  /\ hist.promise # 0 => /\ hist.promise = New /\ ota.st = "activating"
                         /\ staged /\ Whole(slot1) /\ slot1.img = New

\* Captures run on a confirmed image only, so that a whole backup is one, and a
\* restore puts back nothing but a whole backup.
BackupInv ==
  /\ ok => slot0 \in hist.confirmed
  /\ (job.item \in {"capture", "force"}) \/ (\E i \in DOMAIN wq : wq[i] # "restore") => ok
  /\ job.at = "copy" /\ fac.n > 0 => fac.img = slot0
  /\ Whole(fac) => fac.img \in hist.confirmed
  /\ job.at = "fill" => Whole(fac) /\ (slot1.n > 0 => slot1.img = fac.img)

MaintInv == TypeInv /\ Tenants /\ SlotInv /\ PromiseInv /\ BackupInv

-----------------------------------------------------------------------------
LEMMA MaintInit == Init => MaintInv /\ WriterNotStranded
  BY MaintConstants DEF Init, MaintInv, TypeInv, SlotType, Images, ArenaType, Arenas, RxType,
     JobType,
     HistType, Tenants, SlotInv, PromiseInv, BackupInv, WriterNotStranded, Blank, FreshArena, NoJob,
     Owners, Writing, Works, Whole, Old, New, Spoilt, AllServices

\* Every step but a reset.
NoReset == RxStep \/ DiveChanges \/ JobStep \/ PostAlive \/ PostSilent \/ UNCHANGED vars


\* Images keep to their slots: no step puts more than an image's blocks in place.
LEMMA SlotTypeStep ==
  ASSUME MaintInv, NoReset  PROVE  SlotType'
  <1>. USE DEF MaintInv, TypeInv, SlotType, Images, Blank, Spoilt, New
  <1>1. CASE ota_erase_and_init_download
    BY <1>1, MaintConstants DEF ota_erase_and_init_download
  <1>2. CASE OtaEraseFails
    BY <1>2, MaintConstants DEF OtaEraseFails
  <1>3. CASE ota_handle_transfer_data
    BY <1>3, MaintConstants DEF ota_handle_transfer_data, RxType
  <1>4. CASE TransferDataFails
    BY <1>4, MaintConstants DEF TransferDataFails
  <1>5. CASE writeFactoryFlashEraseDID
    BY <1>5, MaintConstants DEF writeFactoryFlashEraseDID
  <1>6. CASE capture_copy_and_bless
    BY <1>6, MaintConstants DEF capture_copy_and_bless, flash_backend_erase,
       flash_backend_write, NextBlock
  <1>7. CASE copy_backend_to_slot1
    BY <1>7, MaintConstants DEF copy_backend_to_slot1, NextBlock
  <1>8. CASE ItemFails
    BY <1>8, MaintConstants DEF ItemFails
  <1>9. CASE UNCHANGED <<slot0, slot1, fac>>
    BY <1>9
  <1>. QED
    BY <1>1, <1>2, <1>3, <1>4, <1>5, <1>6, <1>7, <1>8, <1>9
    DEF NoReset, RxStep, JobStep, vars, pvars, post_confirmed_entry, UDS_ProcessRequest,
        HandleDiagnosticSessionControl, Refusals, Refuse, ota_handle_request_download,
        ota_handle_transfer_exit, ota_handle_routine_control, ActivateFails,
        writeForceRevertDID, writeNvsEraseDID, writeRestoreFactoryDID,
        writeFactoryCaptureDID, StreamBegins, StreamEnds, DiveChanges, NextItem, StartItem,
        PostAlive, PostSilent

\* A request arrives at an idle receive thread; the session's end may reset the download.
LEMMA RequestCases ==
  ASSUME UDS_ProcessRequest
  PROVE  /\ rx = "idle" /\ rx' \in AllServices /\ UNCHANGED <<cl, job>>
         /\ \/ /\ ota' = [st |-> "idle", seq |-> 1] /\ arena' = Release(arena, "ota")
               /\ paused' => paused /\ ota.st # "downloading"
            \/ UNCHANGED <<ota, arena, paused>>
  <1>1. UDS_OTA_Reset \/ UNCHANGED <<ota, arena, paused>>
    BY DEF UDS_ProcessRequest, UDS_MaintainSession
  <1>2. rx' \in Services /\ rx = "idle" /\ UNCHANGED <<cl, job>>
    BY DEF UDS_ProcessRequest, Asks
  <1>3. UDS_OTA_Reset => /\ ota' = [st |-> "idle", seq |-> 1] /\ arena' = Release(arena, "ota")
                         /\ paused' => paused /\ ota.st # "downloading"
    BY Zenon DEF UDS_OTA_Reset
  <1>. QED BY <1>1, <1>2, <1>3, MaintConstants

\* What a claim and a release do to the arena's record.
LEMMA ArenaOps ==
  ASSUME NEW a \in Arenas, NEW o \in Owners
  PROVE  /\ Claim(a, o) \in Arenas /\ Claim(a, o).owner = o
         /\ Release(a, o) \in Arenas
         /\ Release(a, o).owner = IF a.owner = o THEN "free" ELSE a.owner
         /\ CanClaim(a, o) => a.owner \in {"free", o}
  <1>1. /\ Claim(a, o).owner = o /\ Claim(a, o).gen \in Nat
        /\ Claim(a, o).content \in Owners /\ Claim(a, o).building \in BOOLEAN
    BY DEF Arenas, Claim
  <1>2. Claim(a, o) \in Arenas
    BY <1>1 DEF Arenas, Claim
  <1>3. Release(a, o) \in Arenas /\ Release(a, o).owner = IF a.owner = o THEN "free" ELSE a.owner
    BY DEF Arenas, Release, Owners
  <1>4. CanClaim(a, o) => a.owner \in {"free", o}
    BY DEF Arenas, CanClaim, Owners
  <1>. QED BY <1>1, <1>2, <1>3, <1>4

\* The arena changes through claims and releases only.
LEMMA ArenaTypeStep ==
  ASSUME MaintInv, NoReset  PROVE  ArenaType'
  <1>. USE DEF MaintInv, TypeInv, ArenaType, Owners
  <1>1. CASE UDS_ProcessRequest
    BY <1>1, RequestCases, ArenaOps 
  <1>2. CASE ota_handle_request_download
    BY <1>2, ArenaOps DEF ota_handle_request_download
  <1>3. CASE OtaEraseFails
    BY <1>3, ArenaOps DEF OtaEraseFails
  <1>4. CASE writeForceRevertDID
    BY <1>4, ArenaOps DEF writeForceRevertDID
  <1>5. CASE writeFactoryFlashEraseDID
    BY <1>5, ArenaOps DEF writeFactoryFlashEraseDID
  <1>6. CASE writeNvsEraseDID
    BY <1>6, ArenaOps DEF writeNvsEraseDID
  <1>7. CASE StreamBegins
    BY <1>7, ArenaOps DEF StreamBegins
  <1>8. CASE StreamEnds
    BY <1>8, ArenaOps DEF StreamEnds
  <1>9. CASE StartItem
    <2>1. CASE EndItem
      BY <1>9, <2>1, ArenaOps DEF StartItem, EndItem, NoJob
    <2>2. CASE ~EndItem
      BY <1>9, <2>2, ArenaOps DEF StartItem
    <2>. QED BY <2>1, <2>2
  <1>10. CASE capture_copy_and_bless
    <2>1. CASE EndItem
      BY <1>10, <2>1, ArenaOps DEF capture_copy_and_bless, EndItem, NoJob
    <2>2. CASE ~EndItem
      BY <1>10, <2>2, ArenaOps DEF capture_copy_and_bless
    <2>. QED BY <2>1, <2>2
  <1>11. CASE copy_backend_to_slot1
    <2>1. CASE EndItem
      BY <1>11, <2>1, ArenaOps DEF copy_backend_to_slot1, EndItem, NoJob
    <2>2. CASE ~EndItem
      BY <1>11, <2>2, ArenaOps DEF copy_backend_to_slot1
    <2>. QED BY <2>1, <2>2
  <1>12. CASE ItemFails
    BY <1>12, ArenaOps DEF ItemFails, EndItem
  <1>13. CASE UNCHANGED arena
    BY <1>13
  <1>. QED
    BY <1>1, <1>2, <1>3, <1>4, <1>5, <1>6, <1>7, <1>8, <1>9, <1>10, <1>11, <1>12, <1>13
    DEF NoReset, RxStep, JobStep, vars, rvars, post_confirmed_entry,
        HandleDiagnosticSessionControl, Refusals, Refuse, ota_erase_and_init_download,
        ota_handle_transfer_data, TransferDataFails, ota_handle_transfer_exit,
        ota_handle_routine_control, ActivateFails, writeRestoreFactoryDID,
        writeFactoryCaptureDID, DiveChanges, NextItem, PostAlive, PostSilent

\* The receive thread, the download and the client keep their types.
LEMMA RxTypeStep ==
  ASSUME MaintInv, NoReset  PROVE  RxType'
  <1>. USE DEF MaintInv, TypeInv, RxType, AllServices
  <1>1. CASE UDS_ProcessRequest
    BY <1>1, RequestCases 
  <1>2. CASE HandleDiagnosticSessionControl
    BY <1>2 DEF HandleDiagnosticSessionControl
  <1>3. CASE Refusals
    BY <1>3 DEF Refusals, Refuse
  <1>4. CASE ota_handle_request_download
    BY <1>4 DEF ota_handle_request_download
  <1>5. CASE ota_erase_and_init_download
    BY <1>5 DEF ota_erase_and_init_download
  <1>6. CASE OtaEraseFails
    BY <1>6 DEF OtaEraseFails
  <1>7. CASE ota_handle_transfer_data
    BY <1>7, MaintConstants DEF ota_handle_transfer_data
  <1>8. CASE TransferDataFails
    BY <1>8 DEF TransferDataFails
  <1>9. CASE ota_handle_transfer_exit
    BY <1>9 DEF ota_handle_transfer_exit
  <1>10. CASE ota_handle_routine_control
    BY <1>10 DEF ota_handle_routine_control
  <1>11. CASE ActivateFails
    BY <1>11 DEF ActivateFails
  <1>12. CASE writeForceRevertDID
    BY <1>12 DEF writeForceRevertDID
  <1>13. CASE writeFactoryFlashEraseDID
    BY <1>13 DEF writeFactoryFlashEraseDID
  <1>14. CASE writeNvsEraseDID
    BY <1>14 DEF writeNvsEraseDID
  <1>15. CASE writeRestoreFactoryDID
    BY <1>15 DEF writeRestoreFactoryDID
  <1>16. CASE writeFactoryCaptureDID
    BY <1>16 DEF writeFactoryCaptureDID
  <1>17. CASE UNCHANGED <<rx, ota, cl>>
    BY <1>17
  <1>. QED
    BY <1>1, <1>2, <1>3, <1>4, <1>5, <1>6, <1>7, <1>8, <1>9, <1>10, <1>11, <1>12, <1>13, <1>14,
       <1>15, <1>16, <1>17
    DEF NoReset, RxStep, JobStep, vars, rvars, post_confirmed_entry, Refuse, StreamBegins,
        StreamEnds, DiveChanges, NextItem, StartItem, capture_copy_and_bless,
        copy_backend_to_slot1, ItemFails, PostAlive, PostSilent

\* A job is at a step of its own kind of work.
LEMMA JobTypeStep ==
  ASSUME MaintInv, NoReset  PROVE  JobType'
  <1>. USE DEF MaintInv, TypeInv, JobType, Works, Writing
  <1>1. CASE writeRestoreFactoryDID
    BY <1>1 DEF writeRestoreFactoryDID, Submit
  <1>2. CASE writeFactoryCaptureDID
    BY <1>2 DEF writeFactoryCaptureDID, Submit
  <1>3. CASE NextItem
    BY <1>3 DEF NextItem
  <1>4. CASE StartItem
    <2>1. CASE EndItem
      BY <1>4, <2>1 DEF StartItem, EndItem, NoJob
    <2>2. CASE ~EndItem
      BY <1>4, <2>2 DEF StartItem
    <2>. QED BY <2>1, <2>2
  <1>5. CASE capture_copy_and_bless
    <2>1. CASE EndItem
      BY <1>5, <2>1 DEF capture_copy_and_bless, EndItem, NoJob
    <2>2. CASE ~EndItem
      BY <1>5, <2>2 DEF capture_copy_and_bless
    <2>. QED BY <2>1, <2>2
  <1>6. CASE copy_backend_to_slot1
    <2>1. CASE EndItem
      BY <1>6, <2>1 DEF copy_backend_to_slot1, EndItem, NoJob
    <2>2. CASE ~EndItem
      BY <1>6, <2>2 DEF copy_backend_to_slot1
    <2>. QED BY <2>1, <2>2
  <1>7. CASE ItemFails
    BY <1>7 DEF ItemFails, EndItem, NoJob
  <1>8. CASE PostAlive
    BY <1>8 DEF PostAlive, post_confirmed_entry, MaybeCapture
  <1>9. CASE UNCHANGED <<wq, job>>
    BY <1>9
  <1>. QED
    BY <1>1, <1>2, <1>3, <1>4, <1>5, <1>6, <1>7, <1>8, <1>9
    DEF NoReset, RxStep, JobStep, vars, rvars, UDS_ProcessRequest,
        HandleDiagnosticSessionControl, Refusals, Refuse, ota_handle_request_download,
        ota_erase_and_init_download, OtaEraseFails, ota_handle_transfer_data,
        TransferDataFails, ota_handle_transfer_exit, ota_handle_routine_control,
        ActivateFails, writeForceRevertDID, writeFactoryFlashEraseDID, writeNvsEraseDID,
        StreamBegins, StreamEnds, DiveChanges, PostSilent

\* The history keeps its type.
LEMMA HistTypeStep ==
  ASSUME MaintInv, NoReset  PROVE  HistType'
  <1>. USE DEF MaintInv, TypeInv, HistType, New
  <1>1. CASE ota_handle_routine_control
    BY <1>1 DEF ota_handle_routine_control
  <1>2. CASE PostAlive
    <2>1. \/ hist' = [hist EXCEPT !.proven = @ \cup {slot0}, !.confirmed = @ \cup {slot0}]
          \/ UNCHANGED hist
      BY <1>2 DEF PostAlive, post_confirmed_entry
    <2>2. hist.proven \cup {slot0} \in SUBSET Nat /\ hist.confirmed \cup {slot0} \in SUBSET Nat
      BY DEF SlotType
    <2>. QED BY <2>1, <2>2
  <1>3. CASE UNCHANGED hist
    BY <1>3
  <1>. QED
    BY <1>1, <1>2, <1>3
    DEF NoReset, RxStep, JobStep, vars, rvars, UDS_ProcessRequest,
        HandleDiagnosticSessionControl, Refusals, Refuse, ota_handle_request_download,
        ota_erase_and_init_download, OtaEraseFails, ota_handle_transfer_data,
        TransferDataFails, ota_handle_transfer_exit, ActivateFails, writeForceRevertDID,
        writeFactoryFlashEraseDID, writeNvsEraseDID, writeRestoreFactoryDID,
        writeFactoryCaptureDID, StreamBegins, StreamEnds, DiveChanges, NextItem, StartItem,
        capture_copy_and_bless, copy_backend_to_slot1, ItemFails, PostSilent

\* Whoever holds the arena is at work, and whoever is at work holds it.
LEMMA TenantsStep ==
  ASSUME MaintInv, NoReset  PROVE  Tenants'
  <1>. USE DEF MaintInv, TypeInv, ArenaType, RxType, JobType, Tenants, Owners, AllServices,
               Writing
  <1>1. CASE UDS_ProcessRequest
    BY <1>1, RequestCases, ArenaOps 
  <1>2. CASE HandleDiagnosticSessionControl
    BY <1>2 DEF HandleDiagnosticSessionControl
  <1>3. CASE Refusals
    BY <1>3 DEF Refusals, Refuse
  <1>4. CASE ota_handle_request_download
    BY <1>4, ArenaOps DEF ota_handle_request_download, CanDownload
  <1>5. CASE ota_erase_and_init_download
    BY <1>5 DEF ota_erase_and_init_download
  <1>6. CASE OtaEraseFails
    BY <1>6, ArenaOps DEF OtaEraseFails
  <1>7. CASE ota_handle_transfer_data
    BY <1>7 DEF ota_handle_transfer_data, ExpectedBlock
  <1>8. CASE TransferDataFails
    BY <1>8 DEF TransferDataFails
  <1>9. CASE ota_handle_transfer_exit
    BY <1>9 DEF ota_handle_transfer_exit, CanExit
  <1>10. CASE ota_handle_routine_control
    BY <1>10 DEF ota_handle_routine_control, CanActivate
  <1>11. CASE ActivateFails
    BY <1>11 DEF ActivateFails
  <1>12. CASE writeForceRevertDID
    BY <1>12, ArenaOps DEF writeForceRevertDID, CanRevert
  <1>13. CASE writeFactoryFlashEraseDID
    BY <1>13, ArenaOps DEF writeFactoryFlashEraseDID, CanErase
  <1>14. CASE writeNvsEraseDID
    BY <1>14, ArenaOps DEF writeNvsEraseDID, CanErase
  <1>15. CASE writeRestoreFactoryDID
    BY <1>15 DEF writeRestoreFactoryDID
  <1>16. CASE writeFactoryCaptureDID
    BY <1>16 DEF writeFactoryCaptureDID
  <1>17. CASE StreamBegins
    BY <1>17, ArenaOps DEF StreamBegins, Asks
  <1>18. CASE StreamEnds
    BY <1>18, ArenaOps DEF StreamEnds
  <1>19. CASE NextItem
    BY <1>19 DEF NextItem, NoJob
  <1>20. CASE StartItem
    <2>1. CASE EndItem
      BY <1>20, <2>1, ArenaOps DEF StartItem, EndItem, NoJob
    <2>2. CASE ~EndItem
      BY <1>20, <2>2, ArenaOps DEF StartItem
    <2>. QED BY <2>1, <2>2
  <1>21. CASE capture_copy_and_bless
    <2>1. CASE EndItem
      BY <1>21, <2>1, ArenaOps DEF capture_copy_and_bless, EndItem, NoJob
    <2>2. CASE ~EndItem
      BY <1>21, <2>2, ArenaOps DEF capture_copy_and_bless
    <2>. QED BY <2>1, <2>2
  <1>22. CASE copy_backend_to_slot1
    <2>1. CASE EndItem
      BY <1>22, <2>1, ArenaOps DEF copy_backend_to_slot1, EndItem, NoJob
    <2>2. CASE ~EndItem
      BY <1>22, <2>2, ArenaOps DEF copy_backend_to_slot1
    <2>. QED BY <2>1, <2>2
  <1>23. CASE ItemFails
    BY <1>23, ArenaOps DEF ItemFails, EndItem, NoJob
  <1>24. CASE UNCHANGED <<arena, ota, rx, job>>
    BY <1>24
  <1>. QED
    BY <1>1, <1>2, <1>3, <1>4, <1>5, <1>6, <1>7, <1>8, <1>9, <1>10, <1>11, <1>12, <1>13, <1>14,
       <1>15, <1>16, <1>17, <1>18, <1>19, <1>20, <1>21, <1>22, <1>23, <1>24
    DEF NoReset, RxStep, JobStep, vars, rvars, post_confirmed_entry, Refuse, DiveChanges,
        PostAlive, PostSilent

\* While a download is open nobody but the client's blocks gets into slot1.
LEMMA SlotInvStep ==
  ASSUME MaintInv, NoReset  PROVE  SlotInv'
  <1>. USE DEF MaintInv, TypeInv, SlotInv, Tenants, Blank, Spoilt, New
  <1>1. CASE UDS_ProcessRequest
    BY <1>1, RequestCases DEF UDS_ProcessRequest, pvars
  <1>2. CASE ota_erase_and_init_download
    BY <1>2 DEF ota_erase_and_init_download
  <1>3. CASE OtaEraseFails
    BY <1>3 DEF OtaEraseFails
  <1>4. CASE ota_handle_transfer_data
    BY <1>4 DEF ota_handle_transfer_data, SlotType, RxType
  <1>5. CASE TransferDataFails
    BY <1>5 DEF TransferDataFails
  <1>6. CASE ota_handle_transfer_exit
    BY <1>6 DEF ota_handle_transfer_exit, pvars, CanExit, RxType
  <1>7. CASE ota_handle_routine_control
    BY <1>7 DEF ota_handle_routine_control, CanActivate, RxType
  <1>8. CASE writeFactoryFlashEraseDID
    BY <1>8, ArenaOps DEF writeFactoryFlashEraseDID, CanErase, ArenaType, Owners
  <1>9. CASE copy_backend_to_slot1
    BY <1>9 DEF copy_backend_to_slot1, Writing
  <1>10. CASE ItemFails
    BY <1>10 DEF ItemFails, Writing
  <1>11. CASE UNCHANGED <<slot1, ota>>
    BY <1>11
  <1>. QED
    BY <1>1, <1>2, <1>3, <1>4, <1>5, <1>6, <1>7, <1>8, <1>9, <1>10, <1>11
    DEF NoReset, RxStep, JobStep, vars, pvars, rvars, post_confirmed_entry,
        HandleDiagnosticSessionControl, Refusals, Refuse, ota_handle_request_download,
        ActivateFails, writeForceRevertDID, writeNvsEraseDID, writeRestoreFactoryDID,
        writeFactoryCaptureDID, StreamBegins, StreamEnds, DiveChanges, NextItem, StartItem,
        capture_copy_and_bless, PostAlive, PostSilent

\* An acknowledged activation stays whole and staged in slot1.
LEMMA PromiseStep ==
  ASSUME MaintInv, NoReset  PROVE  PromiseInv'
  <1>. USE DEF MaintInv, TypeInv, PromiseInv, Tenants, Blank, Spoilt, New, Whole
  <1>1. CASE UDS_ProcessRequest
    BY <1>1, RequestCases DEF UDS_ProcessRequest, pvars
  <1>2. CASE ota_erase_and_init_download
    BY <1>2 DEF ota_erase_and_init_download
  <1>3. CASE OtaEraseFails
    BY <1>3 DEF OtaEraseFails
  <1>4. CASE ota_handle_transfer_data
    BY <1>4 DEF ota_handle_transfer_data, ExpectedBlock
  <1>5. CASE TransferDataFails
    BY <1>5 DEF TransferDataFails, ExpectedBlock
  <1>6. CASE ota_handle_transfer_exit
    BY <1>6 DEF ota_handle_transfer_exit, pvars, CanExit
  <1>7. CASE ota_handle_routine_control
    BY <1>7, MaintConstants DEF ota_handle_routine_control, CanActivate, validateSlot1,
       HistType, RxType, SlotInv,
         SlotType
  <1>8. CASE ActivateFails
    BY <1>8 DEF ActivateFails
  <1>9. CASE writeForceRevertDID
    BY <1>9 DEF writeForceRevertDID
  <1>10. CASE writeFactoryFlashEraseDID
    BY <1>10 DEF writeFactoryFlashEraseDID
  <1>11. CASE copy_backend_to_slot1
    BY <1>11 DEF copy_backend_to_slot1, Writing
  <1>12. CASE ItemFails
    BY <1>12 DEF ItemFails, Writing
  <1>13. CASE PostAlive
    <2>1. \/ hist' = [hist EXCEPT !.proven = @ \cup {slot0}, !.confirmed = @ \cup {slot0}]
          \/ UNCHANGED hist
      BY <1>13 DEF PostAlive, post_confirmed_entry
    <2>2. hist'.promise = hist.promise /\ hist'.kept = hist.kept
      BY <2>1 DEF HistType
    <2>3. UNCHANGED <<ota, staged, slot1>>
      BY <1>13 DEF PostAlive
    <2>. QED BY <2>2, <2>3
  <1>14. CASE UNCHANGED <<hist, ota, staged, slot1>>
    BY <1>14
  <1>. QED
    BY <1>1, <1>2, <1>3, <1>4, <1>5, <1>6, <1>7, <1>8, <1>9, <1>10, <1>11, <1>12, <1>13, <1>14
    DEF NoReset, RxStep, JobStep, vars, pvars, rvars, HandleDiagnosticSessionControl,
        Refusals, Refuse, ota_handle_request_download, writeNvsEraseDID,
        writeRestoreFactoryDID, writeFactoryCaptureDID, StreamBegins, StreamEnds,
        DiveChanges, NextItem, StartItem, capture_copy_and_bless, PostSilent

\* A whole backup is an image that has run confirmed.
LEMMA BackupStep ==
  ASSUME MaintInv, NoReset  PROVE  BackupInv'
  <1>. USE DEF MaintInv, TypeInv, BackupInv, Tenants, Blank, Spoilt, Whole
  <1>1. CASE ota_erase_and_init_download
    BY <1>1 DEF ota_erase_and_init_download, Writing
  <1>2. CASE OtaEraseFails
    BY <1>2 DEF OtaEraseFails, Writing
  <1>3. CASE ota_handle_transfer_data
    BY <1>3 DEF ota_handle_transfer_data, ExpectedBlock, Writing
  <1>4. CASE TransferDataFails
    BY <1>4 DEF TransferDataFails, ExpectedBlock, Writing
  <1>5. CASE ota_handle_routine_control
    BY <1>5 DEF ota_handle_routine_control, HistType
  <1>6. CASE writeFactoryFlashEraseDID
    BY <1>6, MaintConstants, ArenaOps DEF writeFactoryFlashEraseDID, CanErase, ArenaType,
       Owners, Writing
  <1>7. CASE writeRestoreFactoryDID
    BY <1>7 DEF writeRestoreFactoryDID, pvars, Submit, JobType, Works
  <1>8. CASE writeFactoryCaptureDID
    BY <1>8 DEF writeFactoryCaptureDID, pvars, Submit, CanCapture
  <1>9. CASE NextItem
    BY <1>9 DEF NextItem, pvars, NoJob, JobType
  <1>10. CASE StartItem
    <2>1. CASE EndItem
      BY <1>10, <2>1 DEF StartItem, EndItem, pvars, NoJob
    <2>2. CASE ~EndItem
      BY <1>10, <2>2 DEF StartItem, pvars, JobType
    <2>. QED BY <2>1, <2>2
  <1>11. CASE capture_copy_and_bless
    <2>1. UNCHANGED <<ok, slot0, slot1, wq, hist>> /\ ok /\ slot0 \in hist.confirmed
      BY <1>11 DEF capture_copy_and_bless, JobType
    <2>2. \/ fac' = Blank /\ job' = [job EXCEPT !.at = "copy"]
          \/ job.at = "copy" /\ fac' = NextBlock(fac, slot0) /\ UNCHANGED job
          \/ job' = NoJob /\ UNCHANGED fac
      BY <1>11 DEF capture_copy_and_bless, flash_backend_erase, flash_backend_write, EndItem
    <2>3. CASE fac' = Blank /\ job' = [job EXCEPT !.at = "copy"]
      BY <2>1, <2>3, MaintConstants DEF JobType
    <2>4. CASE job.at = "copy" /\ fac' = NextBlock(fac, slot0) /\ UNCHANGED job
      BY <2>1, <2>4 DEF NextBlock, SlotType
    <2>5. CASE job' = NoJob /\ UNCHANGED fac
      BY <2>1, <2>5 DEF NoJob
    <2>. QED BY <2>2, <2>3, <2>4, <2>5
  <1>12. CASE copy_backend_to_slot1
    <2>1. UNCHANGED <<ok, slot0, fac, wq, hist>> /\ job.at \in {"parse", "fill"}
      BY <1>12 DEF copy_backend_to_slot1
    <2>2. \/ Whole(fac) /\ slot1' = Blank /\ job' = [job EXCEPT !.at = "fill"]
          \/ job.at = "fill" /\ slot1' = NextBlock(slot1, fac.img) /\ UNCHANGED job
          \/ job' = NoJob \/ job' = [job EXCEPT !.at = "reboot"]
      BY <1>12 DEF copy_backend_to_slot1, factory_backup_image_size, EndItem
    <2>3. CASE Whole(fac) /\ slot1' = Blank /\ job' = [job EXCEPT !.at = "fill"]
      BY <2>1, <2>3 DEF JobType
    <2>4. CASE job.at = "fill" /\ slot1' = NextBlock(slot1, fac.img) /\ UNCHANGED job
      BY <2>1, <2>4 DEF NextBlock
    <2>5. CASE job' = NoJob \/ job' = [job EXCEPT !.at = "reboot"]
      BY <2>1, <2>5 DEF NoJob, JobType
    <2>. QED BY <2>2, <2>3, <2>4, <2>5
  <1>13. CASE ItemFails
    BY <1>13, MaintConstants DEF ItemFails, EndItem, NoJob
  <1>14. CASE PostAlive
    <2>1. UNCHANGED <<slot0, slot1, fac, job>>
      BY <1>14 DEF PostAlive
    <2>2. CASE UNCHANGED <<ok, wq, hist>>
      BY <2>1, <2>2
    <2>3. CASE /\ ok' = TRUE
               /\ hist' = [hist EXCEPT !.proven = @ \cup {slot0}, !.confirmed = @ \cup {slot0}]
      <3>1. hist'.confirmed = hist.confirmed \cup {slot0}
        BY <2>3 DEF HistType
      <3>. QED BY <2>1, <2>3, <3>1
    <2>. QED BY <1>14, <2>2, <2>3 DEF PostAlive, post_confirmed_entry
  <1>15. CASE UNCHANGED <<ok, slot0, slot1, fac, job, wq, hist>>
    BY <1>15
  <1>. QED
    BY <1>1, <1>2, <1>3, <1>4, <1>5, <1>6, <1>7, <1>8, <1>9, <1>10, <1>11, <1>12, <1>13, <1>14,
       <1>15
    DEF NoReset, RxStep, JobStep, vars, pvars, rvars, UDS_ProcessRequest,
        HandleDiagnosticSessionControl, Refusals, Refuse, ota_handle_request_download,
        ota_handle_transfer_exit, ActivateFails, writeForceRevertDID, writeNvsEraseDID,
        StreamBegins, StreamEnds, DiveChanges, PostSilent

\* The end of an item: a restore resumes the log, nothing else touches it.
LEMMA EndItemResumes ==
  ASSUME EndItem
  PROVE  paused' => paused /\ job.item # "restore"
  BY Zenon DEF EndItem

\* Every step that ends the last operation in need of a paused log resumes it.
LEMMA WriterStep ==
  ASSUME MaintInv, WriterNotStranded, NoReset  PROVE  WriterNotStranded'
  <1>. USE DEF MaintInv, TypeInv, WriterNotStranded, ArenaType, JobType, Owners
  <1>1. CASE UDS_ProcessRequest
    BY <1>1, RequestCases DEF Release
  <1>2. CASE HandleDiagnosticSessionControl
    BY <1>2 DEF HandleDiagnosticSessionControl
  <1>3. CASE Refusals
    BY <1>3 DEF Refusals, Refuse
  <1>4. CASE ota_handle_request_download
    BY <1>4 DEF ota_handle_request_download, RxType
  <1>5. CASE ota_erase_and_init_download
    BY <1>5 DEF ota_erase_and_init_download, RxType
  <1>6. CASE OtaEraseFails
    BY <1>6 DEF OtaEraseFails
  <1>7. CASE ota_handle_transfer_data
    BY <1>7 DEF ota_handle_transfer_data, RxType
  <1>8. CASE TransferDataFails
    BY <1>8 DEF TransferDataFails, RxType
  <1>9. CASE ota_handle_transfer_exit
    BY <1>9 DEF ota_handle_transfer_exit
  <1>10. CASE ota_handle_routine_control
    BY <1>10 DEF ota_handle_routine_control
  <1>11. CASE ActivateFails
    BY <1>11 DEF ActivateFails
  <1>12. CASE writeForceRevertDID
    BY <1>12 DEF writeForceRevertDID
  <1>13. CASE writeFactoryFlashEraseDID
    BY <1>13 DEF writeFactoryFlashEraseDID
  <1>14. CASE writeNvsEraseDID
    BY <1>14 DEF writeNvsEraseDID
  <1>15. CASE writeRestoreFactoryDID
    BY <1>15 DEF writeRestoreFactoryDID
  <1>16. CASE writeFactoryCaptureDID
    BY <1>16 DEF writeFactoryCaptureDID
  <1>17. CASE StreamBegins
    BY <1>17, ArenaOps DEF StreamBegins, Asks
  <1>18. CASE StreamEnds
    BY <1>18, ArenaOps DEF StreamEnds
  <1>19. CASE NextItem
    BY <1>19 DEF NextItem, NoJob
  <1>20. CASE StartItem
    <2>1. UNCHANGED <<ota, rx>> /\ (arena.owner = "stream" => arena' = arena)
      BY <1>20, ArenaOps DEF StartItem, EndItem, Release
    <2>2. CASE EndItem
      BY <2>1, <2>2, EndItemResumes
    <2>3. CASE ~EndItem
      <3>1. job'.item = job.item /\ UNCHANGED paused
        BY <1>20, <2>3 DEF StartItem
      <3>. QED BY <2>1, <3>1
    <2>. QED BY <2>2, <2>3
  <1>21. CASE capture_copy_and_bless
    <2>1. UNCHANGED <<ota, rx>> /\ (arena.owner = "stream" => arena' = arena)
      BY <1>21, ArenaOps DEF capture_copy_and_bless, EndItem, Release
    <2>2. CASE EndItem
      BY <2>1, <2>2, EndItemResumes
    <2>3. CASE ~EndItem
      <3>1. job'.item = job.item /\ UNCHANGED paused
        BY <1>21, <2>3 DEF capture_copy_and_bless
      <3>. QED BY <2>1, <3>1
    <2>. QED BY <2>2, <2>3
  <1>22. CASE copy_backend_to_slot1
    <2>1. UNCHANGED <<ota, rx>> /\ (arena.owner = "stream" => arena' = arena)
      BY <1>22, ArenaOps DEF copy_backend_to_slot1, EndItem, Release
    <2>2. CASE EndItem
      BY <2>1, <2>2, EndItemResumes
    <2>3. CASE ~EndItem
      <3>1. job'.item = job.item /\ UNCHANGED paused
        BY <1>22, <2>3 DEF copy_backend_to_slot1
      <3>. QED BY <2>1, <3>1
    <2>. QED BY <2>2, <2>3
  <1>23. CASE ItemFails
    <2>1. UNCHANGED <<ota, rx>> /\ (arena.owner = "stream" => arena' = arena)
      BY <1>23, ArenaOps DEF ItemFails, EndItem, Release
    <2>2. CASE EndItem
      BY <2>1, <2>2, EndItemResumes
    <2>3. CASE ~EndItem
      <3>1. job'.item = job.item /\ UNCHANGED paused
        BY <1>23, <2>3 DEF ItemFails
      <3>. QED BY <2>1, <3>1
    <2>. QED BY <2>2, <2>3
  <1>24. CASE UNCHANGED <<paused, ota, rx, arena, job>>
    BY <1>24
  <1>. QED
    BY <1>1, <1>2, <1>3, <1>4, <1>5, <1>6, <1>7, <1>8, <1>9, <1>10, <1>11, <1>12, <1>13, <1>14,
       <1>15, <1>16, <1>17, <1>18, <1>19, <1>20, <1>21, <1>22, <1>23, <1>24
    DEF NoReset, RxStep, JobStep, vars, pvars, rvars, post_confirmed_entry, Refuse,
        DiveChanges, PostAlive, PostSilent

-----------------------------------------------------------------------------
\* A reset, by whoever asked for it or by power loss: MCUboot keeps a promised
\* activation, and an image it lets run confirmed is one that has run confirmed.
LEMMA BootStep ==
  ASSUME MaintInv, Boot
  PROVE  MaintInv' /\ WriterNotStranded'
  <1>. USE DEF MaintInv, TypeInv
  <1>1. SlotType'
    BY MaintConstants DEF Boot, MCUboot, SlotType, Images, Blank
  <1>2. /\ arena' = FreshArena /\ paused' = FALSE /\ rx' = "idle" /\ cl' = 1 /\ job' = NoJob
        /\ ota' = [st |-> "idle", seq |-> 1] /\ fac' = fac
    BY DEF Boot
  <1>3. ArenaType' /\ RxType' /\ Tenants' /\ SlotInv' /\ WriterNotStranded'
    BY <1>2 DEF ArenaType, Arenas, Owners, FreshArena, RxType, Tenants, SlotInv, Writing, NoJob,
       WriterNotStranded
  <1>4. wq' = <<>> \/ (wq' = <<"capture">> /\ ok')
    <2>1. post'.end = "confirmed" => ok'
      BY DEF Boot, firmware_confirm_decide, Started, Dormant
    <2>2. wq' = IF post'.end = "confirmed" /\ ~captured' THEN <<"capture">> ELSE <<>>
      BY Zenon DEF Boot
    <2>. QED BY <2>1, <2>2
  <1>5. JobType'
    <2>1. <<>> \in Seq(Works) /\ <<"capture">> \in Seq(Works)
      BY DEF Works
    <2>2. wq' \in Seq(Works)
      BY <1>4, <2>1, Zenon
    <2>. QED BY <1>2, <2>2 DEF JobType, NoJob, Works, Writing
  <1>6. /\ hist'.promise = 0 /\ hist'.kept = (hist.promise \in {0, slot0'})
        /\ hist'.proven = hist.proven
        /\ hist'.confirmed = IF ok' THEN hist.confirmed \cup {slot0'} ELSE hist.confirmed
    BY DEF Boot, HistType
  <1>7. HistType'
    <2>. DEFINE k == hist.promise \in {0, slot0'}
                c == IF ok' THEN hist.confirmed \cup {slot0'} ELSE hist.confirmed
    <2>1. hist' = [hist EXCEPT !.promise = 0, !.kept = k, !.confirmed = c]
      BY Zenon DEF Boot
    <2>2. k \in BOOLEAN /\ c \in SUBSET Nat
      BY <1>1 DEF HistType, SlotType
    <2>. HIDE DEF k, c
    <2>. QED BY <2>1, <2>2 DEF HistType
  <1>8. PromiseInv'
    <2>1. hist.promise # 0 => slot0' = hist.promise
      BY DEF Boot, MCUboot, PromiseInv
    <2>. QED BY <1>6, <2>1 DEF PromiseInv
  <1>9. BackupInv'
    BY <1>2, <1>4, <1>6, MaintConstants DEF BackupInv, NoJob, Whole
  <1>. QED BY <1>1, <1>3, <1>5, <1>7, <1>8, <1>9

\* Every step keeps the whole invariant.
LEMMA MaintStep ==
  MaintInv /\ WriterNotStranded /\ [Next]_vars => (MaintInv /\ WriterNotStranded)'
  <1>1. MaintInv /\ WriterNotStranded /\ Boot => (MaintInv /\ WriterNotStranded)'
    BY BootStep
  <1>2. MaintInv /\ WriterNotStranded /\ NoReset => (MaintInv /\ WriterNotStranded)'
    BY SlotTypeStep, ArenaTypeStep, RxTypeStep, JobTypeStep, HistTypeStep, TenantsStep,
       SlotInvStep, PromiseStep, BackupStep, WriterStep DEF MaintInv, TypeInv
  <1>. QED BY <1>1, <1>2 DEF Next, NoReset, Reboot, PowerLoss

LEMMA MaintInvariant == Spec => [](MaintInv /\ WriterNotStranded)
  BY MaintInit, MaintStep, PTL DEF Spec

-----------------------------------------------------------------------------
\* A positive answer to the activation routine is kept: the acknowledged image is
\* the one that runs after the next reset (ota_handle_routine_control, MCUboot).
THEOREM ActivationBoots == Spec => []ActivatedBoots
  <1>1. MaintInv => ActivatedBoots
    BY DEF MaintInv, PromiseInv, ActivatedBoots
  <1>. QED BY <1>1, MaintInvariant, PTL

\* The arena is held only by a tenant at work, on every path of every handler and job
\* (maint_arena_claim, maint_arena_release).
THEOREM ArenaGivenBack == Spec => []ArenaNotStranded
  <1>1. MaintInv => ArenaNotStranded
    BY DEF MaintInv, Tenants, ArenaNotStranded, Writing
  <1>. QED BY <1>1, MaintInvariant, PTL

\* The log writer is paused only while an operation that needs it paused goes on.
THEOREM WriterGivenBack == Spec => []WriterNotStranded
  BY MaintInvariant, PTL

\* A restore stages only a whole image that has run confirmed
\* (factory_backup_image_size, capture_copy_and_bless).
THEOREM RestoreStagesWhole == Spec => RestoreStagesConfirmed
  <1>1. MaintInv /\ [Next]_vars =>
          [job.at = "fill" /\ job'.at = "reboot" =>
             Whole(slot1') /\ slot1'.img \in hist.confirmed]_vars
    <2>. SUFFICES ASSUME MaintInv, [Next]_vars, job.at = "fill", job'.at = "reboot"
                  PROVE  Whole(slot1') /\ slot1'.img \in hist.confirmed
      OBVIOUS
    <2>1. NextItem \/ StartItem \/ capture_copy_and_bless \/ copy_backend_to_slot1
          \/ job' = job \/ job' = NoJob
      BY DEF Next, vars, pvars, rvars, RxStep, JobStep, Reboot, PowerLoss, Boot, EndItem,
         ItemFails,
         PostAlive, PostSilent, DiveChanges, UDS_ProcessRequest, HandleDiagnosticSessionControl,
         Refusals, Refuse, ota_handle_request_download, ota_erase_and_init_download, OtaEraseFails,
         ota_handle_transfer_data, TransferDataFails, ota_handle_transfer_exit,
         ota_handle_routine_control, ActivateFails, writeForceRevertDID, writeFactoryFlashEraseDID,
         writeNvsEraseDID, writeRestoreFactoryDID, writeFactoryCaptureDID, StreamBegins, StreamEnds
    <2>2. copy_backend_to_slot1
      <3>1. ~StartItem /\ ~capture_copy_and_bless
        BY DEF StartItem, capture_copy_and_bless
      <3>2. NextItem => job = NoJob
        BY Zenon DEF NextItem
      <3>3. job # NoJob /\ job' # job /\ job' # NoJob
        BY DEF NoJob
      <3>. QED BY <2>1, <3>1, <3>2, <3>3
    <2>3. slot1' = slot1 /\ slot1.n = fac.n
      BY <2>2 DEF copy_backend_to_slot1, EndItem, NoJob
    <2>. QED BY <2>3, MaintConstants DEF MaintInv, BackupInv, Whole
  <1>. QED BY <1>1, MaintInvariant, PTL DEF Spec, RestoreStagesConfirmed

=============================================================================
