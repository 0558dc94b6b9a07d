--------------------------- MODULE ControlProofs ---------------------------
(***************************************************************************)
(* Proofs about the two ends of the control loop: the cells it reads the   *)
(* PPO2 from, and the valves it acts with. The two parts are independent:  *)
(* no step of either mentions the state of the other.                      *)
(***************************************************************************)
EXTENDS Cells, Solenoid, FiniteSetTheorems, TLAPS

-----------------------------------------------------------------------------
(***************************************************************************)
(* Proofs about Cells, for every timing constant, deviation limit, set of  *)
(* readings and number of faults.                                          *)
(*                                                                         *)
(* What is shown is traced back in two halves. The vote: whatever messages *)
(* it is given, the consensus includes only cells that pass the exclusion  *)
(* tests and that another included cell confirms (VoteConfirms), and its   *)
(* value lies between them (VoteBetween). The age: a channel within the    *)
(* staleness limit carries a measurement at most one response timeout      *)
(* older than its time stamp (FreshInv).                                   *)
(*                                                                         *)
(* A broadcast request converges because the driver observes the cell,     *)
(* writes what differs and does both again: CommandInv counts what one     *)
(* lie or lost command can still spoil after the first attempt.            *)
(***************************************************************************)
LEMMA Sizes ==
  /\ MaxDeviation \in Nat /\ Staleness \in Nat /\ DigitalTimeout \in Nat
  /\ Odd \subseteq Nat /\ Others \subseteq Nat \X Nat
  BY VoteConstants, CellConstants

LEMMA MinOfTwo == ASSUME NEW a \in Int, NEW b \in Int
                  PROVE  Min({a, b}) = IF a <= b THEN a ELSE b
  <1>1. CASE a <= b  BY <1>1 DEF Min
  <1>2. CASE ~(a <= b)  BY <1>2 DEF Min
  <1>. QED  BY <1>1, <1>2

-----------------------------------------------------------------------------
(* The vote.                                                               *)

\* The sets of slots and their sizes.
LEMMA SlotSets ==
  ASSUME NEW S \in SUBSET Slots
  PROVE  \/ S = {} /\ Cardinality(S) = 0
         \/ Cardinality(S) = 1 /\ \E i \in Slots : S = {i}
         \/ S \in {{1, 2}, {1, 3}, {2, 3}} /\ Cardinality(S) = 2
         \/ S = Slots /\ Cardinality(S) = 3
  <1>1. Cardinality({}) = 0 /\ IsFiniteSet({})
    BY FS_EmptySet
  <1>2. \A i \in Slots : Cardinality({i}) = 1 /\ IsFiniteSet({i})
    BY FS_Singleton
  <1>3. \A i, j \in Slots : i # j => Cardinality({i, j}) = 2 /\ IsFiniteSet({i, j})
    <2>. SUFFICES ASSUME NEW i \in Slots, NEW j \in Slots, i # j
                  PROVE  Cardinality({i, j}) = 2 /\ IsFiniteSet({i, j})
      OBVIOUS
    <2>1. {i, j} = {i} \cup {j} /\ j \notin {i}  OBVIOUS
    <2>2. IsFiniteSet({i} \cup {j}) /\ Cardinality({i} \cup {j}) = Cardinality({i}) + 1
      BY <1>2, <2>1, FS_AddElement
    <2>. QED  BY <1>2, <2>1, <2>2
  <1>4. Cardinality(Slots) = 3
    <2>1. Slots = {1, 2} \cup {3} /\ 3 \notin {1, 2} /\ 1 \in Slots /\ 2 \in Slots
      BY DEF Slots
    <2>. DEFINE T == {1, 2}
    <2>2. Cardinality(T) = 2 /\ IsFiniteSet(T) /\ 3 \notin T  BY <1>3, <2>1
    <2>3. Slots = T \cup {3}  BY <2>1
    <2>. HIDE DEF T
    <2>4. Cardinality(T \cup {3}) = Cardinality(T) + 1
      BY <2>2, FS_AddElement
    <2>. QED  BY <2>2, <2>3, <2>4
  <1>5. \/ S = {} \/ S = {1} \/ S = {2} \/ S = {3}
        \/ S = {1, 2} \/ S = {1, 3} \/ S = {2, 3} \/ S = Slots
    <2>0. Slots = {1, 2, 3}  BY DEF Slots
    <2>1. CASE 1 \in S /\ 2 \in S
      BY <2>0, <2>1, Zenon
    <2>2. CASE 1 \in S /\ 2 \notin S
      BY <2>0, <2>2, Zenon
    <2>3. CASE 1 \notin S /\ 2 \in S
      BY <2>0, <2>3, Zenon
    <2>4. CASE 1 \notin S /\ 2 \notin S
      BY <2>0, <2>4, Zenon
    <2>. QED  BY <2>1, <2>2, <2>3, <2>4
  <1>6. 1 \in Slots /\ 2 \in Slots /\ 3 \in Slots  BY DEF Slots
  <1>7. Cardinality({1, 2}) = 2 /\ Cardinality({1, 3}) = 2 /\ Cardinality({2, 3}) = 2
    BY <1>3, <1>6
  <1>. QED  BY <1>1, <1>2, <1>4, <1>5, <1>6, <1>7

Statuses == {"ok", "degraded", "fail", "needcal"}

\* The messages of a vote.
Messages == [Slots -> [prec : Nat, status : Statuses, age : Nat]]

Usable(cells, count) == {i \in 1..count : ~Excludes(cells[i])}

\* The rounded average of two or three readings lies between them.
LEMMA AverageOfTwo ==
  ASSUME NEW cells \in Messages, NEW i \in Slots, NEW j \in Slots, i < j,
         Average(cells, {i, j}) # PPO2_FAIL
  PROVE  \E l, h \in {i, j} : /\ cells[l].prec <= Average(cells, {i, j})
                              /\ Average(cells, {i, j}) <= cells[h].prec
  <1>. DEFINE a == cells[i].prec  b == cells[j].prec
  <1>1. a \in Nat /\ b \in Nat  BY DEF Messages
  <1>2. Cardinality({i, j}) = 2
    BY SlotSets DEF Slots
  <1>3. Sum(cells, {i, j}) = a + b
    BY <1>1 DEF Sum, Slots, Messages
  <1>4. Average(cells, {i, j}) = (2 * (a + b) + 2) \div 4
    BY <1>2, <1>3 DEF Average
  <1>. HIDE DEF a, b
  <1>5. \/ a <= (2 * (a + b) + 2) \div 4 /\ (2 * (a + b) + 2) \div 4 <= b
        \/ b <= (2 * (a + b) + 2) \div 4 /\ (2 * (a + b) + 2) \div 4 <= a
    BY <1>1
  <1>. QED  BY <1>4, <1>5 DEF a, b

LEMMA AverageOfThree ==
  ASSUME NEW cells \in Messages, Average(cells, Slots) # PPO2_FAIL
  PROVE  \E l, h \in Slots : /\ cells[l].prec <= Average(cells, Slots)
                             /\ Average(cells, Slots) <= cells[h].prec
  <1>. DEFINE a == cells[1].prec  b == cells[2].prec  c == cells[3].prec
              m == (2 * (a + b + c) + 3) \div 6
  <1>1. a \in Nat /\ b \in Nat /\ c \in Nat  BY DEF Messages, Slots
  <1>2. Cardinality(Slots) = 3
    BY SlotSets DEF Slots
  <1>3. Sum(cells, Slots) = a + b + c
    BY <1>1 DEF Sum, Slots, Messages
  <1>4. Average(cells, Slots) = m
    BY <1>2, <1>3 DEF Average
  <1>. HIDE DEF a, b, c
  <1>5. (a <= m \/ b <= m \/ c <= m) /\ (m <= a \/ m <= b \/ m <= c)
    BY <1>1
  <1>. QED  BY <1>4, <1>5 DEF a, b, c, Slots

\* What a vote promises of its result.
VoteSound(cells, count, r) ==
  /\ r.include \subseteq Usable(cells, count)
  /\ \A i \in r.include : \E j \in r.include \ {i} : ~Far(cells[i].prec, cells[j].prec)
  /\ r.include # {} /\ r.ppo2 # PPO2_FAIL =>
       \E l, h \in r.include : cells[l].prec <= r.ppo2 /\ r.ppo2 <= cells[h].prec

\* Two usable cells vote together or not at all.
LEMMA TwoVote ==
  ASSUME NEW cells \in Messages, NEW count \in {2, 3}, NEW i \in Slots, NEW j \in Slots, i < j,
         Usable(cells, count) = {i, j}
  PROVE  VoteSound(cells, count, two_cell_consensus(cells, {i, j}))
  <1>0. cells[i].prec \in Nat /\ cells[j].prec \in Nat /\ i # j /\ MaxDeviation \in Nat
    BY Sizes DEF Messages, Slots
  <1>1. CASE \E k, l \in {i, j} : Far(cells[k].prec, cells[l].prec)
    <2>. DEFINE r == two_cell_consensus(cells, {i, j})
    <2>1. r = [ppo2 |-> PPO2_FAIL, include |-> {}]
      BY <1>1 DEF two_cell_consensus
    <2>2. r.include = {}
      BY <2>1
    <2>. HIDE DEF r
    <2>. QED  BY <2>2 DEF VoteSound, r
  <1>2. CASE ~\E k, l \in {i, j} : Far(cells[k].prec, cells[l].prec)
    <2>. DEFINE a == Average(cells, {i, j})
    <2>1. two_cell_consensus(cells, {i, j}) = [ppo2 |-> a, include |-> {i, j}]
      BY <1>2 DEF two_cell_consensus
    <2>2. a # PPO2_FAIL => \E l, h \in {i, j} : cells[l].prec <= a /\ a <= cells[h].prec
      BY AverageOfTwo
    <2>. HIDE DEF a
    <2>3. \A k \in {i, j} : \E l \in {i, j} \ {k} : ~Far(cells[k].prec, cells[l].prec)
      BY <1>0, <1>2, Zenon
    <2>. DEFINE r == two_cell_consensus(cells, {i, j})
    <2>4. r.ppo2 = a /\ r.include = {i, j}
      BY <2>1
    <2>. HIDE DEF r
    <2>. QED  BY <2>2, <2>3, <2>4 DEF VoteSound, r
  <1>. QED  BY <1>1, <1>2

\* Three usable cells: the outlier test decides whether all vote or the pair does.
LEMMA ThreeVote ==
  ASSUME NEW cells \in Messages, NEW count \in {2, 3}, Usable(cells, count) = Slots
  PROVE  VoteSound(cells, count, three_cell_consensus(cells))
  <1>. DEFINE d12  == Apart(cells[1].prec, cells[2].prec)
              d13  == Apart(cells[1].prec, cells[3].prec)
              d23  == Apart(cells[2].prec, cells[3].prec)
              best == IF d12 <= d13 /\ d12 <= d23 THEN <<d12, {1, 2}, 3>>
                      ELSE IF d13 <= d23 THEN <<d13, {1, 3}, 2>> ELSE <<d23, {2, 3}, 1>>
  <1>0. cells[1].prec \in Nat /\ cells[2].prec \in Nat /\ cells[3].prec \in Nat
        /\ MaxDeviation \in Nat
    BY Sizes DEF Messages, Slots
  <1>1. three_cell_consensus(cells) =
          IF best[1] > MaxDeviation THEN [ppo2 |-> PPO2_FAIL, include |-> {}]
          ELSE IF Apart(2 * cells[best[3]].prec, Sum(cells, best[2])) > 2 * MaxDeviation
          THEN [ppo2 |-> Average(cells, best[2]), include |-> best[2]]
          ELSE [ppo2 |-> Average(cells, Slots), include |-> Slots]
    BY DEF three_cell_consensus
  <1>2. PICK i \in Slots, j \in Slots, k \in Slots :
          /\ i < j /\ Slots = {i, j, k} /\ k # i /\ k # j
          /\ best = <<Apart(cells[i].prec, cells[j].prec), {i, j}, k>>
    <2>1. CASE d12 <= d13 /\ d12 <= d23
      BY <2>1 DEF Slots
    <2>2. CASE ~(d12 <= d13 /\ d12 <= d23) /\ d13 <= d23
      BY <2>2 DEF Slots
    <2>3. CASE ~(d12 <= d13 /\ d12 <= d23) /\ ~(d13 <= d23)
      BY <2>3 DEF Slots
    <2>. QED  BY <2>1, <2>2, <2>3
  <1>. HIDE DEF best
  <1>3. best[1] = Apart(cells[i].prec, cells[j].prec) /\ best[2] = {i, j} /\ best[3] = k
    BY <1>2
  <1>. DEFINE a == cells[i].prec  b == cells[j].prec  c == cells[k].prec
  <1>4. a \in Nat /\ b \in Nat /\ c \in Nat /\ i # j /\ i \in Int /\ j \in Int
    BY <1>2 DEF Messages, Slots
  <1>5. Sum(cells, {i, j}) = a + b
    BY <1>0, <1>2, <1>4 DEF Sum, Slots
  <1>6. CASE best[1] > MaxDeviation
    <2>. DEFINE r == three_cell_consensus(cells)
    <2>1. r.include = {}
      BY <1>1, <1>6
    <2>. HIDE DEF r
    <2>. QED  BY <2>1 DEF VoteSound, r
  <1>7. ASSUME ~(best[1] > MaxDeviation)
        PROVE  Apart(a, b) <= MaxDeviation /\ Apart(b, a) <= MaxDeviation
    BY <1>0, <1>3, <1>4, <1>7 DEF Apart
  <1>8. CASE ~(best[1] > MaxDeviation) /\ Apart(2 * c, a + b) > 2 * MaxDeviation
    <2>. DEFINE m == Average(cells, {i, j})
    <2>1. three_cell_consensus(cells) = [ppo2 |-> m, include |-> {i, j}]
      BY <1>1, <1>3, <1>5, <1>8
    <2>2. m # PPO2_FAIL => \E l, h \in {i, j} : cells[l].prec <= m /\ m <= cells[h].prec
      BY <1>2, AverageOfTwo
    <2>. HIDE DEF m
    <2>3. ~Far(a, b) /\ ~Far(b, a)
      BY <1>0, <1>4, <1>7, <1>8 DEF Far, Apart
    <2>4. \A x \in {i, j} : \E y \in {i, j} \ {x} : ~Far(cells[x].prec, cells[y].prec)
      BY <1>4, <2>3, Zenon
    <2>. QED  BY <1>2, <2>1, <2>2, <2>4 DEF VoteSound
  <1>9. CASE ~(best[1] > MaxDeviation) /\ ~(Apart(2 * c, a + b) > 2 * MaxDeviation)
    <2>. DEFINE m == Average(cells, Slots)
    <2>1. three_cell_consensus(cells) = [ppo2 |-> m, include |-> Slots]
      BY <1>1, <1>3, <1>5, <1>9
    <2>2. m # PPO2_FAIL => \E l, h \in Slots : cells[l].prec <= m /\ m <= cells[h].prec
      BY AverageOfThree
    <2>. HIDE DEF m
    <2>3. ~Far(a, b) /\ ~Far(b, a)
      BY <1>0, <1>4, <1>7, <1>9 DEF Far, Apart
    <2>4. ~Far(c, a) \/ ~Far(c, b)
      <3>. HIDE DEF a, b, c
      <3>. QED  BY <1>0, <1>4, <1>7, <1>9 DEF Far, Apart
    <2>5. \A x \in Slots : \E y \in Slots \ {x} : ~Far(cells[x].prec, cells[y].prec)
      BY <1>2, <1>4, <2>3, <2>4, Zenon
    <2>. QED  BY <2>1, <2>2, <2>5 DEF VoteSound
  <1>. QED  BY <1>6, <1>8, <1>9

\* Every vote is sound, and only a vote of usable cells includes one.
LEMMA VoteConfirms ==
  ASSUME NEW cells \in Messages, NEW count \in {2, 3}
  PROVE  VoteSound(cells, count, consensus_calculate(cells, count))
  <1>. DEFINE S == Usable(cells, count)  r == consensus_calculate(cells, count)
  <1>1. S \in SUBSET Slots
    BY DEF Usable, Slots
  <1>2. r = CASE Cardinality(S) = 0 -> [ppo2 |-> PPO2_FAIL, include |-> {}]
              [] Cardinality(S) = 1 ->
                   [ppo2 |-> ppo2_centibar_to_wire(Sum(cells, S)), include |-> {}]
              [] Cardinality(S) = 2 -> two_cell_consensus(cells, S)
              [] Cardinality(S) = 3 -> three_cell_consensus(cells)
    BY DEF consensus_calculate, Usable
  <1>. HIDE DEF S, r
  <1>3. CASE Cardinality(S) \in {0, 1}
    <2>1. r.include = {}
      BY <1>2, <1>3
    <2>. QED  BY <2>1 DEF VoteSound, r
  <1>4. CASE Cardinality(S) = 2
    <2>1. r = two_cell_consensus(cells, S)
      BY <1>2, <1>4
    <2>2. PICK i \in Slots, j \in Slots : i < j /\ S = {i, j}
      BY <1>1, <1>4, SlotSets DEF Slots
    <2>. QED  BY <2>1, <2>2, TwoVote DEF r, S
  <1>5. CASE Cardinality(S) = 3
    <2>1. r = three_cell_consensus(cells)
      BY <1>2, <1>5
    <2>2. S = Slots
      BY <1>1, <1>5, SlotSets
    <2>. QED  BY <2>1, <2>2, ThreeVote DEF r, S
  <1>. QED  BY <1>1, <1>3, <1>4, <1>5, SlotSets

-----------------------------------------------------------------------------
(* What is shown.                                                          *)

\* The channel and the build are well typed.
ChannelType ==
  /\ chan.prec \in Nat /\ chan.age \in Nat /\ chan.taken \in Nat /\ chan.status \in Statuses
  /\ cfg.count \in {2, 3}

\* A channel within the staleness limit carries a measurement at most one response
\* timeout older than its time stamp.
ChannelFresh ==
  chan.status = "ok" /\ chan.age <= Staleness => chan.taken <= DigitalTimeout + chan.age

LEMMA SnapshotType ==
  ASSUME ChannelType, NEW o \in Others, NEW readable \in BOOLEAN
  PROVE  /\ Snapshot(readable, o) \in Messages
         /\ Snapshot(readable, o)[1] = read_cell_or_fail(readable)
         /\ cfg.count = 2 => Snapshot(readable, o)[3].status = "fail"
  <1>0. o \in Nat \X Nat /\ \A i \in Slots : i = 1 \/ o[i - 1] \in Nat
    BY Sizes DEF Slots
  <1>1. read_cell_or_fail(readable) \in [prec : Nat, status : Statuses, age : Nat]
    BY DEF read_cell_or_fail, ChannelType, Statuses
  <1>2. Snapshot(readable, o) \in Messages
    <2>. DEFINE m(i) == IF i = 1 THEN read_cell_or_fail(readable)
                        ELSE [prec |-> IF i > cfg.count THEN 0 ELSE o[i - 1],
                              status |-> IF i > cfg.count \/ o[i - 1] = 0 THEN "fail" ELSE "ok",
                              age |-> 0]
    <2>1. \A i \in Slots : m(i) \in [prec : Nat, status : Statuses, age : Nat]
      <3>. SUFFICES ASSUME NEW i \in Slots, i # 1
                    PROVE  m(i) \in [prec : Nat, status : Statuses, age : Nat]
        BY <1>1
      <3>. DEFINE p == IF i > cfg.count THEN 0 ELSE o[i - 1]
                  t == IF i > cfg.count \/ o[i - 1] = 0 THEN "fail" ELSE "ok"
      <3>1. p \in Nat /\ t \in Statuses
        BY <1>0 DEF Statuses
      <3>2. m(i) = [prec |-> p, status |-> t, age |-> 0]
        OBVIOUS
      <3>. HIDE DEF p, t, m
      <3>. QED  BY <3>1, <3>2
    <2>. HIDE DEF m
    <2>2. Snapshot(readable, o) = [i \in Slots |-> m(i)]
      BY DEF Snapshot, m
    <2>. QED  BY <2>1, <2>2 DEF Messages
  <1>3. Snapshot(readable, o)[1] = read_cell_or_fail(readable)
    BY DEF Snapshot, Slots
  <1>4. cfg.count = 2 => Snapshot(readable, o)[3].status = "fail"
    BY DEF Snapshot, Slots
  <1>. QED  BY <1>2, <1>3, <1>4

\* What the handset is told follows from the soundness of the vote and the age of
\* the channel.
LEMMA ShownLemma == ASSUME ChannelType, ChannelFresh  PROVE ShownIsVoted
  <1>. SUFFICES ASSUME NEW o \in Others, NEW readable \in BOOLEAN, NEW heard \in BOOLEAN,
              NEW calibrating \in BOOLEAN
       PROVE LET cells == Snapshot(readable, o)
                 r     == consensus_calculate(cells, cfg.count)
                 tx    == divecan_ppo2_tx_thread(heard, r, cells, calibrating)
                 real  == Confirmed(cells)
             IN  /\ tx.include \ {3} \subseteq real
                 /\ 3 \in tx.include =>
                      IF cfg.count = 2 THEN Cardinality(real) > 1 ELSE 3 \in real
                 /\ r.include # {} /\ r.ppo2 # PPO2_FAIL =>
                      \E i, j \in r.include : cells[i].prec <= r.ppo2 /\ r.ppo2 <= cells[j].prec
                 /\ ~heard => tx.include = {} /\ tx.failed = Slots
                 /\ heard /\ (tx.include = {} \/ tx.failed = Slots) =>
                      \/ alarm_ppo2_reasons(r, 40, 160) = {"invalid"}
                      \/ ~calibrating /\ \E i \in Slots : cells[i].status = "needcal"
    BY DEF ShownIsVoted
  <1>. DEFINE cells == Snapshot(readable, o)
              r     == consensus_calculate(cells, cfg.count)
              tx    == divecan_ppo2_tx_thread(heard, r, cells, calibrating)
              real  == Confirmed(cells)
              masked == ~calibrating /\ \E i \in Slots : cells[i].status = "needcal"
              unusable == IF masked THEN Slots ELSE {i \in Slots : cells[i].status = "fail"}
              lost  == [ppo2 |-> PPO2_FAIL, include |-> {}]
  <1>0. cfg.count \in {2, 3} /\ chan.age \in Nat /\ chan.taken \in Nat
    BY DEF ChannelType
  <1>1. cells \in Messages /\ cells[1] = read_cell_or_fail(readable)
        /\ (cfg.count = 2 => cells[3].status = "fail")
    BY SnapshotType
  <1>2. VoteSound(cells, cfg.count, r)
    BY <1>0, <1>1, VoteConfirms
  <1>3. ASSUME heard
        PROVE  /\ tx.include = IF cfg.count = 2 /\ ~masked
                          THEN (r.include \ {3}) \cup
                               (IF r.ppo2 # PPO2_FAIL /\ Cardinality(r.include) > 0
                                  THEN {3} ELSE {})
                          ELSE r.include
               /\ tx.failed = IF cfg.count = 2 /\ ~masked /\ r.ppo2 # PPO2_FAIL
                         THEN unusable \ {3} ELSE unusable
    <2>. DEFINE st == [i \in Slots |-> IF heard THEN cells[i].status ELSE "fail"]
                f  == divecan_set_failed_cells(st, calibrating)
    <2>1. \A i \in Slots : st[i] = cells[i].status
      BY <1>3
    <2>. HIDE DEF st, cells
    <2>2. f.masked = masked /\ f.slots = unusable
      BY <2>1 DEF divecan_set_failed_cells
    <2>. HIDE DEF f, masked, unusable, r
    <2>3. tx = [include |-> IncludedSlots(r, f.masked, cfg.count = 2),
                failed  |-> IF cfg.count = 2 /\ ~f.masked /\ r.ppo2 # PPO2_FAIL
                              THEN f.slots \ {3} ELSE f.slots]
      BY <1>3 DEF divecan_ppo2_tx_thread, f, st
    <2>. QED  BY <2>2, <2>3 DEF IncludedSlots, consensus_confidence
  <1>13. ASSUME ~heard  PROVE tx.include = {} /\ tx.failed = Slots
    <2>. DEFINE st == [i \in Slots |-> IF heard THEN cells[i].status ELSE "fail"]
                f  == divecan_set_failed_cells(st, calibrating)
    <2>1. \A i \in Slots : st[i] = "fail"
      BY <1>13
    <2>. HIDE DEF st, cells
    <2>2. f.masked = FALSE /\ f.slots = Slots
      BY <2>1 DEF divecan_set_failed_cells
    <2>. HIDE DEF f, r
    <2>3. tx = [include |-> IncludedSlots(lost, f.masked, cfg.count = 2),
                failed  |-> IF cfg.count = 2 /\ ~f.masked /\ lost.ppo2 # PPO2_FAIL
                              THEN f.slots \ {3} ELSE f.slots]
      BY <1>13 DEF divecan_ppo2_tx_thread, f, st
    <2>. QED  BY <2>2, <2>3 DEF IncludedSlots
  <1>. HIDE DEF cells, r, tx, masked, unusable, lost
  <1>4. r.include \subseteq Slots /\ (cfg.count = 2 => r.include \subseteq {1, 2})
    BY <1>0, <1>2 DEF VoteSound, Usable, Slots
  <1>5. \A i \in r.include : /\ cells[i].status = "ok" /\ cells[i].prec # 0
                             /\ i = 1 => chan.taken <= DigitalTimeout + Staleness
    <2>. SUFFICES ASSUME NEW i \in r.include
                  PROVE  /\ cells[i].status = "ok" /\ cells[i].prec # 0
                         /\ i = 1 => chan.taken <= DigitalTimeout + Staleness
      OBVIOUS
    <2>1. ~Excludes(cells[i])
      BY <1>2 DEF VoteSound, Usable
    <2>2. cells[i].age \in Nat
      BY <1>1, <1>4 DEF Messages
    <2>3. cells[i].status = "ok" /\ cells[i].prec # 0 /\ cells[i].age <= Staleness
      BY <2>1, <2>2, Sizes DEF Excludes
    <2>4. i = 1 => chan.status = "ok" /\ chan.age <= Staleness
      BY <1>1, <2>3 DEF read_cell_or_fail
    <2>. QED  BY <1>0, <2>3, <2>4, Sizes DEF ChannelFresh
  <1>6. r.include \subseteq real
    <2>1. \A i \in r.include : \E j \in r.include \ {i} : ~Far(cells[i].prec, cells[j].prec)
      BY <1>2 DEF VoteSound
    <2>. QED  BY <1>4, <1>5, <2>1 DEF Confirmed
  <1>7. real \in SUBSET Slots
    BY DEF Confirmed
  <1>. HIDE DEF real
  <1>8. r.include # {} => Cardinality(r.include) > 1 /\ Cardinality(real) > 1
    <2>. SUFFICES ASSUME NEW i \in r.include
                  PROVE  Cardinality(r.include) > 1 /\ Cardinality(real) > 1
      OBVIOUS
    <2>1. PICK j \in r.include : j # i
      BY <1>2 DEF VoteSound
    <2>2. \A S \in SUBSET Slots : i \in S /\ j \in S => Cardinality(S) > 1
      BY <2>1, SlotSets
    <2>. QED  BY <1>4, <1>6, <1>7, <2>1, <2>2
  <1>9. tx.include \ {3} \subseteq real
    BY <1>3, <1>6, <1>13
  <1>10. 3 \in tx.include => IF cfg.count = 2 THEN Cardinality(real) > 1 ELSE 3 \in real
    <2>1. CASE cfg.count = 2
      <3>1. 3 \in tx.include => Cardinality(r.include) > 0
        BY <1>3, <1>4, <1>13, <2>1
      <3>2. r.include = {} => Cardinality(r.include) = 0
        BY FS_EmptySet
      <3>. QED  BY <1>8, <2>1, <3>1, <3>2
    <2>2. CASE cfg.count = 3
      BY <1>3, <1>6, <1>13, <2>2
    <2>. QED  BY <1>0, <2>1, <2>2
  <1>11. r.include # {} /\ r.ppo2 # PPO2_FAIL =>
           \E i, j \in r.include : cells[i].prec <= r.ppo2 /\ r.ppo2 <= cells[j].prec
    BY <1>2 DEF VoteSound
  <1>12. ASSUME heard, tx.include = {} \/ tx.failed = Slots, ~masked
         PROVE  alarm_ppo2_reasons(r, 40, 160) = {"invalid"}
    <2>1. r.ppo2 = PPO2_FAIL \/ r.include = {}
      <3>1. CASE tx.include = {}
        BY <1>3, <1>4, <1>12, <3>1
      <3>2. CASE tx.failed = Slots /\ r.ppo2 # PPO2_FAIL
        <4>1. unusable = Slots
          BY <1>3, <1>12, <3>2 DEF Slots, unusable
        <4>. QED  BY <1>4, <1>5, <1>12, <4>1 DEF unusable
      <3>. QED  BY <1>12, <3>1, <3>2
    <2>2. r.include = {} => Cardinality(r.include) = 0
      BY FS_EmptySet
    <2>. QED  BY <2>1, <2>2 DEF alarm_ppo2_reasons, consensus_confidence
  <1>. QED
    BY <1>9, <1>10, <1>11, <1>12, <1>13 DEF cells, r, tx, real, masked

-----------------------------------------------------------------------------
(* The age of a measurement on its way from the wire to the channel.       *)

CellFields == {"pc", "waited", "raw", "last", "taken", "status", "known", "mode", "phase",
               "req", "want"}

\* A frame as the callback stores it.
FrameOK(f) ==
  /\ DOMAIN f = {"k", "v", "age"} /\ f.v \in Nat /\ f.age \in Nat

\* The measurement of a cell: its reading, the time since it was heard and since it
\* was taken.
CellOK(c) ==
  /\ DOMAIN c = CellFields
  /\ c.raw \in Nat /\ c.last \in Nat /\ c.taken \in Nat /\ c.status \in Statuses

ReadType ==
  /\ CellOK(cell) /\ FrameOK(rx.msg) /\ DOMAIN rx = {"sem", "msg"}
  /\ ChannelType
  /\ DOMAIN chan = {"prec", "status", "age", "taken"}
  /\ DOMAIN cfg = {"kind", "family", "enforce", "count", "stored"}

\* The semaphore is given only while the receiver listens; the DiveO2 thread never
\* sleeps without listening.
ListenInv ==
  /\ rx.sem => Listening
  /\ cfg.kind = "diveo2" => cell.pc # "sleep"

\* A frame waiting to be taken has just arrived, and a cell heard within the response
\* timeout was measured when it was heard.
Timely(c) == c.last <= DigitalTimeout => c.taken <= c.last

FreshInv ==
  /\ rx.sem /\ Heard(rx.msg) => rx.msg.age = 0
  /\ Timely(cell)
  /\ ChannelFresh

ShownInv == ReadType /\ ListenInv /\ FreshInv

\* A reading heard now is timely.
LEMMA ProcessFresh ==
  ASSUME NEW c, NEW f, CellOK(c), FrameOK(f), Timely(c), Heard(f) => f.age = 0
  PROVE  CellOK(process_rx(c, f)) /\ Timely(process_rx(c, f))
  <1>1. CASE Heard(f)
    BY <1>1, Sizes DEF Heard, process_rx, CellOK, FrameOK, Timely, CellFields, Statuses
  <1>2. CASE ~Heard(f) /\ f.k = "bad"
    BY <1>2 DEF Heard, process_rx, CellOK, Timely, CellFields, Statuses
  <1>3. CASE ~Heard(f) /\ f.k # "bad"
    BY <1>3 DEF Heard, process_rx
  <1>. QED  BY <1>1, <1>2, <1>3

\* The frame a wait ends with is a new one or none.
LEMMA WaitFresh ==
  ASSUME ReadType, FreshInv, NEW f \in {rx.msg, NoFrame}, WaitEnds(f)
  PROVE  FrameOK(f) /\ (Heard(f) => f.age = 0)
  BY DEF WaitEnds, NoFrame, FrameOK, Heard, ReadType, FreshInv

LEMMA AtKeeps ==
  ASSUME NEW c, NEW pc, CellOK(c), Timely(c)
  PROVE  CellOK(At(c, pc)) /\ Timely(At(c, pc)) /\ At(c, pc).pc = pc
  BY DEF At, CellOK, Timely, CellFields

\* A publication puts out what the cell holds or nothing; a good status only for a
\* cell heard within the timeout.
LEMMA PublishFresh ==
  ASSUME NEW c, NEW s \in Statuses, CellOK(c), Timely(c), ChannelFresh, Publish(c, s),
         ChannelType, DOMAIN chan = {"prec", "status", "age", "taken"}, UNCHANGED cfg,
         s = "ok" => c.last <= DigitalTimeout
  PROVE  /\ CellOK(cell') /\ Timely(cell') /\ cell'.pc = c.pc
         /\ ChannelType' /\ ChannelFresh' /\ DOMAIN chan' = {"prec", "status", "age", "taken"}
  <1>1. CellOK(cell') /\ Timely(cell') /\ cell'.pc = c.pc
    BY DEF Publish, CellOK, Timely, CellFields
  <1>2. CASE UNCHANGED chan
    BY <1>1, <1>2 DEF ChannelType, ChannelFresh
  <1>3. CASE chan' = [prec |-> c.raw, status |-> s, age |-> 0, taken |-> c.taken]
    BY <1>1, <1>3, Sizes DEF ChannelType, ChannelFresh, CellOK, Timely
  <1>. QED  BY <1>1, <1>2, <1>3 DEF Publish

\* A thread step that empties the semaphore and leaves the channel alone.
LEMMA SyncedKeeps ==
  ASSUME ShownInv, CellOK(cell'), Timely(cell'), rx' = Synced, UNCHANGED <<cfg, chan>>,
         cfg.kind = "diveo2" => cell'.pc # "sleep"
  PROVE  ShownInv'
  <1>1. rx'.sem = FALSE /\ rx'.msg = rx.msg /\ DOMAIN rx' = {"sem", "msg"}
    BY DEF Synced, ShownInv, ReadType
  <1>. QED
    BY <1>1 DEF ShownInv, ReadType, ListenInv, FreshInv, ChannelType, ChannelFresh, Listening

\* A step of the wire that hands over a new frame, or none.
LEMMA FedKeeps ==
  ASSUME ShownInv, NEW f, FrameOK(f), f.age = 0, diveo2_feed_rx(f), UNCHANGED <<cfg, cell, chan>>
  PROVE  ShownInv'
  BY DEF diveo2_feed_rx, ShownInv, ReadType, ListenInv, FreshInv, ChannelType, ChannelFresh,
         Listening

\* The same for a step that touches none of them.
LEMMA IdleKeeps ==
  ASSUME ShownInv, UNCHANGED <<cfg, cell, rx, chan>>
  PROVE  ShownInv'
  BY DEF ShownInv, ReadType, ListenInv, FreshInv, ChannelType, ChannelFresh, Listening

LEMMA CycleKeeps ==
  ASSUME ShownInv, StartCycle(cell), UNCHANGED <<cfg, chan>>, cell.pc # "answer"
  PROVE  ShownInv'
  <1>0. CellOK(cell) /\ Timely(cell)
    BY DEF ShownInv, ReadType, FreshInv
  <1>1. \E pc \in {"listen", "probe", "poll", "stream"} : cell' = At(cell, pc)
    BY DEF StartCycle
  <1>2. CellOK(cell') /\ Timely(cell') /\ cell'.pc # "sleep" /\ cell'.pc # "answer"
    BY <1>0, <1>1, AtKeeps
  <1>3. rx' = Synced \/ rx' = rx
    BY DEF StartCycle
  <1>4. CASE rx' = Synced
    BY <1>2, <1>4, SyncedKeeps
  <1>5. CASE rx' = rx
    BY <1>2, <1>5 DEF ShownInv, ReadType, ListenInv, FreshInv, ChannelType, ChannelFresh,
                      Listening
  <1>. QED  BY <1>3, <1>4, <1>5

\* A thread step that publishes.
LEMMA PublishKeeps ==
  ASSUME ShownInv, NEW s \in Statuses, NEW pc, s = "ok" => cell.last <= DigitalTimeout,
         Publish(At(cell, pc), s), UNCHANGED <<cfg, rx>>, cell.pc # "answer",
         cfg.kind = "diveo2" => pc # "sleep"
  PROVE  ShownInv'
  <1>. DEFINE c == At(cell, pc)
  <1>1. CellOK(cell) /\ Timely(cell) /\ ChannelFresh /\ ChannelType
        /\ DOMAIN chan = {"prec", "status", "age", "taken"}
    BY DEF ShownInv, ReadType, FreshInv
  <1>2. CellOK(c) /\ Timely(c) /\ c.pc = pc
    BY <1>1, AtKeeps
  <1>3. c.last = cell.last
    BY <1>1 DEF At, CellOK, CellFields
  <1>. HIDE DEF c
  <1>4. /\ CellOK(cell') /\ Timely(cell') /\ cell'.pc = pc
        /\ ChannelType' /\ ChannelFresh' /\ DOMAIN chan' = {"prec", "status", "age", "taken"}
    BY <1>1, <1>2, <1>3, PublishFresh DEF c
  <1>. QED  BY <1>4 DEF ShownInv, ReadType, ListenInv, FreshInv, Listening

LEMMA ShownTick == ASSUME ShownInv, TimePasses  PROVE ShownInv'
  <1>0. Cap \in Nat /\ Staleness \in Nat /\ DigitalTimeout \in Nat
        /\ Cap = DigitalTimeout + Staleness + 2
    BY Sizes DEF Cap
  <1>1. \A a \in Nat, cap \in Nat : Older(a, cap) = IF a + 1 <= cap THEN a + 1 ELSE cap
    BY MinOfTwo DEF Older
  <1>2. CellOK(cell') /\ Timely(cell')
    <2>. DEFINE l == Older(cell.last, DigitalTimeout + 1)  t == Older(cell.taken, Cap)
                p == IF cell.pc = "sleep" THEN "top" ELSE cell.pc
                w == IF cell.pc = "sleep" THEN 0 ELSE cell.waited + 1
    <2>1. cell' = [cell EXCEPT !.pc = p, !.waited = w, !.last = l, !.taken = t]
      BY DEF TimePasses
    <2>2. CellOK(cell) /\ Timely(cell)
      BY DEF ShownInv, ReadType, FreshInv
    <2>3. l \in Nat /\ t \in Nat /\ (l <= DigitalTimeout => t <= l)
      BY <1>0, <1>1, <2>2 DEF CellOK, Timely
    <2>. HIDE DEF l, t, p, w
    <2>. QED  BY <2>1, <2>2, <2>3 DEF CellOK, Timely, CellFields
  <1>3. cell'.pc # "sleep"
    <2>1. cell'.pc = IF cell.pc = "sleep" THEN "top" ELSE cell.pc
      BY DEF TimePasses, ShownInv, ReadType, CellOK, CellFields
    <2>. QED  BY <2>1
  <1>4. ~rx.sem
    BY DEF TimePasses, ShownInv, ListenInv, Listening
  <1>5. FrameOK(rx'.msg) /\ DOMAIN rx' = {"sem", "msg"} /\ rx'.sem = rx.sem
    <2>. DEFINE a == IF rx.msg.k = "none" THEN 0 ELSE Older(rx.msg.age, Cap)
    <2>1. rx' = [rx EXCEPT !.msg = [rx.msg EXCEPT !.age = a]]
      BY DEF TimePasses
    <2>2. a \in Nat
      BY <1>0, <1>1 DEF ShownInv, ReadType, FrameOK
    <2>. HIDE DEF a
    <2>. QED  BY <2>1, <2>2 DEF ShownInv, ReadType, FrameOK
  <1>6. ChannelType' /\ ChannelFresh' /\ DOMAIN chan' = {"prec", "status", "age", "taken"}
    <2>. DEFINE g == Older(chan.age, Staleness + 1)  t == Older(chan.taken, Cap)
    <2>1. chan' = [chan EXCEPT !.age = g, !.taken = t] /\ cfg' = cfg
      BY DEF TimePasses
    <2>2. ChannelType /\ ChannelFresh /\ DOMAIN chan = {"prec", "status", "age", "taken"}
      BY DEF ShownInv, ReadType, FreshInv
    <2>3. g \in Nat /\ t \in Nat
          /\ (chan.status = "ok" /\ g <= Staleness => t <= DigitalTimeout + g)
      BY <1>0, <1>1, <2>2 DEF ChannelType, ChannelFresh
    <2>. HIDE DEF g, t
    <2>. QED  BY <2>1, <2>2, <2>3 DEF ChannelType, ChannelFresh
  <1>. QED
    BY <1>2, <1>3, <1>4, <1>5, <1>6 DEF ShownInv, ReadType, ListenInv, FreshInv, TimePasses

\* The wire: every frame is stored as it arrives. An O2S reception that ends without
\* an answer must not give the old frame again, which is what Stops says.
LEMMA ShownWire ==
  ASSUME ShownInv, Stops \subseteq {"echo"},
         \/ DeviceSends \/ DeviceErrs \/ O2sStops \/ DeviceDies \/ DeviceRevives \/ Brownout
  PROVE  ShownInv'
  <1>1. CASE DeviceSends
    <2>1. \E e \in Emits : diveo2_feed_rx([k |-> Kind(e[2]), v |-> Normal, age |-> 0])
      BY <1>1 DEF DeviceSends
    <2>2. PICK k : diveo2_feed_rx([k |-> k, v |-> Normal, age |-> 0])
      BY <2>1
    <2>3. FrameOK([k |-> k, v |-> Normal, age |-> 0])
      BY DEF FrameOK, Normal
    <2>. QED  BY <1>1, <2>2, <2>3, FedKeeps DEF DeviceSends
  <1>2. CASE DeviceErrs
    <2>1. \/ UNCHANGED rx
          \/ \E k, v : v \in Nat /\ diveo2_feed_rx([k |-> k, v |-> v, age |-> 0])
      BY <1>2, Sizes DEF DeviceErrs, Normal
    <2>2. CASE UNCHANGED rx
      BY <1>2, <2>2, IdleKeeps DEF DeviceErrs
    <2>3. ASSUME NEW k, NEW v \in Nat, diveo2_feed_rx([k |-> k, v |-> v, age |-> 0])
          PROVE  ShownInv'
      <3>1. FrameOK([k |-> k, v |-> v, age |-> 0])
        BY DEF FrameOK
      <3>. QED  BY <1>2, <2>3, <3>1, FedKeeps DEF DeviceErrs
    <2>. QED  BY <2>1, <2>2, <2>3
  <1>3. CASE O2sStops
    <2>1. rx' = [sem |-> TRUE, msg |-> [k |-> "other", v |-> 0, age |-> 0]]
      BY <1>3 DEF O2sStops
    <2>2. cfg.kind = "o2s" /\ cell.pc = "answer" /\ UNCHANGED <<cfg, cell, chan>>
      BY <1>3 DEF O2sStops
    <2>. QED
      BY <2>1, <2>2 DEF ShownInv, ReadType, ListenInv, FreshInv, ChannelType, ChannelFresh,
                        Listening, FrameOK, Heard
  <1>4. CASE DeviceDies \/ DeviceRevives \/ Brownout
    BY <1>4, IdleKeeps DEF DeviceDies, DeviceRevives, Brownout
  <1>. QED  BY <1>1, <1>2, <1>3, <1>4

\* The DiveO2 thread.
LEMMA ShownDiveO2 ==
  ASSUME ShownInv,
         \/ diveo2_cell_thread \/ diveo2_apply_broadcast \/ Settle \/ Resume
         \/ diveo2_detect_step \/ diveo2_wait_frame \/ diveo2_broadcast
  PROVE  ShownInv'
  <1>0. /\ CellOK(cell) /\ Timely(cell) /\ ReadType /\ FreshInv
        /\ \A f \in {rx.msg, NoFrame} : WaitEnds(f) =>
             CellOK(process_rx(cell, f)) /\ Timely(process_rx(cell, f))
    BY WaitFresh, ProcessFresh DEF ShownInv, ReadType, FreshInv
  <1>1. CASE diveo2_cell_thread
    <2>1. CASE cell.known /\ cell.req # "none"
      <3>1. cell' = [At(cell, "observe") EXCEPT !.req = "none", !.want = cell.req]
            /\ rx' = Synced /\ UNCHANGED <<cfg, chan>>
        BY <1>1, <2>1 DEF diveo2_cell_thread
      <3>2. CellOK(cell') /\ Timely(cell') /\ cell'.pc = "observe"
        BY <1>0, <3>1 DEF At, CellOK, Timely, CellFields
      <3>. QED  BY <3>1, <3>2, SyncedKeeps
    <2>2. CASE ~(cell.known /\ cell.req # "none")
      BY <1>1, <2>2, CycleKeeps DEF diveo2_cell_thread
    <2>. QED  BY <2>1, <2>2
  <1>2. CASE diveo2_apply_broadcast
    <2>1. PICK pc \in {"observe", "verify"}, next \in {"settle", "cycle"} :
            Observe(pc, next, TRUE)
      BY <1>2 DEF diveo2_apply_broadcast
    <2>2. PICK f \in {rx.msg, NoFrame} :
            /\ WaitEnds(f)
            /\ cell' = At(IF pc = "verify" THEN SetsBroadcast(process_rx(cell, f))
                          ELSE process_rx(cell, f), next)
      BY <2>1 DEF Observe
    <2>. DEFINE c == process_rx(cell, f)
    <2>3. CellOK(c) /\ Timely(c)
      BY <1>0, <2>2
    <2>. HIDE DEF c
    <2>4. CellOK(SetsBroadcast(c)) /\ Timely(SetsBroadcast(c))
      BY <2>3 DEF SetsBroadcast, CellOK, Timely, CellFields
    <2>5. CellOK(cell') /\ Timely(cell') /\ cell'.pc = next
      BY <2>2, <2>3, <2>4, AtKeeps DEF c
    <2>6. rx' = Synced /\ UNCHANGED <<cfg, chan>>
      BY <2>1 DEF Observe
    <2>. QED  BY <2>5, <2>6, SyncedKeeps
  <1>3. CASE Settle
    <2>1. CellOK(cell') /\ Timely(cell') /\ cell'.pc = "verify"
      BY <1>0, <1>3, AtKeeps DEF Settle
    <2>. QED  BY <1>3, <2>1, SyncedKeeps DEF Settle
  <1>4. CASE Resume
    BY <1>4, CycleKeeps DEF Resume
  <1>5. CASE diveo2_detect_step
    <2>. DEFINE d(f) == process_rx(cell, f)
                g    == IF cell.pc = "listen" THEN "broadcast" ELSE "polled"
                p(f) == IF d(f).known THEN At(d(f), "publish").phase
                        ELSE (At(d(f), "publish").phase + 1) % 3
                m(f) == IF d(f).known /\ cfg.enforce /\ g = "polled" THEN "broadcast"
                        ELSE IF d(f).known THEN g ELSE At(d(f), "publish").mode
    <2>1. PICK f \in {rx.msg, NoFrame} :
            /\ WaitEnds(f)
            /\ cell' = [At(d(f), "publish") EXCEPT !.phase = p(f), !.mode = m(f)]
      BY <1>5 DEF diveo2_detect_step
    <2>. HIDE DEF p, m
    <2>. DEFINE c == At(process_rx(cell, f), "publish")
    <2>2. CellOK(c) /\ Timely(c) /\ c.pc = "publish"
      BY <1>0, <2>1, AtKeeps
    <2>. HIDE DEF c
    <2>3. cell' = [c EXCEPT !.phase = p(f), !.mode = m(f)]
      BY <2>1 DEF c
    <2>4. CellOK(cell') /\ Timely(cell') /\ cell'.pc = "publish"
      BY <2>2, <2>3 DEF CellOK, Timely, CellFields
    <2>. QED  BY <1>5, <2>4, SyncedKeeps DEF diveo2_detect_step
  <1>6. CASE diveo2_wait_frame
    <2>1. CellOK(cell') /\ Timely(cell') /\ cell'.pc = "publish"
      BY <1>0, <1>6, AtKeeps DEF diveo2_wait_frame
    <2>. QED  BY <1>6, <2>1, SyncedKeeps DEF diveo2_wait_frame
  <1>7. CASE diveo2_broadcast
    <2>1. Judged(cell) \in Statuses /\ (Judged(cell) = "ok" => cell.last <= DigitalTimeout)
      BY <1>0, Sizes DEF Judged, CellOK, Statuses
    <2>. QED  BY <1>7, <2>1, PublishKeeps DEF diveo2_broadcast
  <1>. QED  BY <1>1, <1>2, <1>3, <1>4, <1>5, <1>6, <1>7

\* The O2S and the analog thread, a request and the end of a calibration.
LEMMA ShownOthers ==
  ASSUME ShownInv,
         \/ o2s_cell_thread \/ o2s_process_rx \/ O2sTimeout \/ o2s_broadcast
         \/ analog_adc_read \/ analog_publish
         \/ diveo2_request_broadcast \/ cal_done_cb
  PROVE  ShownInv'
  <1>0. CellOK(cell) /\ Timely(cell) /\ FrameOK(rx.msg)
        /\ (rx.sem /\ Heard(rx.msg) => rx.msg.age = 0)
        /\ DOMAIN rx = {"sem", "msg"}
    BY DEF ShownInv, ReadType, FreshInv
  <1>1. CASE o2s_cell_thread
    <2>1. CellOK(cell') /\ Timely(cell')
      BY <1>0, <1>1, AtKeeps DEF o2s_cell_thread
    <2>. QED  BY <1>1, <2>1, SyncedKeeps DEF o2s_cell_thread
  <1>2. CASE o2s_process_rx
    <2>1. CellOK(cell') /\ Timely(cell')
      BY <1>0, <1>2, AtKeeps, ProcessFresh DEF o2s_process_rx
    <2>. QED  BY <1>2, <2>1, SyncedKeeps DEF o2s_process_rx
  <1>3. CASE O2sTimeout
    <2>1. CellOK(cell') /\ Timely(cell')
      BY <1>0, <1>3, AtKeeps DEF O2sTimeout
    <2>2. FrameOK(rx'.msg) /\ rx'.sem = FALSE /\ DOMAIN rx' = {"sem", "msg"}
      <3>1. PICK m \in {rx.msg, [NoFrame EXCEPT !.k = "other"]} :
              rx' = [sem |-> FALSE, msg |-> m]
        BY <1>3 DEF O2sTimeout
      <3>2. FrameOK(m)
        BY <1>0 DEF FrameOK, NoFrame
      <3>. QED  BY <3>1, <3>2
    <2>3. cfg.kind = "o2s" /\ UNCHANGED <<cfg, chan>>
      BY <1>3 DEF O2sTimeout
    <2>. QED
      BY <2>1, <2>2, <2>3 DEF ShownInv, ReadType, ListenInv, FreshInv, ChannelType, ChannelFresh
  <1>4. CASE o2s_broadcast
    <2>1. Judged(cell) \in Statuses /\ (Judged(cell) = "ok" => cell.last <= DigitalTimeout)
      BY <1>0, Sizes DEF Judged, CellOK, Statuses
    <2>. QED  BY <1>4, <2>1, PublishKeeps DEF o2s_broadcast
  <1>5. CASE analog_adc_read
    <2>1. cfg.kind = "analog" /\ cell.pc = "top" /\ UNCHANGED <<cfg, rx, chan>>
      BY <1>5 DEF analog_adc_read
    <2>2. \/ \E v \in Nat : cell' = [At(cell, "publish") EXCEPT !.raw = v, !.last = 0, !.taken = 0]
          \/ cell' = At(cell, "sleep")
      BY <1>5, Sizes DEF analog_adc_read, Normal
    <2>3. CellOK(cell') /\ Timely(cell')
      <3>1. CASE cell' = At(cell, "sleep")
        BY <1>0, <3>1, AtKeeps
      <3>2. ASSUME NEW v \in Nat,
                   cell' = [At(cell, "publish") EXCEPT !.raw = v, !.last = 0, !.taken = 0]
            PROVE  CellOK(cell') /\ Timely(cell')
        BY <1>0, <3>2 DEF At, CellOK, Timely, CellFields
      <3>. QED  BY <2>2, <3>1, <3>2
    <2>. QED
      BY <2>1, <2>3 DEF ShownInv, ReadType, ListenInv, FreshInv, ChannelType, ChannelFresh,
                        Listening
  <1>6. CASE analog_publish
    <2>. DEFINE s == IF cell.raw > PPO2_FAIL THEN "fail"
                     ELSE IF cell.last > DigitalTimeout THEN "fail"
                     ELSE IF cell.status = "needcal" THEN "needcal" ELSE "ok"
    <2>1. s \in Statuses /\ (s = "ok" => cell.last <= DigitalTimeout)
      BY <1>0, Sizes DEF CellOK, Statuses
    <2>2. Publish(At(cell, "sleep"), s) /\ cfg.kind = "analog" /\ cell.pc = "publish"
          /\ UNCHANGED <<cfg, rx>>
      BY <1>6 DEF analog_publish
    <2>. HIDE DEF s
    <2>. QED  BY <2>1, <2>2, PublishKeeps
  <1>7. CASE diveo2_request_broadcast
    <2>1. PICK w : cell' = [cell EXCEPT !.req = w]
      BY <1>7 DEF diveo2_request_broadcast
    <2>2. CellOK(cell') /\ Timely(cell') /\ cell'.pc = cell.pc
      BY <1>0, <2>1 DEF CellOK, Timely, CellFields
    <2>. QED
      BY <1>7, <2>2 DEF diveo2_request_broadcast, ShownInv, ReadType, ListenInv, FreshInv,
                        ChannelType, ChannelFresh, Listening
  <1>8. CASE cal_done_cb
    <2>1. PICK b : cfg' = [cfg EXCEPT !.stored = b] /\ cell' = [cell EXCEPT !.status = load_cal(b)]
      BY <1>8 DEF cal_done_cb
    <2>2. load_cal(b) \in Statuses
      BY DEF load_cal, Statuses
    <2>3. CellOK(cell') /\ Timely(cell') /\ cell'.pc = cell.pc
      BY <1>0, <2>1, <2>2 DEF CellOK, Timely, CellFields
    <2>4. cfg'.kind = cfg.kind /\ cfg'.count = cfg.count /\ DOMAIN cfg' = DOMAIN cfg
      BY <2>1 DEF ShownInv, ReadType
    <2>. QED
      BY <1>8, <2>3, <2>4 DEF cal_done_cb, ShownInv, ReadType, ListenInv, FreshInv,
                        ChannelType, ChannelFresh, Listening
  <1>. QED  BY <1>1, <1>2, <1>3, <1>4, <1>5, <1>6, <1>7, <1>8

LEMMA ShownInit == CellsInit => ShownInv
  <1>. SUFFICES ASSUME CellsInit  PROVE ShownInv
    OBVIOUS
  <1>0. Cap \in Nat /\ Cap > DigitalTimeout /\ DigitalTimeout \in Nat
    BY Sizes DEF Cap
  <1>1. /\ DOMAIN cfg = {"kind", "family", "enforce", "count", "stored"} /\ cfg.count \in {2, 3}
        /\ cfg.kind \in Kinds
    BY DEF CellsInit
  <1>. DEFINE s == IF cfg.kind = "analog" /\ ~cfg.stored THEN "needcal" ELSE "fail"
  <1>2. s \in {"needcal", "fail"}  OBVIOUS
  <1>3. cell = [pc |-> "top", waited |-> 0, raw |-> 0, last |-> Cap, taken |-> Cap, status |-> s,
                known |-> FALSE, mode |-> "polled", phase |-> 0, req |-> "none", want |-> "none"]
    BY DEF CellsInit
  <1>. HIDE DEF s
  <1>4. CellOK(cell) /\ Timely(cell) /\ cell.status = s /\ cell.pc = "top"
    BY <1>0, <1>2, <1>3 DEF CellOK, Timely, CellFields, Statuses
  <1>5. rx.sem = FALSE /\ FrameOK(rx.msg) /\ DOMAIN rx = {"sem", "msg"}
    BY DEF CellsInit, FrameOK, NoFrame
  <1>6. chan = [prec |-> 0, status |-> s, age |-> 0, taken |-> Cap]
    BY <1>4 DEF CellsInit
  <1>. QED
    BY <1>0, <1>1, <1>2, <1>4, <1>5, <1>6 DEF ShownInv, ReadType, ListenInv, FreshInv, ChannelType,
                        ChannelFresh, Statuses

\* ShownIsVoted holds of every head, for any timing, deviation limit, readings and
\* number of faults, provided no O2S reception ends in a way that makes the driver parse
\* the previous answer again (the cells_stale run shows what happens then).
THEOREM ShownWasMeasured == Stops \subseteq {"echo"} => (CellsSpec => []ShownIsVoted)
  <1>. SUFFICES ASSUME Stops \subseteq {"echo"}  PROVE CellsSpec => []ShownIsVoted
    OBVIOUS
  <1>1. CellsInit => ShownInv
    BY ShownInit
  <1>2. ShownInv /\ [CellsNext]_vars => ShownInv'
    <2>. SUFFICES ASSUME ShownInv, [CellsNext]_vars  PROVE ShownInv'
      OBVIOUS
    <2>1. CASE UNCHANGED vars
      BY <2>1, IdleKeeps DEF vars
    <2>. QED  BY <2>1, ShownWire, ShownTick, ShownDiveO2, ShownOthers DEF CellsNext, Thread
  <1>3. ShownInv => ShownIsVoted
    BY ShownLemma DEF ShownInv, ReadType, FreshInv
  <1>. QED  BY <1>1, <1>2, <1>3, PTL DEF CellsSpec

-----------------------------------------------------------------------------
(* A broadcast request. The driver writes the setting only when what it    *)
(* observed differs from the request, so one lie or one lost command can   *)
(* spoil one of its two attempts, and two are needed to spoil both.        *)

CommandType ==
  /\ DOMAIN cell = CellFields /\ cell.req \in {"none", "on", "off"}
  /\ DOMAIN dev = {"alive", "stream", "low", "owes", "flight", "fed"}
  /\ dev.stream \in BOOLEAN
  /\ DOMAIN hist = {"applied", "hits"} /\ hist.hits \in 0..2

\* While a request is applied the cell has lived unless two hits are counted, and
\* after a first attempt without a hit the stream is as requested.
RequestInv ==
  /\ cell.pc \in {"observe", "settle", "verify"} =>
       /\ cell.want \in {"on", "off"} /\ cell.known /\ ~hist.applied
       /\ hist.hits < 2 => dev.alive
  /\ cell.pc \in {"settle", "verify"} /\ hist.hits = 0 => dev.stream = (cell.want = "on")
  /\ cell.pc \in {"listen", "probe"} => ~cell.known
  /\ hist.applied => cell.known

CommandInv == CommandType /\ RequestInv /\ BroadcastConverges

\* A frame changes neither the mode nor the request.
LEMMA ProcessKeeps ==
  ASSUME NEW c, NEW f, DOMAIN c = CellFields
  PROVE  LET d == process_rx(c, f)
         IN  /\ DOMAIN d = CellFields /\ d.mode = c.mode /\ d.want = c.want
             /\ d.req = c.req /\ (c.known => d.known)
  <1>1. CASE Heard(f)
    BY <1>1 DEF Heard, process_rx, CellFields
  <1>2. CASE ~Heard(f) /\ f.k = "bad"
    BY <1>2 DEF Heard, process_rx, CellFields
  <1>3. CASE ~Heard(f) /\ f.k # "bad"
    BY <1>3 DEF Heard, process_rx
  <1>. QED  BY <1>1, <1>2, <1>3

\* What a step may do to the stream without a command.
SameStream ==
  /\ DOMAIN dev' = DOMAIN dev /\ dev'.stream = dev.stream
  /\ dev.alive => dev'.alive

\* History as it is, or with hits added to it, up to two.
Worse ==
  /\ DOMAIN hist' = {"applied", "hits"} /\ hist'.applied = hist.applied
  /\ hist'.hits \in 0..2 /\ hist'.hits >= hist.hits

LEMMA HitCounts ==
  ASSUME CommandType, NEW n \in {1, 2}, Hit(n)
  PROVE  Worse /\ hist'.hits >= n
  <1>1. Min({hist.hits + n, 2}) = IF hist.hits + n <= 2 THEN hist.hits + n ELSE 2
    BY MinOfTwo DEF CommandType
  <1>. DEFINE m == Min({hist.hits + n, 2})
  <1>2. hist' = [hist EXCEPT !.hits = m]
    BY DEF Hit
  <1>3. m \in 0..2 /\ m >= n /\ m >= hist.hits
    BY <1>1 DEF CommandType
  <1>. HIDE DEF m
  <1>. QED  BY <1>2, <1>3 DEF CommandType, Worse

LEMMA SendKeeps ==
  ASSUME CommandType, NEW c \in {"detail", "other"}, Send(c)
  PROVE  SameStream /\ Worse
  <1>1. DOMAIN Due = DOMAIN dev /\ Due.stream = dev.stream /\ Due.alive = dev.alive
    BY DEF Due, CommandType
  <1>2. CASE dev' = Commanded(Due, c) /\ UNCHANGED <<left, hist>>
    <2>. DEFINE d == Due
    <2>1. DOMAIN d = DOMAIN dev /\ d.stream = dev.stream /\ d.alive = dev.alive
      BY <1>1
    <2>2. dev' = Commanded(d, c)
      BY <1>2
    <2>. HIDE DEF d
    <2>3. dev' = d \/ dev' = [d EXCEPT !.owes = "echo"] \/ dev' = [d EXCEPT !.owes = "frame"]
      BY <2>2 DEF Commanded
    <2>4. SameStream
      BY <2>1, <2>3 DEF SameStream, CommandType
    <2>. QED  BY <1>2, <2>4 DEF Worse, CommandType
  <1>3. CASE Hit(1) /\ dev' = Due
    <2>1. SameStream
      BY <1>1, <1>3 DEF SameStream
    <2>2. Worse
      BY <1>3, HitCounts
    <2>. QED  BY <2>1, <2>2
  <1>. QED  BY <1>2, <1>3 DEF Send

\* A step that neither commands the stream nor moves a request on.
LEMMA QuietKeeps ==
  ASSUME CommandInv, SameStream, Worse, DOMAIN cell' = CellFields,
         cell'.req \in {"none", "on", "off"},
         cell'.mode = cell.mode, cell'.want = cell.want, cell.known => cell'.known,
         cell'.pc \in {"observe", "settle", "verify"} => cell'.pc = cell.pc,
         cell'.pc \in {"listen", "probe"} => ~cell'.known
  PROVE  CommandInv'
  <1>1. CommandType'
    BY DEF CommandInv, CommandType, SameStream, Worse
  <1>2. RequestInv'
    BY DEF CommandInv, CommandType, RequestInv, SameStream, Worse
  <1>3. BroadcastConverges'
    BY DEF CommandInv, CommandType, BroadcastConverges, SameStream, Worse
  <1>. QED  BY <1>1, <1>2, <1>3 DEF CommandInv

LEMMA CommandCycle ==
  ASSUME CommandInv, StartCycle(cell)
  PROVE  CommandInv'
  <1>0. CommandType
    BY DEF CommandInv
  <1>1. \A g : Detail(g) \in {"detail", "other"}
    BY DEF Detail
  <1>2. SameStream /\ Worse
    <2>1. CASE dev' = Due /\ UNCHANGED <<left, hist>>
      BY <1>0, <2>1 DEF Due, SameStream, Worse, CommandType
    <2>2. CASE \E c \in {"detail", "other"} : Send(c)
      BY <1>0, <2>2, SendKeeps
    <2>. QED  BY <1>1, <2>1, <2>2 DEF StartCycle
  <1>3. PICK pc \in {"listen", "probe", "poll", "stream"} :
          cell' = At(cell, pc) /\ (pc \in {"listen", "probe"} => ~cell.known)
    BY DEF StartCycle
  <1>4. /\ DOMAIN cell' = CellFields /\ cell'.mode = cell.mode /\ cell'.want = cell.want
        /\ cell'.known = cell.known /\ cell'.pc = pc /\ cell'.req = cell.req
    BY <1>0, <1>3 DEF At, CommandType, CellFields
  <1>. QED  BY <1>0, <1>2, <1>3, <1>4, QuietKeeps DEF CommandType

\* The cell on the wire.
LEMMA CommandWire ==
  ASSUME CommandInv,
         \/ DeviceSends \/ DeviceErrs \/ O2sStops \/ DeviceRevives \/ Brownout
         \/ diveo2_request_broadcast \/ cal_done_cb
         \/ O2sTimeout \/ o2s_cell_thread \/ o2s_process_rx \/ o2s_broadcast
         \/ analog_adc_read \/ analog_publish \/ diveo2_broadcast \/ diveo2_wait_frame \/ TimePasses
  PROVE  CommandInv'
  <1>0. CommandType
    BY DEF CommandInv
  <1>1. SameStream
    <2>1. CASE DeviceSends \/ DeviceErrs
      <3>1. PICK e \in Emits : dev' = e[1]
        BY <2>1 DEF DeviceSends, DeviceErrs
      <3>. DEFINE d1 == [dev EXCEPT !.owes = "none"]  d2 == [dev EXCEPT !.flight = FALSE]
                  d3 == [dev EXCEPT !.fed = TRUE]
      <3>2. e \in {<<d1, dev.owes>>, <<d2, "straggler">>, <<d3, "stream">>}
        BY <3>1 DEF Emits
      <3>. HIDE DEF d1, d2, d3
      <3>3. dev' = d1 \/ dev' = d2 \/ dev' = d3
        BY <3>1, <3>2
      <3>. QED  BY <1>0, <3>3 DEF SameStream, CommandType, d1, d2, d3
    <2>2. CASE o2s_cell_thread
      BY <1>0, <2>2, SendKeeps DEF o2s_cell_thread
    <2>3. CASE O2sStops \/ DeviceRevives \/ Brownout \/ O2sTimeout \/ TimePasses
      BY <1>0, <2>3 DEF O2sStops, DeviceRevives, Brownout, O2sTimeout, TimePasses, SameStream, CommandType
    <2>4. CASE UNCHANGED dev
      BY <2>4 DEF SameStream
    <2>. QED
      BY <2>1, <2>2, <2>3, <2>4 DEF diveo2_request_broadcast, cal_done_cb, o2s_process_rx,
           o2s_broadcast, analog_adc_read, analog_publish, diveo2_broadcast, diveo2_wait_frame
  <1>2. Worse
    <2>1. CASE o2s_cell_thread
      BY <1>0, <2>1, SendKeeps DEF o2s_cell_thread
    <2>2. CASE UNCHANGED hist
      BY <1>0, <2>2 DEF Worse, CommandType
    <2>. QED
      BY <2>1, <2>2 DEF DeviceSends, DeviceErrs, O2sStops, DeviceRevives, Brownout, O2sTimeout,
           diveo2_request_broadcast, cal_done_cb, o2s_process_rx, o2s_broadcast,
           analog_adc_read, analog_publish, diveo2_broadcast, diveo2_wait_frame, TimePasses
  <1>3. /\ DOMAIN cell' = CellFields /\ cell'.mode = cell.mode /\ cell'.want = cell.want
        /\ cell.known => cell'.known
        /\ cell'.req \in {"none", "on", "off"}
        /\ cell'.pc \in {"top", "publish", "answer", "sleep"}
             \/ (cell'.pc = cell.pc /\ cell'.known = cell.known)
    <2>0. \A c, pc : DOMAIN c = CellFields =>
            /\ DOMAIN At(c, pc) = CellFields /\ At(c, pc).mode = c.mode /\ At(c, pc).want = c.want
            /\ At(c, pc).known = c.known /\ At(c, pc).pc = pc /\ At(c, pc).req = c.req
      BY DEF At, CellFields
    <2>1. CASE UNCHANGED cell
      BY <1>0, <2>1 DEF CommandType
    <2>2. CASE diveo2_request_broadcast \/ cal_done_cb
      BY <1>0, <2>2 DEF diveo2_request_broadcast, cal_done_cb, CommandType, CellFields
    <2>3. CASE o2s_cell_thread \/ O2sTimeout
      BY <1>0, <2>0, <2>3 DEF o2s_cell_thread, O2sTimeout, CommandType
    <2>4. CASE o2s_process_rx \/ diveo2_wait_frame
      <3>1. \E f \in {rx.msg, NoFrame}, pc \in {"publish", "sleep"} :
              cell' = At(process_rx(cell, f), pc)
        <4>1. CASE o2s_process_rx
          BY <4>1 DEF o2s_process_rx
        <4>2. CASE diveo2_wait_frame
          BY <4>2 DEF diveo2_wait_frame
        <4>. QED  BY <2>4, <4>1, <4>2
      <3>. QED  BY <1>0, <2>0, <3>1, ProcessKeeps DEF CommandType
    <2>5. CASE o2s_broadcast \/ diveo2_broadcast \/ analog_publish
      <3>1. \E s : \E pc \in {"top", "sleep"} : Publish(At(cell, pc), s)
        BY <2>5 DEF o2s_broadcast, diveo2_broadcast, analog_publish
      <3>2. PICK s : \E pc \in {"top", "sleep"} : Publish(At(cell, pc), s)
        BY <3>1
      <3>3. PICK pc \in {"top", "sleep"} : Publish(At(cell, pc), s)
        BY <3>2
      <3>. DEFINE c == At(cell, pc)
      <3>4. /\ DOMAIN c = CellFields /\ c.mode = cell.mode /\ c.want = cell.want
            /\ c.known = cell.known /\ c.pc = pc /\ c.req \in {"none", "on", "off"}
        BY <1>0, <2>0 DEF CommandType
      <3>. HIDE DEF c
      <3>5. cell' = [c EXCEPT !.status = s]
        BY <3>3 DEF Publish, c
      <3>. QED  BY <3>4, <3>5 DEF CellFields
    <2>6. CASE analog_adc_read
      <3>1. \/ \E v : cell' = [At(cell, "publish") EXCEPT !.raw = v, !.last = 0, !.taken = 0]
            \/ cell' = At(cell, "sleep")
        BY <2>6 DEF analog_adc_read
      <3>2. CASE cell' = At(cell, "sleep")
        BY <1>0, <2>0, <3>2 DEF CommandType
      <3>3. ASSUME NEW v, cell' = [At(cell, "publish") EXCEPT !.raw = v, !.last = 0, !.taken = 0]
            PROVE  /\ DOMAIN cell' = CellFields /\ cell'.mode = cell.mode /\ cell'.want = cell.want
                   /\ cell'.known = cell.known /\ cell'.pc = "publish" /\ cell'.req = cell.req
        BY <1>0, <3>3 DEF At, CommandType, CellFields
      <3>. QED  BY <1>0, <3>1, <3>2, <3>3 DEF CommandType
    <2>7. CASE TimePasses
      BY <1>0, <2>7 DEF TimePasses, CommandType, CellFields
    <2>. QED
      BY <2>1, <2>2, <2>3, <2>4, <2>5, <2>6, <2>7 DEF DeviceSends, DeviceErrs, O2sStops,
           DeviceRevives, Brownout
  <1>. QED
    BY <1>1, <1>2, <1>3, QuietKeeps DEF CommandInv, RequestInv

\* Two hits are counted for the death of the cell.
LEMMA CommandDies == ASSUME CommandInv, DeviceDies  PROVE CommandInv'
  <1>1. Worse /\ hist'.hits >= 2
    BY HitCounts DEF DeviceDies, CommandInv
  <1>2. dev' = [dev EXCEPT !.alive = FALSE, !.owes = "none"] /\ UNCHANGED cell
    BY DEF DeviceDies
  <1>3. CommandType'
    BY <1>1, <1>2 DEF CommandInv, CommandType, Worse
  <1>4. RequestInv' /\ BroadcastConverges'
    BY <1>1, <1>2, <1>3 DEF CommandInv, CommandType, RequestInv, BroadcastConverges, Worse
  <1>. QED  BY <1>3, <1>4 DEF CommandInv

\* A command reaches a living cell, which then streams as it was told.
LEMMA CommandedStreams ==
  ASSUME CommandType, NEW w \in {"on", "off"}
  PROVE  LET d == Commanded(dev, w)
         IN  /\ DOMAIN d = DOMAIN dev /\ d.alive = dev.alive /\ d.stream \in BOOLEAN
             /\ dev.alive => d.stream = (w = "on")
  <1>1. CASE ~dev.alive
    BY <1>1 DEF Commanded, CommandType
  <1>2. CASE dev.alive /\ w = "on"
    BY <1>2 DEF Commanded, CommandType
  <1>3. CASE dev.alive /\ w = "off"
    BY <1>3 DEF Commanded, CommandType
  <1>. QED  BY <1>1, <1>2, <1>3

\* One attempt: with w requested, the driver hears h and writes w if it differs.
LEMMA CommandObserve ==
  ASSUME CommandInv, NEW pc \in {"observe", "verify"}, NEW next,
         next = IF pc = "verify" THEN "cycle" ELSE "settle", Observe(pc, next, TRUE)
  PROVE  CommandInv'
  <1>0. /\ CommandType /\ cell.pc = pc /\ cell.want \in {"on", "off"} /\ cell.known
        /\ ~hist.applied /\ (hist.hits < 2 => dev.alive)
        /\ (pc = "verify" /\ hist.hits = 0 => dev.stream = (cell.want = "on"))
        /\ dev.stream \in BOOLEAN /\ hist.hits \in 0..2
    BY DEF CommandInv, CommandType, RequestInv, Observe
  <1>. DEFINE h(f) == Heard(f)
              lie(f) == IF h(f) # dev.stream THEN 1 ELSE 0
              sum(f, n) == Min({hist.hits + lie(f) + n, 2})
              H(f, n) == [applied |-> pc = "verify", hits |-> sum(f, n)]
  <1>1. PICK f \in {rx.msg, NoFrame} :
          /\ cell' = At(IF pc = "verify" THEN SetsBroadcast(process_rx(cell, f))
                        ELSE process_rx(cell, f), next)
          /\ \/ /\ (cell.want = "on") # h(f)
                /\ \/ dev' = Commanded(dev, cell.want) /\ hist' = H(f, 0)
                   \/ hist' = H(f, 1) /\ UNCHANGED dev
             \/ (cell.want = "on") = h(f) /\ hist' = H(f, 0) /\ UNCHANGED dev
    BY DEF Observe
  <1>2. h(f) \in BOOLEAN
    BY DEF Heard
  <1>. DEFINE want == cell.want = "on"
  <1>3. \A n \in {0, 1} : /\ sum(f, n) \in 0..2
                          /\ sum(f, n) < 2 => sum(f, n) = hist.hits + lie(f) + n
    <2>. SUFFICES ASSUME NEW n \in {0, 1}
                  PROVE  /\ sum(f, n) \in 0..2
                         /\ sum(f, n) < 2 => sum(f, n) = hist.hits + lie(f) + n
      OBVIOUS
    <2>1. lie(f) \in {0, 1}  OBVIOUS
    <2>. HIDE DEF lie
    <2>. QED  BY <1>0, <2>1, MinOfTwo
  <1>. HIDE DEF h, sum
  <1>4. /\ DOMAIN cell' = CellFields /\ cell'.known /\ cell'.pc = next
        /\ cell'.req \in {"none", "on", "off"}
        /\ pc = "observe" => cell'.want = cell.want
        /\ pc = "verify" => (cell'.mode = "broadcast") = want
    <2>. DEFINE c == process_rx(cell, f)
    <2>1. DOMAIN c = CellFields /\ c.want = cell.want /\ c.known /\ c.req = cell.req
      BY <1>0, ProcessKeeps DEF CommandType
    <2>. HIDE DEF c
    <2>2. DOMAIN SetsBroadcast(c) = CellFields /\ SetsBroadcast(c).known
          /\ SetsBroadcast(c).req = cell.req /\ (SetsBroadcast(c).mode = "broadcast") = want
      BY <1>0, <2>1 DEF SetsBroadcast, CellFields
    <2>3. CASE pc = "verify"
      <3>. DEFINE e == SetsBroadcast(c)
      <3>1. cell' = At(e, next)
        BY <1>1, <2>3 DEF c
      <3>2. DOMAIN e = CellFields /\ e.known /\ e.req = cell.req /\ (e.mode = "broadcast") = want
        BY <2>2
      <3>. HIDE DEF e
      <3>. QED  BY <1>0, <2>3, <3>1, <3>2 DEF At, CellFields, CommandType
    <2>4. CASE pc = "observe"
      <3>1. cell' = At(c, next)
        BY <1>1, <2>4 DEF c
      <3>. QED  BY <1>0, <2>1, <2>4, <3>1 DEF At, CellFields, CommandType
    <2>. QED  BY <2>3, <2>4
  <1>5. /\ DOMAIN hist' = {"applied", "hits"} /\ hist'.applied = (pc = "verify")
        /\ hist'.hits \in 0..2
        /\ hist'.hits < 2 => hist'.hits >= hist.hits + lie(f)
    BY <1>0, <1>1, <1>3
  <1>6. /\ DOMAIN dev' = DOMAIN dev /\ dev'.stream \in BOOLEAN
        /\ dev'.alive = dev.alive
    BY <1>0, <1>1, CommandedStreams
  <1>7. CommandType'
    BY <1>0, <1>4, <1>5, <1>6 DEF CommandType
  <1>8. hist'.hits = 0 => dev'.stream = want
    <2>. SUFFICES ASSUME hist'.hits = 0  PROVE dev'.stream = want
      OBVIOUS
    <2>1. hist.hits = 0 /\ lie(f) = 0
      BY <1>0, <1>5
    <2>2. h(f) = dev.stream /\ dev.alive
      BY <1>0, <1>2, <2>1
    <2>3. hist' # H(f, 1)
      BY <1>3, <2>1
    <2>. QED  BY <1>0, <1>1, <1>2, <2>2, <2>3, CommandedStreams
  <1>9. pc = "verify" /\ hist'.hits < 2 => dev'.stream = want
    <2>. SUFFICES ASSUME pc = "verify", hist'.hits < 2  PROVE dev'.stream = want
      OBVIOUS
    <2>1. hist.hits < 2 /\ dev.alive /\ lie(f) \in {0, 1}
      BY <1>0, <1>5
    <2>2. CASE lie(f) = 0
      <3>1. h(f) = dev.stream
        BY <1>0, <1>2, <2>2
      <3>2. CASE hist' = H(f, 1) /\ UNCHANGED dev
        <4>1. hist.hits = 0
          BY <1>0, <1>3, <2>1, <2>2, <3>2
        <4>. QED  BY <1>0, <3>2, <4>1
      <3>. QED  BY <1>0, <1>1, <1>2, <2>1, <3>1, <3>2, CommandedStreams
    <2>3. CASE lie(f) = 1
      <3>1. hist.hits = 0 /\ hist'.hits = 1 /\ h(f) # dev.stream
        BY <1>0, <1>5, <2>3
      <3>2. hist' # H(f, 1)
        BY <1>3, <2>3, <3>1
      <3>3. want # h(f)
        BY <1>0, <1>2, <3>1
      <3>. QED  BY <1>0, <1>1, <2>1, <3>2, <3>3, CommandedStreams
    <2>. QED  BY <2>1, <2>2, <2>3
  <1>10. RequestInv'
    <2>1. hist'.hits < 2 => dev'.alive
      BY <1>0, <1>5, <1>6
    <2>2. CASE pc = "verify"
      BY <1>4, <1>5, <2>2 DEF RequestInv
    <2>3. CASE pc = "observe"
      BY <1>0, <1>4, <1>5, <1>8, <2>1, <2>3 DEF RequestInv
    <2>. QED  BY <2>2, <2>3
  <1>11. BroadcastConverges'
    BY <1>4, <1>5, <1>9 DEF BroadcastConverges
  <1>. QED  BY <1>7, <1>10, <1>11 DEF CommandInv

\* The rest of the DiveO2 thread.
LEMMA CommandThread ==
  ASSUME CommandInv, diveo2_cell_thread \/ Settle \/ Resume \/ diveo2_detect_step
  PROVE  CommandInv'
  <1>0. CommandType
    BY DEF CommandInv
  <1>1. CASE diveo2_cell_thread
    <2>1. CASE ~(cell.known /\ cell.req # "none")
      BY <1>1, <2>1, CommandCycle DEF diveo2_cell_thread
    <2>2. CASE cell.known /\ cell.req # "none"
      <3>1. /\ cell' = [At(cell, "observe") EXCEPT !.req = "none", !.want = cell.req]
            /\ hist' = [applied |-> FALSE, hits |-> IF dev.alive THEN 0 ELSE 2]
            /\ dev' = Due
        BY <1>1, <2>2 DEF diveo2_cell_thread
      <3>2. /\ DOMAIN cell' = CellFields /\ cell'.req = "none" /\ cell'.want \in {"on", "off"}
            /\ cell'.known = cell.known /\ cell'.pc = "observe"
        BY <1>0, <2>2, <3>1 DEF At, CommandType, CellFields
      <3>3. DOMAIN dev' = DOMAIN dev /\ dev'.stream = dev.stream /\ dev'.alive = dev.alive
        BY <1>0, <3>1 DEF Due, CommandType
      <3>4. /\ DOMAIN hist' = {"applied", "hits"} /\ hist'.applied = FALSE
            /\ hist'.hits \in 0..2 /\ (hist'.hits < 2 => dev.alive)
        BY <3>1
      <3>. QED
        BY <1>0, <2>2, <3>2, <3>3, <3>4
        DEF CommandInv, CommandType, RequestInv, BroadcastConverges
    <2>. QED  BY <2>1, <2>2
  <1>2. CASE Settle
    <2>1. /\ DOMAIN cell' = CellFields /\ cell'.mode = cell.mode /\ cell'.want = cell.want
          /\ cell'.known = cell.known /\ cell'.pc = "verify" /\ cell.pc = "settle"
          /\ cell'.req = cell.req
      BY <1>0, <1>2 DEF Settle, At, CommandType, CellFields
    <2>2. DOMAIN dev' = DOMAIN dev /\ dev'.stream = dev.stream /\ dev'.alive = dev.alive
          /\ UNCHANGED hist
      BY <1>0, <1>2 DEF Settle, Due, CommandType
    <2>. QED
      BY <2>1, <2>2 DEF CommandInv, CommandType, RequestInv, BroadcastConverges
  <1>3. CASE Resume
    BY <1>3, CommandCycle DEF Resume
  <1>4. CASE diveo2_detect_step
    <2>0. ~cell.known /\ ~hist.applied
      BY <1>4 DEF diveo2_detect_step, CommandInv, RequestInv
    <2>. DEFINE d(f) == process_rx(cell, f)
                g    == IF cell.pc = "listen" THEN "broadcast" ELSE "polled"
                p(f) == IF d(f).known THEN At(d(f), "publish").phase
                        ELSE (At(d(f), "publish").phase + 1) % 3
                m(f) == IF d(f).known /\ cfg.enforce /\ g = "polled" THEN "broadcast"
                        ELSE IF d(f).known THEN g ELSE At(d(f), "publish").mode
    <2>1. PICK f \in {rx.msg, NoFrame} :
            /\ cell' = [At(d(f), "publish") EXCEPT !.phase = p(f), !.mode = m(f)]
            /\ Send("on") \/ UNCHANGED <<dev, left, hist>>
      BY <1>4 DEF diveo2_detect_step
    <2>. HIDE DEF p, m
    <2>. DEFINE c == process_rx(cell, f)
    <2>2. DOMAIN c = CellFields /\ c.req = cell.req
      BY <1>0, ProcessKeeps DEF CommandType
    <2>. HIDE DEF c
    <2>3. cell' = [At(c, "publish") EXCEPT !.phase = p(f), !.mode = m(f)]
      BY <2>1 DEF c
    <2>4. DOMAIN cell' = CellFields /\ cell'.req \in {"none", "on", "off"} /\ cell'.pc = "publish"
      BY <1>0, <2>2, <2>3 DEF At, CommandType, CellFields
    <2>5. /\ DOMAIN dev' = DOMAIN dev /\ dev'.stream \in BOOLEAN
          /\ DOMAIN hist' = {"applied", "hits"} /\ hist'.hits \in 0..2
          /\ hist'.applied = hist.applied
      <3>1. CASE UNCHANGED <<dev, hist>>
        BY <1>0, <3>1 DEF CommandType
      <3>2. CASE dev' = Commanded(Due, "on") /\ UNCHANGED hist
        BY <1>0, <3>2 DEF Commanded, Due, CommandType
      <3>3. CASE Hit(1) /\ dev' = Due
        BY <1>0, <3>3, HitCounts DEF Due, CommandType, Worse
      <3>. QED  BY <2>1, <3>1, <3>2, <3>3 DEF Send
    <2>. QED
      BY <1>0, <2>0, <2>4, <2>5 DEF CommandInv, CommandType, RequestInv, BroadcastConverges
  <1>. QED  BY <1>1, <1>2, <1>3, <1>4

\* BroadcastConverges holds for any number of requests, faults and frames: an attempt
\* that goes wrong is caught by the next one, because the driver observes the cell
\* before it writes and verifies afterwards.
THEOREM RequestConverges == CellsSpec => []BroadcastConverges
  <1>1. CellsInit => CommandInv
    <2>. SUFFICES ASSUME CellsInit  PROVE CommandInv
      OBVIOUS
    <2>1. /\ DOMAIN cell = CellFields /\ cell.req = "none" /\ cell.pc = "top"
      BY DEF CellsInit, CellFields
    <2>2. DOMAIN dev = {"alive", "stream", "low", "owes", "flight", "fed"} /\ dev.stream \in BOOLEAN
      <3>. DEFINE B == IF cfg.kind = "diveo2" THEN BOOLEAN ELSE {FALSE}
      <3>1. B \subseteq BOOLEAN  OBVIOUS
      <3>2. dev \in [alive : {TRUE}, stream : B, low : {FALSE}, owes : {"none"},
                     flight : {FALSE}, fed : {FALSE}]
        BY DEF CellsInit
      <3>. HIDE DEF B
      <3>. QED  BY <3>1, <3>2
    <2>3. hist = [applied |-> FALSE, hits |-> 0]
      BY DEF CellsInit
    <2>. QED
      BY <2>1, <2>2, <2>3 DEF CommandInv, CommandType, RequestInv, BroadcastConverges
  <1>2. CommandInv /\ [CellsNext]_vars => CommandInv'
    <2>. SUFFICES ASSUME CommandInv, [CellsNext]_vars  PROVE CommandInv'
      OBVIOUS
    <2>1. CASE UNCHANGED vars
      BY <2>1 DEF vars, CommandInv, CommandType, RequestInv, BroadcastConverges
    <2>2. CASE diveo2_apply_broadcast
      BY <2>2, CommandObserve DEF diveo2_apply_broadcast
    <2>. QED
      BY <2>1, <2>2, CommandWire, CommandDies, CommandThread DEF CellsNext, Thread
  <1>3. CommandInv => BroadcastConverges
    BY DEF CommandInv
  <1>. QED  BY <1>1, <1>2, <1>3, PTL DEF CellsSpec

-----------------------------------------------------------------------------
(***************************************************************************)
(* Proofs about Solenoid, for every set of channels, every duration and    *)
(* every bound that SolenoidConstants admits.                              *)
(*                                                                         *)
(* OpenValveCloses rests on one more hypothesis, that the calibration      *)
(* requests of a behaviour come from one trigger: with both, a CAN request *)
(* can stop the deadman under an unguarded UDS pulse and then fail to be   *)
(* published.                                                              *)
(***************************************************************************)
\* What the fire thread carries from one of its steps to the next.
FireInv ==
  /\ firePc = "arm" => fireOn > 0
  /\ firePc \in {"arm", "pin", "on"} => fireCh \in Injectors
  /\ firePc # "init" => mode # "OFF"
  /\ secondary => Len(Inject) = 2

\* The calibration thread sleeps only in a pulse, and pulses only a plan's channel.
PlanInv ==
  /\ calPc # "sleep" => calWake = 0
  /\ calPc \in {"armed", "sleep"} => plan # <<>>

TypeInv == TypeOK /\ FireInv /\ PlanInv

\* What the guard covers: every queued or running request of the CAN trigger,
\* no request of the UDS trigger, whose pulses have the deadman instead.
GuardInv ==
  /\ "uds" \notin source =>
       /\ running \/ (calPc = "idle" /\ calSub = <<>>)
       /\ calSub = <<>> \/ (calPc = "idle" /\ Len(calSub) = 1)
  /\ "uds" \in source => ~running /\ (calPc = "armed" => deadman > 0)

\* The flush baseline is the command of the last check that could be read.
BaselineInv == earned /\ (seen # 0 => lastCmd = seen)

\* Once the failure is latched and published, the duty stays zero, and after
\* one more injection no further one is on its way to the pin.
QuietInv ==
  failed /\ strayed # 9 =>
    /\ mode = "PID" /\ duty = 0
    /\ strayed \in {0, 1}
    /\ strayed = 1 => /\ firePc \notin {"arm", "pin"}
                      /\ firePc = "decide" => fireOn = 0

-----------------------------------------------------------------------------
\* Where the channels the code fires are.
LEMMA ChannelFacts ==
  /\ Inject[1] \in Injectors
  /\ Len(Inject) = 2 => Inject[2] \in Injectors
  /\ Injectors \subseteq Channels
  /\ O2Flush \in Channels /\ DilFlush \in Channels
BY SolenoidConstants DEF Injectors, Channels

\* The on-time of pid_compute_fire_timing fits lroundf's long, compensated or not.
LEMMA FireTimingType ==
  ASSUME NEW d \in 0..Cycle, NEW p \in Pressures
  PROVE  FireTiming(d, p) \in 0..(Long - 1)
  <1>. DEFINE capped == IF d > MaxFire THEN MaxFire ELSE d
              comp   == (capped * Bar) \div p
  <1>1. FireTiming(d, p) = IF capped < MinFire THEN 0
                           ELSE IF ~DepthComp \/ p = 0 THEN capped
                           ELSE IF comp < MinFire THEN MinFire ELSE comp
    BY Zenon DEF FireTiming
  <1>2. capped \in 0..MaxFire /\ MaxFire < Long /\ MinFire < Long /\ MinFire \in Nat
        /\ Long \in Nat /\ p \in Nat /\ MaxFire \in Nat
    BY SolenoidConstants
  <1>3. p # 0 => comp \in 0..(Long - 1)
    <2>. HIDE DEF capped
    <2>. QED BY <1>2, OnTimeFits
  <1>. HIDE DEF capped, comp
  <1>4. {0, capped, MinFire} \subseteq 0..(Long - 1)
    BY <1>2
  <1>5. CASE p = 0
    <2>1. FireTiming(d, p) \in {0, capped}
      BY Zenon, <1>1, <1>5
    <2>. QED BY <1>4, <2>1
  <1>6. CASE p # 0
    <2>1. FireTiming(d, p) \in {0, capped, MinFire, comp}
      BY Zenon, <1>1
    <2>. QED BY <1>3, <1>4, <1>6, <2>1
  <1>. QED BY <1>5, <1>6

\* The off-time fits a uint32_t, whether or not the on-time is longer than the cycle.
LEMMA OffTimeType ==
  ASSUME NEW on \in 0..(Long - 1)
  PROVE  OffTime(on) \in 0..(2 * Long - 1)
  <1>1. Cycle \in Nat /\ Long \in Nat /\ Long > 0 /\ Mk15Off \in 0..(Long - 1)
    BY SolenoidConstants
  <1>2. (Cycle - on) % (2 * Long) \in 0..(2 * Long - 1)
    BY <1>1
  <1>. QED BY <1>1, <1>2 DEF OffTime

\* It returns no on-time for a zero duty, which is below the hardware minimum.
LEMMA FireTimingZero ==
  ASSUME NEW p \in Nat
  PROVE  FireTiming(0, p) = 0
BY SolenoidConstants DEF FireTiming

\* A behaviour has one trigger.
LEMMA OneSource ==
  ASSUME {"can", "uds"} \notin Sources, TypeOK
  PROVE  "can" \in source => "uds" \notin source
  <1>. SUFFICES ASSUME "can" \in source, "uds" \in source
                PROVE  FALSE
    OBVIOUS
  <1>1. source \in Sources /\ source \subseteq {"can", "uds"}
    BY SolenoidConstants DEF TypeOK, CtlType
  <1>2. source = {"can", "uds"}
    BY <1>1
  <1>. QED BY <1>1, <1>2

-----------------------------------------------------------------------------
\* The type invariant holds at power-on.
LEMMA TypeInit == Init => TypeInv
  <1>. SUFFICES ASSUME Init PROVE TypeInv
    OBVIOUS
  <1>. latched \in BOOLEAN /\ failed \in BOOLEAN /\ secondary \in BOOLEAN /\ earned \in BOOLEAN
       /\ running \in BOOLEAN
    BY Zenon DEF Init
  <1>1. DriveType
    BY SolenoidConstants DEF Init, AllShut, DriveType
  <1>2. CtlType
    BY SolenoidConstants DEF Init, CtlType
  <1>3. FireType /\ FireInv
    BY SolenoidConstants, ChannelFacts DEF Init, FireType, FireInv
  <1>4. CalType /\ PlanInv
    BY SolenoidConstants DEF Init, CalType, PlanInv
  <1>. QED BY <1>1, <1>2, <1>3, <1>4 DEF TypeInv, TypeOK

\* Every step of every thread preserves it.
LEMMA TypeStep ==
  ASSUME TypeInv, [Next]_svars
  PROVE  TypeInv'
  <1>. TypeOK /\ FireInv /\ PlanInv
    BY DEF TypeInv
  <1>1. CASE ControlInit
    <2>1. DriveType' /\ FireType' /\ CalType' /\ FireInv' /\ PlanInv'
      BY <1>1 DEF ControlInit, drive, fire, cal, TypeOK, DriveType, FireType, CalType, FireInv,
         PlanInv
    <2>2. CtlType'
      BY <1>1 DEF ControlInit, TypeOK, CtlType
    <2>. QED BY <2>1, <2>2 DEF TypeInv, TypeOK
  <1>2. CASE NewConsensus
    <2>1. DriveType' /\ FireType' /\ CalType' /\ FireInv' /\ PlanInv'
      BY <1>2 DEF NewConsensus, drive, fire, cal, TypeOK, DriveType, FireType, CalType, FireInv,
         PlanInv
    <2>2. CtlType'
      BY <1>2 DEF NewConsensus, TypeOK, CtlType
    <2>. QED BY <2>1, <2>2 DEF TypeInv, TypeOK
  <1>3. CASE DiverCommands
    <2>1. DriveType' /\ FireType' /\ CalType' /\ FireInv' /\ PlanInv'
      BY <1>3 DEF DiverCommands, drive, fire, cal, TypeOK, DriveType, FireType, CalType,
         FireInv, PlanInv
    <2>2. CtlType'
      BY <1>3 DEF DiverCommands, TypeOK, CtlType
    <2>. QED BY <2>1, <2>2 DEF TypeInv, TypeOK
  <1>4. CASE Tick
    <2>1. CtlType' /\ FireInv'
      BY <1>4 DEF Tick, ctl, TypeOK, CtlType, FireInv
    <2>2. DriveType'
      BY <1>4, SolenoidConstants DEF Tick, TypeOK, DriveType, Count, DeadmanTopCb, AllShut
    <2>3. FireType'
      BY <1>4, SolenoidConstants DEF Tick, TypeOK, FireType, Count
    <2>4. CalType'
      BY <1>4, SolenoidConstants DEF Tick, TypeOK, CalType, Count
    <2>5. PlanInv'
      BY <1>4 DEF Tick, Count, PlanInv
    <2>. QED BY <2>1, <2>2, <2>3, <2>4, <2>5 DEF TypeInv, TypeOK
  <1>5. CASE PidFail
    <2>1. FireType' /\ CalType' /\ FireInv' /\ PlanInv'
      BY <1>5 DEF PidFail, fire, cal, TypeOK, FireType, CalType, FireInv, PlanInv
    <2>2. DriveType'
      BY <1>5 DEF PidFail, TypeOK, DriveType, Off
    <2>3. CtlType'
      BY <1>5, SolenoidConstants DEF PidFail, TypeOK, CtlType, PublishDuty, Lost
    <2>. QED BY <2>1, <2>2, <2>3 DEF TypeInv, TypeOK
  <1>6. CASE PidReadMiss
    <2>1. FireType' /\ CalType' /\ FireInv' /\ PlanInv'
      BY <1>6 DEF PidReadMiss, fire, cal, TypeOK, FireType, CalType, FireInv, PlanInv
    <2>2. DriveType'
      BY <1>6 DEF PidReadMiss, TypeOK, DriveType, Off
    <2>3. CtlType'
      BY <1>6, SolenoidConstants DEF PidReadMiss, TypeOK, CtlType
    <2>. QED BY <2>1, <2>2, <2>3 DEF TypeInv, TypeOK
  <1>7. CASE PidRun
    <2>1. DriveType' /\ FireType' /\ CalType' /\ FireInv' /\ PlanInv'
      BY <1>7 DEF PidRun, drive, fire, cal, TypeOK, DriveType, FireType, CalType, FireInv,
         PlanInv
    <2>2. CtlType'
      <3>1. duty' \in 0..Cycle
        <4>1. duty' = duty \/ duty' \in 0..Cycle
          BY <1>7, SolenoidConstants DEF PidRun, PublishDuty
        <4>. QED BY <4>1 DEF TypeOK, CtlType
      <3>2. failed' \in BOOLEAN
        BY <1>7, Zenon DEF PidRun
      <3>. QED BY <1>7, <3>1, <3>2 DEF PidRun, TypeOK, CtlType
    <2>. QED BY <2>1, <2>2 DEF TypeInv, TypeOK
  <1>8. CASE FireStart
    <2>1. DriveType' /\ CtlType' /\ CalType' /\ PlanInv'
      BY <1>8 DEF FireStart, drive, ctl, cal, TypeOK, DriveType, CtlType, CalType, PlanInv
    <2>2. FireType'
      BY <1>8, SolenoidConstants DEF FireStart, TypeOK, FireType, CtlType
    <2>3. FireInv'
      BY <1>8 DEF FireStart, ctl, FireInv
    <2>. QED BY <2>1, <2>2, <2>3 DEF TypeInv, TypeOK
  <1>9. CASE FlushCheck
    <2>1. DriveType' /\ CtlType' /\ CalType' /\ PlanInv'
      BY <1>9 DEF FlushCheck, drive, ctl, cal, TypeOK, DriveType, CtlType, CalType, PlanInv
    <2>2. FireType'
      <3>1. earned' \in BOOLEAN
        BY <1>9, Zenon DEF FlushCheck
      <3>2. lastCmd' \in Nat /\ seen' \in Nat
        BY <1>9, SolenoidConstants DEF FlushCheck, TypeOK, CtlType
      <3>3. /\ firePc' \in {"cycle", "flushArm"}
            /\ fireCh' \in {fireCh, O2Flush, DilFlush}
        BY <1>9 DEF FlushCheck, FlushDirection
      <3>. QED BY <1>9, <3>1, <3>2, <3>3, ChannelFacts DEF FlushCheck, TypeOK, FireType
    <2>3. FireInv'
      BY <1>9 DEF FlushCheck, ctl, FireInv
    <2>. QED BY <2>1, <2>2, <2>3 DEF TypeInv, TypeOK
  <1>10. CASE FlushArm
    <2>1. CtlType' /\ CalType' /\ PlanInv'
      BY <1>10 DEF FlushArm, ctl, cal, TypeOK, CtlType, CalType, PlanInv
    <2>2. DriveType'
      BY <1>10, SolenoidConstants DEF FlushArm, TypeOK, DriveType, ArmTimer
    <2>3. FireType'
      BY <1>10 DEF FlushArm, TypeOK, FireType
    <2>4. FireInv'
      BY <1>10 DEF FlushArm, ctl, FireInv
    <2>. QED BY <2>1, <2>2, <2>3, <2>4 DEF TypeInv, TypeOK
  <1>11. CASE FlushPin
    <2>1. CtlType' /\ CalType' /\ PlanInv'
      BY <1>11 DEF FlushPin, ctl, cal, TypeOK, CtlType, CalType, PlanInv
    <2>2. DriveType'
      BY <1>11 DEF FlushPin, TypeOK, DriveType, PinHigh
    <2>3. FireType'
      BY <1>11, SolenoidConstants DEF FlushPin, TypeOK, FireType
    <2>4. FireInv'
      BY <1>11 DEF FlushPin, ctl, FireInv
    <2>. QED BY <2>1, <2>2, <2>3, <2>4 DEF TypeInv, TypeOK
  <1>12. CASE FlushOff
    <2>1. CtlType' /\ CalType' /\ PlanInv'
      BY <1>12 DEF FlushOff, ctl, cal, TypeOK, CtlType, CalType, PlanInv
    <2>2. DriveType'
      BY <1>12 DEF FlushOff, TypeOK, DriveType, Off
    <2>3. FireType'
      BY <1>12 DEF FlushOff, TypeOK, FireType
    <2>4. FireInv'
      BY <1>12 DEF FlushOff, ctl, FireInv
    <2>. QED BY <2>1, <2>2, <2>3, <2>4 DEF TypeInv, TypeOK
  <1>13. CASE ReadCycle
    <2>1. DriveType' /\ CtlType' /\ CalType' /\ PlanInv'
      BY <1>13 DEF ReadCycle, drive, ctl, cal, TypeOK, DriveType, CtlType, CalType, PlanInv
    <2>2. FireType'
      <3>1. fireOn' \in 0..(Long - 1)
        <4>1. CASE \E p \in Pressures : fireOn' = FireTiming(duty, p)
          BY <4>1, FireTimingType DEF TypeOK, CtlType
        <4>2. CASE fireOn' \in {0, Mk15On}
          BY <4>2, SolenoidConstants
        <4>. QED BY <1>13, <4>1, <4>2 DEF ReadCycle
      <3>. QED BY <1>13, <3>1 DEF ReadCycle, TypeOK, FireType
    <2>3. FireInv'
      BY <1>13 DEF ReadCycle, ctl, FireInv
    <2>. QED BY <2>1, <2>2, <2>3 DEF TypeInv, TypeOK
  <1>14. CASE Inhibit
    <2>1. CtlType' /\ CalType' /\ PlanInv'
      BY <1>14 DEF Inhibit, ctl, cal, TypeOK, CtlType, CalType, PlanInv
    <2>2. DriveType'
      BY <1>14 DEF Inhibit, TypeOK, DriveType, Off
    <2>3. FireType'
      <3>1. OffTime(0) \in 0..(2 * Long - 1)
        BY OffTimeType, SolenoidConstants DEF TypeOK, FireType
      <3>. QED BY <1>14, <3>1 DEF Inhibit, TypeOK, FireType
    <2>4. FireInv'
      BY <1>14 DEF Inhibit, ctl, FireInv
    <2>. QED BY <2>1, <2>2, <2>3, <2>4 DEF TypeInv, TypeOK
  <1>15. CASE Quiet
    <2>1. DriveType' /\ CtlType' /\ CalType' /\ PlanInv'
      BY <1>15 DEF Quiet, drive, ctl, cal, TypeOK, DriveType, CtlType, CalType, PlanInv
    <2>2. FireType'
      <3>1. OffTime(0) \in 0..(2 * Long - 1)
        BY OffTimeType, SolenoidConstants DEF TypeOK, FireType
      <3>. QED BY <1>15, <3>1 DEF Quiet, TypeOK, FireType
    <2>3. FireInv'
      BY <1>15 DEF Quiet, ctl, FireInv
    <2>. QED BY <2>1, <2>2, <2>3 DEF TypeInv, TypeOK
  <1>16. CASE Choose
    <2>1. DriveType' /\ CtlType' /\ CalType' /\ PlanInv'
      BY <1>16 DEF Choose, drive, ctl, cal, TypeOK, DriveType, CtlType, CalType, PlanInv
    <2>2. FireType'
      BY <1>16, ChannelFacts DEF Choose, TypeOK, FireType, FireInv
    <2>3. FireInv'
      BY <1>16, ChannelFacts DEF Choose, ctl, TypeOK, FireType, FireInv
    <2>. QED BY <2>1, <2>2, <2>3 DEF TypeInv, TypeOK
  <1>17. CASE InjectArm
    <2>1. CtlType' /\ CalType' /\ PlanInv'
      BY <1>17 DEF InjectArm, ctl, cal, TypeOK, CtlType, CalType, PlanInv
    <2>2. DriveType'
      BY <1>17, SolenoidConstants DEF InjectArm, TypeOK, DriveType, ArmTimer, FireType
    <2>3. FireType'
      BY <1>17 DEF InjectArm, TypeOK, FireType
    <2>4. FireInv'
      BY <1>17 DEF InjectArm, ctl, FireInv
    <2>. QED BY <2>1, <2>2, <2>3, <2>4 DEF TypeInv, TypeOK
  <1>18. CASE InjectPin
    <2>1. CalType' /\ PlanInv'
      BY <1>18 DEF InjectPin, cal, TypeOK, CalType, PlanInv
    <2>2. DriveType'
      BY <1>18 DEF InjectPin, TypeOK, DriveType, PinHigh
    <2>3. FireType'
      BY <1>18, SolenoidConstants DEF InjectPin, TypeOK, FireType
    <2>4. CtlType'
      BY <1>18 DEF InjectPin, TypeOK, CtlType
    <2>5. FireInv'
      BY <1>18 DEF InjectPin, FireInv
    <2>. QED BY <2>1, <2>2, <2>3, <2>4, <2>5 DEF TypeInv, TypeOK
  <1>19. CASE InjectOff
    <2>1. CtlType' /\ CalType' /\ PlanInv'
      BY <1>19 DEF InjectOff, ctl, cal, TypeOK, CtlType, CalType, PlanInv
    <2>2. DriveType'
      BY <1>19 DEF InjectOff, TypeOK, DriveType, Off
    <2>3. FireType'
      <3>1. OffTime(fireOn) \in 0..(2 * Long - 1)
        BY OffTimeType, SolenoidConstants DEF TypeOK, FireType
      <3>. QED BY <1>19, <3>1 DEF InjectOff, TypeOK, FireType
    <2>4. FireInv'
      BY <1>19 DEF InjectOff, ctl, FireInv
    <2>. QED BY <2>1, <2>2, <2>3, <2>4 DEF TypeInv, TypeOK
  <1>20. CASE NextCycle
    <2>1. DriveType' /\ CtlType' /\ CalType' /\ PlanInv'
      BY <1>20 DEF NextCycle, drive, ctl, cal, TypeOK, DriveType, CtlType, CalType, PlanInv
    <2>2. FireType'
      BY <1>20 DEF NextCycle, TypeOK, FireType
    <2>3. FireInv'
      BY <1>20 DEF NextCycle, ctl, FireInv
    <2>. QED BY <2>1, <2>2, <2>3 DEF TypeInv, TypeOK
  <1>21. CASE RespCal
    <2>1. FireType' /\ CtlType' /\ FireInv'
      BY <1>21 DEF RespCal, fire, ctl, TypeOK, FireType, CtlType, FireInv
    <2>2. DriveType'
      BY <1>21, SolenoidConstants DEF RespCal, TypeOK, DriveType, AllOff, AllShut
    <2>3. CalType'
      BY <1>21, SolenoidConstants DEF RespCal, TypeOK, CalType
    <2>4. PlanInv'
      BY <1>21 DEF RespCal, PlanInv
    <2>. QED BY <2>1, <2>2, <2>3, <2>4 DEF TypeInv, TypeOK
  <1>22. CASE RespCalFails
    <2>1. FireType' /\ CtlType' /\ CalType' /\ FireInv' /\ PlanInv'
      BY <1>22 DEF RespCalFails, fire, ctl, cal, TypeOK, FireType, CtlType, CalType, FireInv,
         PlanInv
    <2>2. DriveType'
      BY <1>22, SolenoidConstants DEF RespCalFails, TypeOK, DriveType, AllOff, AllShut
    <2>. QED BY <2>1, <2>2 DEF TypeInv, TypeOK
  <1>23. CASE UdsTrigger
    <2>1. DriveType' /\ FireType' /\ CtlType' /\ FireInv'
      BY <1>23 DEF UdsTrigger, drive, fire, ctl, TypeOK, DriveType, FireType, CtlType, FireInv
    <2>2. CalType'
      BY <1>23 DEF UdsTrigger, TypeOK, CalType
    <2>3. PlanInv'
      BY <1>23 DEF UdsTrigger, PlanInv
    <2>. QED BY <2>1, <2>2, <2>3 DEF TypeInv, TypeOK
  <1>24. CASE CalTake
    <2>1. DriveType' /\ FireType' /\ CtlType' /\ FireInv'
      BY <1>24 DEF CalTake, drive, fire, ctl, TypeOK, DriveType, FireType, CtlType, FireInv
    <2>2. CalType'
      BY <1>24, SolenoidConstants DEF CalTake, TypeOK, CalType
    <2>3. PlanInv'
      BY <1>24 DEF CalTake, PlanInv
    <2>. QED BY <2>1, <2>2, <2>3 DEF TypeInv, TypeOK
  <1>25. CASE CalArm
    <2>1. FireType' /\ CtlType' /\ FireInv'
      BY <1>25 DEF CalArm, fire, ctl, TypeOK, FireType, CtlType, FireInv
    <2>2. DriveType'
      BY <1>25, SolenoidConstants DEF CalArm, TypeOK, DriveType, ArmTimer
    <2>3. CalType'
      BY <1>25 DEF CalArm, TypeOK, CalType
    <2>4. PlanInv'
      BY <1>25 DEF CalArm, PlanInv
    <2>. QED BY <2>1, <2>2, <2>3, <2>4 DEF TypeInv, TypeOK
  <1>26. CASE CalPin
    <2>1. FireType' /\ CtlType' /\ FireInv'
      BY <1>26 DEF CalPin, fire, ctl, TypeOK, FireType, CtlType, FireInv
    <2>2. DriveType'
      BY <1>26 DEF CalPin, TypeOK, DriveType, PinHigh
    <2>3. CalType'
      BY <1>26, SolenoidConstants DEF CalPin, TypeOK, CalType
    <2>4. PlanInv'
      BY <1>26 DEF CalPin, PlanInv
    <2>. QED BY <2>1, <2>2, <2>3, <2>4 DEF TypeInv, TypeOK
  <1>27. CASE CalWakes
    <2>1. DriveType' /\ FireType' /\ CtlType' /\ FireInv'
      BY <1>27 DEF CalWakes, drive, fire, ctl, TypeOK, DriveType, FireType, CtlType, FireInv
    <2>2. CalType'
      BY <1>27 DEF CalWakes, TypeOK, CalType, PlanInv
    <2>3. PlanInv'
      BY <1>27 DEF CalWakes, PlanInv
    <2>. QED BY <2>1, <2>2, <2>3 DEF TypeInv, TypeOK
  <1>28. CASE CalRelease
    <2>1. FireType' /\ CtlType' /\ FireInv'
      BY <1>28 DEF CalRelease, fire, ctl, TypeOK, FireType, CtlType, FireInv
    <2>2. DriveType'
      BY <1>28, SolenoidConstants DEF CalRelease, TypeOK, DriveType, AllOff, AllShut, drive
    <2>3. CalType'
      BY <1>28 DEF CalRelease, TypeOK, CalType
    <2>4. PlanInv'
      BY <1>28 DEF CalRelease, PlanInv
    <2>. QED BY <2>1, <2>2, <2>3, <2>4 DEF TypeInv, TypeOK
  <1>29. CASE Override
    <2>1. FireType' /\ CtlType' /\ CalType' /\ FireInv' /\ PlanInv'
      BY <1>29 DEF Override, fire, ctl, cal, TypeOK, FireType, CtlType, CalType, FireInv,
         PlanInv
    <2>2. DriveType'
      BY <1>29, SolenoidConstants DEF Override, TypeOK, DriveType, PinHigh, ArmTimer
    <2>. QED BY <2>1, <2>2 DEF TypeInv, TypeOK
  <1>30. CASE UNCHANGED svars
    BY <1>30 DEF svars, drive, fire, ctl, cal, TypeInv, TypeOK, DriveType, FireType, CtlType,
       CalType, FireInv, PlanInv
  <1>. QED
    BY <1>1, <1>2, <1>3, <1>4, <1>5, <1>6, <1>7, <1>8, <1>9, <1>10, <1>11, <1>12, <1>13, <1>14,
       <1>15, <1>16, <1>17, <1>18, <1>19, <1>20, <1>21, <1>22, <1>23, <1>24, <1>25, <1>26,
       <1>27, <1>28, <1>29, <1>30 DEF Next, FireThread, CalThread

\* Every variable of the bank, the fire thread, the control inputs and the
\* calibration thread keeps its type: the deadman never runs longer than
\* max_on_time_us, on-times fit a long and sleeps a uint32_t, those cast from a
\* negative remainder of the cycle included, and only channels that exist are fired.
THEOREM SolenoidTypeCorrect == Spec => []TypeOK
  <1>1. Spec => []TypeInv
    BY TypeInit, TypeStep, PTL DEF Spec
  <1>2. TypeInv => TypeOK
    BY DEF TypeInv
  <1>. QED BY <1>1, <1>2, PTL

-----------------------------------------------------------------------------
\* Every step of every thread preserves the guard's coverage and leaves every
\* open valve a closer.
LEMMA GuardStep ==
  ASSUME {"can", "uds"} \notin Sources, TypeInv, GuardInv, OpenHasCloser, [Next]_svars
  PROVE  GuardInv' /\ OpenHasCloser'
  <1>1. CASE ControlInit
    BY <1>1 DEF ControlInit, cal, drive, fire, GuardInv, OpenHasCloser
  <1>2. CASE NewConsensus
    BY <1>2 DEF NewConsensus, cal, drive, fire, GuardInv, OpenHasCloser
  <1>3. CASE DiverCommands
    BY <1>3 DEF DiverCommands, cal, drive, fire, GuardInv, OpenHasCloser
  <1>4. CASE Tick
    <2>1. GuardInv'
      BY <1>4 DEF Tick, ctl, TypeInv, TypeOK, PlanInv, Asleep, Count, FireType, CalType,
         GuardInv
    <2>2. OpenHasCloser'
      BY <1>4 DEF Tick, TypeInv, TypeOK, Count, DeadmanTopCb, AllShut, DriveType, OpenHasCloser
    <2>. QED BY <2>1, <2>2
  <1>5. CASE PidFail
    <2>1. GuardInv'
      BY <1>5 DEF PidFail, cal, Off, GuardInv
    <2>2. OpenHasCloser'
      BY <1>5 DEF PidFail, fire, cal, TypeInv, TypeOK, Off, DriveType, OpenHasCloser
    <2>. QED BY <2>1, <2>2
  <1>6. CASE PidReadMiss
    <2>1. GuardInv'
      BY <1>6 DEF PidReadMiss, cal, Off, GuardInv
    <2>2. OpenHasCloser'
      BY <1>6 DEF PidReadMiss, fire, cal, TypeInv, TypeOK, Off, DriveType, OpenHasCloser
    <2>. QED BY <2>1, <2>2
  <1>7. CASE PidRun
    BY <1>7 DEF PidRun, cal, drive, fire, GuardInv, OpenHasCloser
  <1>8. CASE FireStart
    <2>1. GuardInv'
      BY <1>8 DEF FireStart, cal, drive, ctl, GuardInv
    <2>2. OpenHasCloser'
      BY <1>8 DEF FireStart, drive, cal, OpenHasCloser
    <2>. QED BY <2>1, <2>2
  <1>9. CASE FlushCheck
    <2>1. GuardInv'
      BY <1>9 DEF FlushCheck, cal, drive, ctl, GuardInv
    <2>2. OpenHasCloser'
      BY <1>9 DEF FlushCheck, drive, cal, OpenHasCloser
    <2>. QED BY <2>1, <2>2
  <1>10. CASE FlushArm
    <2>1. GuardInv'
      BY <1>10, SolenoidConstants DEF FlushArm, cal, ctl, ArmTimer, GuardInv
    <2>2. OpenHasCloser'
      BY <1>10, SolenoidConstants DEF FlushArm, cal, ArmTimer, OpenHasCloser
    <2>. QED BY <2>1, <2>2
  <1>11. CASE FlushPin
    <2>1. GuardInv'
      BY <1>11 DEF FlushPin, cal, ctl, GuardInv
    <2>2. OpenHasCloser'
      BY <1>11 DEF FlushPin, cal, TypeInv, TypeOK, PinHigh, DriveType, FireType, OpenHasCloser
    <2>. QED BY <2>1, <2>2
  <1>12. CASE FlushOff
    <2>1. GuardInv'
      BY <1>12 DEF FlushOff, cal, ctl, Off, GuardInv
    <2>2. OpenHasCloser'
      BY <1>12 DEF FlushOff, cal, TypeInv, TypeOK, Off, DriveType, FireType, OpenHasCloser
    <2>. QED BY <2>1, <2>2
  <1>13. CASE ReadCycle
    <2>1. GuardInv'
      BY <1>13 DEF ReadCycle, cal, drive, ctl, GuardInv
    <2>2. OpenHasCloser'
      BY <1>13 DEF ReadCycle, drive, cal, OpenHasCloser
    <2>. QED BY <2>1, <2>2
  <1>14. CASE Inhibit
    <2>1. GuardInv'
      BY <1>14 DEF Inhibit, cal, ctl, Off, GuardInv
    <2>2. OpenHasCloser'
      BY <1>14 DEF Inhibit, cal, TypeInv, TypeOK, Off, DriveType, OpenHasCloser
    <2>. QED BY <2>1, <2>2
  <1>15. CASE Quiet
    <2>1. GuardInv'
      BY <1>15 DEF Quiet, cal, drive, ctl, GuardInv
    <2>2. OpenHasCloser'
      BY <1>15 DEF Quiet, drive, cal, OpenHasCloser
    <2>. QED BY <2>1, <2>2
  <1>16. CASE Choose
    <2>1. GuardInv'
      BY <1>16 DEF Choose, cal, drive, ctl, GuardInv
    <2>2. OpenHasCloser'
      BY <1>16 DEF Choose, drive, cal, OpenHasCloser
    <2>. QED BY <2>1, <2>2
  <1>17. CASE InjectArm
    <2>1. GuardInv'
      BY <1>17, SolenoidConstants DEF InjectArm, cal, ctl, TypeInv, TypeOK, ArmTimer, FireInv,
         FireType, GuardInv
    <2>2. OpenHasCloser'
      BY <1>17, SolenoidConstants DEF InjectArm, cal, TypeInv, TypeOK, ArmTimer, FireInv,
         FireType, OpenHasCloser
    <2>. QED BY <2>1, <2>2
  <1>18. CASE InjectPin
    <2>1. GuardInv'
      BY <1>18 DEF InjectPin, cal, GuardInv
    <2>2. OpenHasCloser'
      BY <1>18 DEF InjectPin, cal, TypeInv, TypeOK, PinHigh, DriveType, FireType, OpenHasCloser
    <2>. QED BY <2>1, <2>2
  <1>19. CASE InjectOff
    <2>1. GuardInv'
      BY <1>19 DEF InjectOff, cal, ctl, Off, GuardInv
    <2>2. OpenHasCloser'
      BY <1>19 DEF InjectOff, cal, TypeInv, TypeOK, Off, FireInv, DriveType, OpenHasCloser
    <2>. QED BY <2>1, <2>2
  <1>20. CASE NextCycle
    <2>1. GuardInv'
      BY <1>20 DEF NextCycle, cal, drive, ctl, GuardInv
    <2>2. OpenHasCloser'
      BY <1>20 DEF NextCycle, drive, cal, OpenHasCloser
    <2>. QED BY <2>1, <2>2
  <1>21. CASE RespCal
    <2>1. GuardInv'
      BY <1>21, OneSource DEF RespCal, ctl, TypeInv, TypeOK, AllOff, CalType, GuardInv
    <2>2. OpenHasCloser'
      BY <1>21 DEF RespCal, fire, AllOff, AllShut, OpenHasCloser
    <2>. QED BY <2>1, <2>2
  <1>22. CASE RespCalFails
    <2>1. GuardInv'
      BY <1>22, OneSource DEF RespCalFails, cal, ctl, TypeInv, TypeOK, AllOff, CalType, GuardInv
    <2>2. OpenHasCloser'
      BY <1>22 DEF RespCalFails, fire, cal, AllOff, AllShut, OpenHasCloser
    <2>. QED BY <2>1, <2>2
  <1>23. CASE UdsTrigger
    <2>1. OpenHasCloser'
      BY <1>23 DEF UdsTrigger, drive, fire, OpenHasCloser
    <2>2. GuardInv'
      BY <1>23 DEF UdsTrigger, drive, ctl, TypeInv, TypeOK, CalType, GuardInv
    <2>. QED BY <2>1, <2>2
  <1>24. CASE CalTake
    <2>1. OpenHasCloser'
      BY <1>24 DEF CalTake, drive, fire, OpenHasCloser
    <2>2. GuardInv'
      BY <1>24 DEF CalTake, drive, ctl, TypeInv, TypeOK, CalType, GuardInv
    <2>. QED BY <2>1, <2>2
  <1>25. CASE CalArm
    <2>1. GuardInv'
      BY <1>25, SolenoidConstants DEF CalArm, ctl, ArmTimer, GuardInv
    <2>2. OpenHasCloser'
      BY <1>25, SolenoidConstants DEF CalArm, fire, ArmTimer, OpenHasCloser
    <2>. QED BY <2>1, <2>2
  <1>26. CASE CalPin
    <2>1. GuardInv'
      BY <1>26 DEF CalPin, ctl, GuardInv
    <2>2. OpenHasCloser'
      BY <1>26 DEF CalPin, fire, TypeInv, TypeOK, PinHigh, DriveType, GuardInv, OpenHasCloser
    <2>. QED BY <2>1, <2>2
  <1>27. CASE CalWakes
    <2>1. OpenHasCloser'
      BY <1>27 DEF CalWakes, drive, fire, OpenHasCloser
    <2>2. GuardInv'
      BY <1>27 DEF CalWakes, drive, ctl, GuardInv
    <2>. QED BY <2>1, <2>2
  <1>28. CASE CalRelease
    <2>1. GuardInv'
      BY <1>28 DEF CalRelease, ctl, TypeInv, TypeOK, AllOff, CalType, GuardInv
    <2>2. OpenHasCloser'
      BY <1>28 DEF CalRelease, fire, AllOff, AllShut, drive, OpenHasCloser
    <2>. QED BY <2>1, <2>2
  <1>29. CASE Override
    <2>1. GuardInv'
      BY <1>29, SolenoidConstants DEF Override, cal, ctl, ArmTimer, GuardInv
    <2>2. OpenHasCloser'
      BY <1>29, SolenoidConstants DEF Override, fire, cal, ArmTimer, OpenHasCloser
    <2>. QED BY <2>1, <2>2
  <1>30. CASE UNCHANGED svars
    BY <1>30 DEF svars, drive, fire, ctl, cal, GuardInv, OpenHasCloser
  <1>. QED
    BY <1>1, <1>2, <1>3, <1>4, <1>5, <1>6, <1>7, <1>8, <1>9, <1>10, <1>11, <1>12, <1>13, <1>14,
       <1>15, <1>16, <1>17, <1>18, <1>19, <1>20, <1>21, <1>22, <1>23, <1>24, <1>25, <1>26,
       <1>27, <1>28, <1>29, <1>30 DEF Next, FireThread, CalThread

\* An open valve always has the running deadman, the fire thread's own sleep or
\* an owning calibration to close it, however RX handlers, PID and fire threads,
\* calibration and the interrupt interleave on the one shared counter.
THEOREM OpenValveCloses ==
  ASSUME {"can", "uds"} \notin Sources
  PROVE  Spec => []OpenHasCloser
  <1>1. Init => GuardInv /\ OpenHasCloser
    BY DEF Init, AllShut, GuardInv, OpenHasCloser
  <1>2. TypeInv /\ GuardInv /\ OpenHasCloser /\ [Next]_svars => (GuardInv /\ OpenHasCloser)'
    BY GuardStep
  <1>. QED BY <1>1, <1>2, TypeInit, TypeStep, PTL DEF Spec

-----------------------------------------------------------------------------
\* A setpoint flush always answers, in direction, a command given since the last
\* check that could be read: run_setpoint_flush_check consumes every change it sees.
THEOREM FlushFollowsCommand == Spec => []FlushEarned
  <1>1. Init => BaselineInv
    BY DEF Init, BaselineInv
  <1>2. BaselineInv /\ [Next]_svars => BaselineInv'
    <2>. SUFFICES ASSUME BaselineInv, [Next]_svars PROVE BaselineInv'
      OBVIOUS
    <2>1. CASE FireStart
      <3>1. PICK s \in Setpoints \cup {Default} :
              lastCmd' = s /\ seen' = (IF s = cmd THEN cmd ELSE 0) /\ earned' = earned
        BY <2>1 DEF FireStart
      <3>. QED BY <3>1 DEF BaselineInv
    <2>2. CASE FlushCheck
      <3>1. PICK s \in Setpoints \cup {Default} :
              /\ lastCmd' = s /\ seen' = IF s = cmd THEN cmd ELSE 0
              /\ earned' = (\/ s # cmd \/ seen = 0
                            \/ FlushDirection(lastCmd, s) = FlushDirection(seen, cmd))
        BY <2>2 DEF FlushCheck
      <3>. QED BY <3>1 DEF BaselineInv
    <2>3. CASE UNCHANGED <<lastCmd, seen, earned>>
      BY <2>3 DEF BaselineInv
    <2>. QED
      BY <2>1, <2>2, <2>3 DEF Next, FireThread, CalThread, svars, fire, ControlInit,
         NewConsensus,
         DiverCommands, Tick, PidFail, PidReadMiss, PidRun, FlushArm, FlushPin, FlushOff, ReadCycle,
         Inhibit, Quiet, Choose, InjectArm, InjectPin, InjectOff, NextCycle, RespCal, RespCalFails,
         UdsTrigger, CalTake, CalArm, CalPin, CalWakes, CalRelease, Override
  <1>3. BaselineInv => FlushEarned
    BY DEF BaselineInv, FlushEarned
  <1>. QED BY <1>1, <1>2, <1>3, PTL DEF Spec

-----------------------------------------------------------------------------
\* After the PID thread has latched a consensus failure and published the zero
\* duty, the fire thread completes at most the one injection it had decided on.
THEOREM FailureQuietsInjection == Spec => []FailQuiets
  <1>1. Init => QuietInv
    BY DEF Init, QuietInv
  <1>2. TypeInv /\ QuietInv /\ [Next]_svars => QuietInv'
    <2>. SUFFICES ASSUME TypeInv, QuietInv, [Next]_svars PROVE QuietInv'
      OBVIOUS
    <2>1. CASE PidFail
      BY <2>1 DEF PidFail, PublishDuty, Lost, QuietInv
    <2>2. CASE PidReadMiss
      BY <2>2 DEF PidReadMiss, QuietInv
    <2>3. CASE PidRun
      BY <2>3 DEF PidRun, QuietInv
    <2>4. CASE ReadCycle
      <3>1. failed /\ strayed # 9 => fireOn' = 0
        BY <2>4, FireTimingZero, SolenoidConstants DEF ReadCycle, QuietInv
      <3>. QED BY <2>4, <3>1 DEF ReadCycle, ctl, QuietInv
    <2>5. CASE Choose
      BY <2>5 DEF Choose, ctl, QuietInv
    <2>6. CASE InjectArm
      BY <2>6 DEF InjectArm, ctl, QuietInv
    <2>7. CASE InjectPin
      BY <2>7 DEF InjectPin, QuietInv
    <2>8. CASE /\ UNCHANGED <<mode, duty, failed, strayed, fireOn>>
               /\ firePc' = firePc \/ firePc' \notin {"decide", "arm", "pin"}
      BY <2>8 DEF QuietInv
    <2>. QED
      BY <2>1, <2>2, <2>3, <2>4, <2>5, <2>6, <2>7, <2>8
      DEF Next, FireThread, CalThread, svars, fire, ctl, ControlInit, NewConsensus, DiverCommands,
          Tick, FireStart, FlushCheck, FlushArm, FlushPin, FlushOff, Inhibit, Quiet, InjectOff,
          NextCycle, RespCal, RespCalFails, UdsTrigger, CalTake, CalArm, CalPin, CalWakes,
          CalRelease, Override
  <1>3. QuietInv => FailQuiets
    BY DEF QuietInv, FailQuiets
  <1>. QED BY <1>1, <1>2, <1>3, TypeInit, TypeStep, PTL DEF Spec

-----------------------------------------------------------------------------
\* The fire thread sleeps only through an on-time or an off-time.
AwakeInv == firePc \notin {"on", "off", "flushOn"} => wake = 0

\* A pulse of the control loop is open only while the fire thread sleeps through it:
\* what it has been open and what is left to sleep make up an on-time. The deadman
\* closes it at the hardware limit, unless it was stopped before the pin went high, a
\* calibration owns the bank, or an unguarded calibration pulse has rearmed it; that
\* one ends before the calibration thread goes on.
ControlPulse ==
  \A c \in Channels : valve[c] = "control" =>
    /\ firePc \in {"on", "flushOn"} /\ fireCh = c
    /\ firePc = "on" => openFor[c] + wake <= fireOn
    /\ firePc = "flushOn" => openFor[c] + wake <= FlushOn
    /\ \/ openFor[c] + deadman <= MaxOn
       \/ deadman = 0 \/ running
       \/ calPc = "armed" /\ deadman <= CalPulse
       \/ calPc = "sleep" /\ deadman <= calWake

\* The guard: a run of the CAN trigger has it from before its request is queued to its end.
CanGuard ==
  "uds" \notin source =>
    /\ running \/ (calPc = "idle" /\ calSub = <<>>)
    /\ calSub = <<>> \/ (calPc = "idle" /\ Len(calSub) = 1)

\* The pulse after this one, if any, is of the same channel.
Repeats(p) == Len(p) > 1 => p[1] = p[2]

\* The fire thread is past its test of the guard, and has yet to arm the deadman.
Committed == firePc \in {"arm", "flushArm"}

\* The deadman closes a guarded calibration pulse before the next pulse, unless the
\* fire thread rearms it. That it can do once, having tested the guard before it was
\* taken: before the first pulse has slept, and the second is of the same valve.
CalPulses ==
  "uds" \notin source =>
    /\ Committed /\ running =>
         /\ calPc # "idle" => Repeats(plan)
         /\ calPc = "sleep" => calWake = CalPulse
    /\ calPc = "armed" => deadman > 0 /\ (Repeats(plan) \/ deadman <= CalPulse)
    /\ calPc = "sleep" => Repeats(plan) \/ deadman <= calWake
    /\ \A c \in Channels : valve[c] = "cal" =>
         /\ running /\ deadman > 0 /\ calPc # "idle"
         /\ Committed /\ calPc = "sleep" => openFor[c] = 0
         /\ plan # <<>> => Head(plan) = c
         /\ calPc = "sleep" => openFor[c] + deadman <= MaxOn
         /\ calPc # "sleep" => openFor[c] <= MaxOn

PulseInv == AwakeInv /\ ControlPulse /\ CanGuard /\ CalPulses

\* A sleep is over before the next step is taken.
LEMMA AwakeStep ==
  ASSUME TypeInv, AwakeInv, [Next]_svars  PROVE  AwakeInv'
  <1>. USE DEF AwakeInv, TypeInv, TypeOK, FireType
  <1>1. CASE Tick
    BY <1>1 DEF Tick, Count
  <1>2. CASE FireStart
    BY <1>2 DEF FireStart
  <1>3. CASE FlushCheck
    BY <1>3 DEF FlushCheck
  <1>4. CASE FlushArm
    BY <1>4 DEF FlushArm
  <1>5. CASE FlushPin
    BY <1>5 DEF FlushPin
  <1>6. CASE FlushOff
    BY <1>6 DEF FlushOff
  <1>7. CASE ReadCycle
    BY <1>7 DEF ReadCycle
  <1>8. CASE Inhibit
    BY <1>8 DEF Inhibit
  <1>9. CASE Quiet
    BY <1>9 DEF Quiet
  <1>10. CASE Choose
    BY <1>10 DEF Choose
  <1>11. CASE InjectArm
    BY <1>11 DEF InjectArm
  <1>12. CASE InjectPin
    BY <1>12 DEF InjectPin
  <1>13. CASE InjectOff
    BY <1>13 DEF InjectOff
  <1>14. CASE NextCycle
    BY <1>14 DEF NextCycle
  <1>15. CASE UNCHANGED <<firePc, wake>>
    BY <1>15
  <1>. QED
    BY <1>1, <1>2, <1>3, <1>4, <1>5, <1>6, <1>7, <1>8, <1>9, <1>10, <1>11, <1>12, <1>13,
       <1>14, <1>15
    DEF Next, FireThread, CalThread, svars, drive, fire, ctl, cal, ControlInit, NewConsensus,
        DiverCommands, PidFail, PidReadMiss, PidRun, RespCal, RespCalFails, UdsTrigger,
        CalTake, CalArm, CalPin, CalWakes, CalRelease, Override

\* A control pulse is closed by the thread that opened it, before its on-time is over.
LEMMA ControlStep ==
  ASSUME TypeInv, ControlPulse, [Next]_svars  PROVE  ControlPulse'
  <1>. USE DEF ControlPulse, TypeInv, TypeOK, DriveType, FireType, CalType
  <1>1. CASE Tick
    <2>. SUFFICES ASSUME NEW c \in Channels, valve'[c] = "control"
                  PROVE  /\ firePc' \in {"on", "flushOn"} /\ fireCh' = c
                         /\ firePc' = "on" => openFor'[c] + wake' <= fireOn'
                         /\ firePc' = "flushOn" => openFor'[c] + wake' <= FlushOn
                         /\ \/ openFor'[c] + deadman' <= MaxOn
                            \/ deadman' = 0 \/ running'
                            \/ calPc' = "armed" /\ deadman' <= CalPulse
                            \/ calPc' = "sleep" /\ deadman' <= calWake'
      OBVIOUS
    <2>1. /\ valve[c] = "control" /\ deadman # 1 /\ openFor'[c] = openFor[c] + 1
          /\ UNCHANGED <<firePc, fireCh, fireOn, running, calPc>>
      BY <1>1 DEF Tick, DeadmanTopCb, AllShut
    <2>2. /\ wake' = (IF wake = 0 THEN 0 ELSE wake - 1)
          /\ calWake' = (IF calWake = 0 THEN 0 ELSE calWake - 1)
          /\ deadman' = (IF deadman = 0 THEN 0 ELSE deadman - 1)
      BY <1>1 DEF Tick, Count
    <2>3. firePc \in {"on", "flushOn"} /\ fireCh = c
      BY <2>1
    <2>4. wake > 0 /\ (calPc = "armed" => calWake > 0) /\ (calPc = "sleep" => calWake > 0)
      BY <1>1, <2>3 DEF Tick, Asleep
    <2>5. calPc # "armed"
      BY <2>4 DEF PlanInv
    <2>6. /\ openFor[c] \in Nat /\ deadman \in Nat /\ wake \in Nat /\ calWake \in Nat
          /\ fireOn \in Nat /\ FlushOn \in Nat /\ MaxOn \in Nat
      BY SolenoidConstants
    <2>7. /\ firePc = "on" => openFor[c] + wake <= fireOn
          /\ firePc = "flushOn" => openFor[c] + wake <= FlushOn
          /\ \/ openFor[c] + deadman <= MaxOn
             \/ deadman = 0 \/ running
             \/ calPc = "sleep" /\ deadman <= calWake
      BY <2>1, <2>5
    <2>. HIDE DEF ControlPulse, TypeInv, TypeOK, DriveType, FireType, CalType
    <2>8. /\ openFor'[c] + wake' = openFor[c] + wake
          /\ deadman = 0 => deadman' = 0
          /\ deadman # 0 => openFor'[c] + deadman' = openFor[c] + deadman
          /\ deadman <= calWake => deadman' <= calWake'
      BY <2>1, <2>2, <2>4, <2>6
    <2>9. \/ openFor'[c] + deadman' <= MaxOn
          \/ deadman' = 0 \/ running'
          \/ calPc' = "sleep" /\ deadman' <= calWake'
      BY <2>1, <2>7, <2>8
    <2>10. firePc' = "on" => openFor'[c] + wake' <= fireOn'
      BY <2>1, <2>7, <2>8
    <2>11. firePc' = "flushOn" => openFor'[c] + wake' <= FlushOn
      BY <2>1, <2>7, <2>8
    <2>12. firePc' \in {"on", "flushOn"} /\ fireCh' = c
      BY <2>1, <2>3
    <2>. QED BY Zenon, <2>9, <2>10, <2>11, <2>12
  <1>2. CASE PidFail
    BY <1>2 DEF PidFail, cal, Off, fire
  <1>3. CASE PidReadMiss
    BY <1>3 DEF PidReadMiss, cal, Off, fire
  <1>4. CASE FireStart
    BY <1>4 DEF FireStart, cal, drive
  <1>5. CASE FlushCheck
    BY <1>5 DEF FlushCheck, cal, drive
  <1>6. CASE FlushArm
    BY <1>6 DEF FlushArm, cal
  <1>7. CASE FlushPin
    BY <1>7, SolenoidConstants DEF FlushPin, cal, PinHigh
  <1>8. CASE FlushOff
    BY <1>8 DEF FlushOff, cal, Off
  <1>9. CASE ReadCycle
    BY <1>9 DEF ReadCycle, cal, drive
  <1>10. CASE Inhibit
    BY <1>10 DEF Inhibit, cal, Off
  <1>11. CASE Quiet
    BY <1>11 DEF Quiet, cal, drive
  <1>12. CASE Choose
    BY <1>12 DEF Choose, cal, drive
  <1>13. CASE InjectArm
    BY <1>13 DEF InjectArm, cal
  <1>14. CASE InjectPin
    BY <1>14, SolenoidConstants DEF InjectPin, cal, PinHigh
  <1>15. CASE InjectOff
    BY <1>15 DEF InjectOff, cal, Off, FireInv
  <1>16. CASE NextCycle
    BY <1>16 DEF NextCycle, cal, drive
  <1>17. CASE RespCal
    BY <1>17 DEF RespCal, AllOff, AllShut, fire
  <1>18. CASE RespCalFails
    BY <1>18 DEF RespCalFails, cal, AllOff, AllShut, fire
  <1>19. CASE CalPin
    BY <1>19, SolenoidConstants DEF CalPin, PinHigh, fire
  <1>20. CASE CalRelease
    BY <1>20 DEF CalRelease, AllOff, AllShut, fire, drive
  <1>21. CASE Override
    BY <1>21 DEF Override, PinHigh, fire, cal, FireInv
  <1>22. CASE CalArm
    BY <1>22, SolenoidConstants DEF CalArm, ArmTimer, fire
  <1>23. CASE CalWakes
    BY <1>23 DEF CalWakes, drive, fire
  <1>24. CASE CalTake
    BY <1>24 DEF CalTake, drive, fire
  <1>25. CASE UNCHANGED <<valve, deadman, openFor, firePc, fireCh, fireOn, wake, running, calPc,
                          calWake>>
    BY <1>25
  <1>. QED
    BY <1>1, <1>2, <1>3, <1>4, <1>5, <1>6, <1>7, <1>8, <1>9, <1>10, <1>11, <1>12, <1>13,
       <1>14, <1>15, <1>16, <1>17, <1>18, <1>19, <1>20, <1>21, <1>22, <1>23, <1>24, <1>25
    DEF Next, FireThread, CalThread, svars, drive, fire, ctl, cal, ControlInit, NewConsensus,
        DiverCommands, PidRun, UdsTrigger

\* Only the calibration thread lets go of the guard, when the run it was taken for ends.
LEMMA CanGuardStep ==
  ASSUME TypeInv, CanGuard, [Next]_svars  PROVE  CanGuard'
  <1>. USE DEF CanGuard, TypeInv, TypeOK, CalType
  <1>1. CASE RespCal
    BY <1>1 DEF RespCal, ctl
  <1>2. CASE RespCalFails
    BY <1>2 DEF RespCalFails, ctl, cal
  <1>3. CASE UdsTrigger
    BY <1>3 DEF UdsTrigger, ctl
  <1>4. CASE CalTake
    BY <1>4 DEF CalTake, ctl
  <1>5. CASE CalArm
    BY <1>5 DEF CalArm, ctl
  <1>6. CASE CalPin
    BY <1>6 DEF CalPin, ctl
  <1>7. CASE CalWakes
    BY <1>7 DEF CalWakes, ctl
  <1>8. CASE CalRelease
    BY <1>8 DEF CalRelease, ctl
  <1>9. CASE UNCHANGED <<source, running, calPc, calSub>>
    BY <1>9
  <1>. QED
    BY <1>1, <1>2, <1>3, <1>4, <1>5, <1>6, <1>7, <1>8, <1>9
    DEF Next, FireThread, CalThread, svars, drive, fire, ctl, cal, ControlInit, NewConsensus,
        DiverCommands, Tick, PidFail, PidReadMiss, PidRun, FireStart, FlushCheck, FlushArm,
        FlushPin, FlushOff, ReadCycle, Inhibit, Quiet, Choose, InjectArm, InjectPin,
        InjectOff, NextCycle, Override

\* The fire thread's one late rearm finds the first pulse of a valve just begun.
LEMMA CalPulsesStep ==
  ASSUME TypeInv, AwakeInv, CanGuard, CalPulses, [Next]_svars  PROVE  CalPulses'
  <1>. USE DEF CalPulses, Committed, Repeats, TypeInv, TypeOK, DriveType, FireType, CalType,
               PlanInv
  <1>1. CASE Tick
    <2>1. /\ deadman \in Nat /\ calWake \in Nat /\ MaxOn \in Nat /\ openFor \in [Channels -> Nat]
          /\ UNCHANGED <<source, running, firePc, calPc, plan>>
      BY <1>1, SolenoidConstants DEF Tick, ctl
    <2>2. ~Committed /\ (calPc # "sleep" => calPc = "idle") /\ (calPc = "sleep" => calWake > 0)
      BY <1>1 DEF Tick, Asleep, AwakeInv
    <2>3. /\ deadman' = (IF deadman = 0 THEN 0 ELSE deadman - 1)
          /\ calWake' = (IF calWake = 0 THEN 0 ELSE calWake - 1)
      BY <1>1 DEF Tick, Count
    <2>4. ASSUME NEW c \in Channels, valve'[c] = "cal"
          PROVE  valve[c] = "cal" /\ deadman # 1 /\ openFor'[c] = openFor[c] + 1
      BY <1>1, <2>4 DEF Tick, DeadmanTopCb, AllShut
    <2>5. "uds" \notin source => (calPc = "sleep" => Repeats(plan) \/ deadman' <= calWake')
      BY <2>1, <2>2, <2>3
    <2>6. ASSUME "uds" \notin source, NEW c \in Channels, valve'[c] = "cal"
          PROVE  /\ running /\ deadman' > 0 /\ calPc = "sleep" /\ (plan # <<>> => Head(plan) = c)
                 /\ openFor'[c] + deadman' <= MaxOn
      <3>1. running /\ deadman > 0 /\ calPc = "sleep" /\ (plan # <<>> => Head(plan) = c)
            /\ openFor[c] + deadman <= MaxOn
        BY <2>2, <2>4, <2>6
      <3>. HIDE DEF CalPulses, Committed, Repeats, TypeInv, TypeOK, DriveType, FireType,
                   CalType, PlanInv
      <3>2. deadman' = deadman - 1 /\ openFor'[c] = openFor[c] + 1 /\ openFor[c] \in Nat
            /\ deadman # 1
        BY <2>1, <2>3, <2>4, <2>6, <3>1
      <3>. QED BY <2>1, <3>1, <3>2
    <2>. QED BY <2>1, <2>2, <2>5, <2>6
  <1>2. CASE PidFail
    BY <1>2 DEF PidFail, Off, fire, cal
  <1>3. CASE PidReadMiss
    BY <1>3 DEF PidReadMiss, Off, fire, cal
  <1>4. CASE FireStart
    BY <1>4 DEF FireStart, drive, ctl, cal
  <1>5. CASE FlushCheck
    BY <1>5 DEF FlushCheck, drive, ctl, cal, CanGuard
  <1>6. CASE FlushArm
    BY <1>6, SolenoidConstants DEF FlushArm, ArmTimer, ctl, cal, CanGuard
  <1>7. CASE FlushPin
    BY <1>7 DEF FlushPin, PinHigh, ctl, cal
  <1>8. CASE FlushOff
    BY <1>8 DEF FlushOff, Off, ctl, cal
  <1>9. CASE ReadCycle
    BY <1>9 DEF ReadCycle, drive, ctl, cal
  <1>10. CASE Inhibit
    BY <1>10 DEF Inhibit, Off, ctl, cal
  <1>11. CASE Quiet
    BY <1>11 DEF Quiet, drive, ctl, cal
  <1>12. CASE Choose
    BY <1>12 DEF Choose, drive, ctl, cal, CanGuard
  <1>13. CASE InjectArm
    BY <1>13, SolenoidConstants DEF InjectArm, ArmTimer, FireInv, ctl, cal, CanGuard
  <1>14. CASE InjectPin
    BY <1>14 DEF InjectPin, PinHigh, cal
  <1>15. CASE InjectOff
    BY <1>15 DEF InjectOff, Off, ctl, cal
  <1>16. CASE NextCycle
    BY <1>16 DEF NextCycle, drive, ctl, cal
  <1>17. CASE RespCal
    BY <1>17 DEF RespCal, AllOff, AllShut, fire, ctl, CanGuard
  <1>18. CASE RespCalFails
    BY <1>18 DEF RespCalFails, AllOff, AllShut, fire, ctl, cal, CanGuard
  <1>19. CASE UdsTrigger
    BY <1>19 DEF UdsTrigger, ctl
  <1>20. CASE CalTake
    BY <1>20, CalPlansRepeat DEF CalTake, drive, fire, ctl
  <1>21. CASE CalArm
    BY <1>21, SolenoidConstants DEF CalArm, ArmTimer, fire, ctl
  <1>22. CASE CalPin
    BY <1>22, SolenoidConstants DEF CalPin, PinHigh, fire, ctl, CanGuard
  <1>23. CASE CalWakes
    <2>1. plan # <<>> /\ calWake = 0 /\ CalPulse > 0 /\ plan \in Seq(Channels)
      BY <1>23, SolenoidConstants DEF CalWakes
    <2>2. Tail(plan) # <<>> => Len(plan) > 1 /\ Head(Tail(plan)) = plan[2] /\ Head(plan) = plan[1]
      BY <2>1
    <2>3. "uds" \notin source =>
            \A c \in Channels : valve[c] = "cal" => (Tail(plan) # <<>> => Head(Tail(plan)) = c)
      <3>. SUFFICES ASSUME "uds" \notin source, NEW c \in Channels, valve[c] = "cal",
                           Tail(plan) # <<>>
                    PROVE  Head(Tail(plan)) = c
        OBVIOUS
      <3>1. Head(plan) = c /\ deadman > 0 /\ (Repeats(plan) \/ deadman <= 0)
        BY <1>23, <2>1 DEF CalWakes
      <3>2. Repeats(plan)
        BY <3>1
      <3>. QED BY <2>2, <3>1, <3>2
    <2>4. "uds" \notin source => ~(Committed /\ running)
      BY <1>23, <2>1 DEF CalWakes
    <2>5. calPc' = "ready" /\ plan' = Tail(plan) /\ calWake' = calWake
          /\ UNCHANGED <<source, firePc, running, deadman, valve, openFor>>
      BY <1>23 DEF CalWakes, drive, fire, ctl
    <2>6. openFor \in [Channels -> Nat] /\ deadman \in Nat /\ MaxOn \in Nat
      BY SolenoidConstants
    <2>7. calPc = "sleep"
      BY <1>23 DEF CalWakes
    <2>8. "uds" \notin source => \A c \in Channels : valve[c] = "cal" =>
            running /\ deadman > 0 /\ openFor[c] <= MaxOn
      BY <2>6, <2>7
    <2>. QED BY <2>3, <2>4, <2>5, <2>8
  <1>24. CASE CalRelease
    BY <1>24 DEF CalRelease, AllOff, AllShut, fire, ctl, drive
  <1>25. CASE Override
    BY <1>25, SolenoidConstants DEF Override, PinHigh, ArmTimer, fire, ctl, cal, CanGuard
  <1>26. CASE UNCHANGED <<source, running, firePc, calPc, plan, calWake, deadman, valve, openFor>>
    BY <1>26
  <1>. QED
    BY <1>1, <1>2, <1>3, <1>4, <1>5, <1>6, <1>7, <1>8, <1>9, <1>10, <1>11, <1>12, <1>13,
       <1>14, <1>15, <1>16, <1>17, <1>18, <1>19, <1>20, <1>21, <1>22, <1>23, <1>24, <1>25,
       <1>26
    DEF Next, FireThread, CalThread, svars, drive, fire, ctl, cal, ControlInit, NewConsensus,
        DiverCommands, PidRun

\* A pulse of the control loop outlasts max_on_time_us only if low pressure made its
\* on-time longer than that and a calibration or a refused request has taken the one
\* deadman away from it, and never outlasts that on-time; a guarded calibration pulse
\* never does.
THEOREM PulsesBounded == Spec => []PulseBounded
  <1>1. Init => PulseInv
    BY DEF Init, AllShut, PulseInv, AwakeInv, ControlPulse, CanGuard, CalPulses, Committed
  <1>2. TypeInv /\ PulseInv /\ [Next]_svars => PulseInv'
    BY AwakeStep, ControlStep, CanGuardStep, CalPulsesStep DEF PulseInv
  <1>3. TypeInv /\ PulseInv => PulseBounded
    <2>. SUFFICES ASSUME TypeInv, PulseInv, NEW c \in Channels
                  PROVE  /\ valve[c] = "control" => ControlBounded(c)
                         /\ valve[c] = "cal" /\ "uds" \notin source => openFor[c] <= MaxOn
      BY DEF PulseBounded
    <2>1. /\ openFor[c] \in Nat /\ deadman \in Nat /\ wake \in Nat /\ MaxOn \in Nat
          /\ fireOn \in Nat /\ FlushOn \in 1..MaxOn
      BY SolenoidConstants DEF TypeInv, TypeOK, DriveType, FireType
    <2>2. valve[c] = "control" => ControlBounded(c)
      BY <2>1 DEF PulseInv, ControlPulse, ControlBounded
    <2>3. valve[c] = "cal" /\ "uds" \notin source => openFor[c] <= MaxOn
      BY <2>1 DEF PulseInv, CalPulses
    <2>. QED BY <2>2, <2>3
  <1>. QED BY <1>1, <1>2, <1>3, TypeInit, TypeStep, PTL DEF Spec

=============================================================================
