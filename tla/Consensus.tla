------------------------------ MODULE Consensus ------------------------------
(***************************************************************************)
(* The vote over the oxygen cells (oxygen_cell_math.c), the PPO2 alarm     *)
(* (alarm.c) and what the PPO2 broadcast makes of a vote                   *)
(* (divecan_ppo2_math.c, divecan_ppo2_tx.c), as functions.                 *)
(*                                                                         *)
(* A cell message is [prec, status, age]: the reading in centibar, the     *)
(* status the driver gave it and the age of its time stamp. The wire form  *)
(* of a reading saturates below the failure value, so 255 is a valid       *)
(* precise reading with the wire value 254.                                *)
(***************************************************************************)
EXTENDS Integers, FiniteSets

CONSTANTS MaxDeviation, \* centibar two cells may differ
          Staleness     \* STALENESS_TIMEOUT_MS, in ticks

ASSUME VoteConstants == MaxDeviation \in Nat /\ Staleness \in Nat

PPO2_FAIL      == 255
MAX_VALID_PPO2 == 254
Slots          == 1..3

ppo2_centibar_to_wire(p) == IF p > MAX_VALID_PPO2 THEN MAX_VALID_PPO2 ELSE p

Apart(a, b) == IF a > b THEN a - b ELSE b - a
Far(a, b)   == Apart(a, b) > MaxDeviation
Sum(cells, S) == LET v(i) == IF i \in S THEN cells[i].prec ELSE 0 IN v(1) + v(2) + v(3)

\* The rounded average, or a failure when it leaves the valid range.
Average(cells, S) ==
  LET n   == Cardinality(S)
      sum == Sum(cells, S)
  IN  IF sum > MAX_VALID_PPO2 * n THEN PPO2_FAIL ELSE (2 * sum + n) \div (2 * n)

Excludes(m) == m.prec = 0 \/ m.status # "ok" \/ m.age > Staleness

two_cell_consensus(cells, S) ==
  IF \E i, j \in S : Far(cells[i].prec, cells[j].prec)
    THEN [ppo2 |-> PPO2_FAIL, include |-> {}]
    ELSE [ppo2 |-> Average(cells, S), include |-> S]

\* The closest pair, the first of several, decides about the third cell.
three_cell_consensus(cells) ==
  LET d12  == Apart(cells[1].prec, cells[2].prec)
      d13  == Apart(cells[1].prec, cells[3].prec)
      d23  == Apart(cells[2].prec, cells[3].prec)
      best == IF d12 <= d13 /\ d12 <= d23 THEN <<d12, {1, 2}, 3>>
              ELSE IF d13 <= d23 THEN <<d13, {1, 3}, 2>> ELSE <<d23, {2, 3}, 1>>
  IN  IF best[1] > MaxDeviation
        THEN [ppo2 |-> PPO2_FAIL, include |-> {}]
      ELSE IF Apart(2 * cells[best[3]].prec, Sum(cells, best[2])) > 2 * MaxDeviation
        THEN [ppo2 |-> Average(cells, best[2]), include |-> best[2]]
        ELSE [ppo2 |-> Average(cells, Slots), include |-> Slots]

\* One usable cell gives a value but no vote, so that the handset alarms.
consensus_calculate(cells, count) ==
  LET S == {i \in 1..count : ~Excludes(cells[i])}
      n == Cardinality(S)
  IN  CASE n = 0 -> [ppo2 |-> PPO2_FAIL, include |-> {}]
        [] n = 1 -> [ppo2 |-> ppo2_centibar_to_wire(Sum(cells, S)), include |-> {}]
        [] n = 2 -> two_cell_consensus(cells, S)
        [] n = 3 -> three_cell_consensus(cells)

consensus_confidence(r) == Cardinality(r.include)

alarm_ppo2_reasons(r, low, high) ==
  IF r.ppo2 = PPO2_FAIL \/ consensus_confidence(r) = 0 THEN {"invalid"}
  ELSE IF r.ppo2 < low THEN {"low"}
  ELSE IF r.ppo2 > high THEN {"high"} ELSE {}

\* Every slot is sent as 0xFF, the calibration prompt, while a cell needs
\* calibrating; otherwise the failed ones are.
divecan_set_failed_cells(status, calibrating) ==
  LET masked == ~calibrating /\ \E i \in Slots : status[i] = "needcal"
  IN  [masked |-> masked,
       slots  |-> IF masked THEN Slots ELSE {i \in Slots : status[i] = "fail"}]

\* The slots sent as voted in. A two-cell head may show the consensus in its
\* third slot, and calls it included only when real cells voted.
IncludedSlots(r, masked, slot3) ==
  IF slot3 /\ ~masked
    THEN (r.include \ {3}) \cup
         (IF r.ppo2 # PPO2_FAIL /\ consensus_confidence(r) > 0 THEN {3} ELSE {})
    ELSE r.include
=============================================================================
