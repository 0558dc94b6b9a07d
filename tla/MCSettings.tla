----------------------------- MODULE MCSettings -----------------------------
(***************************************************************************)
(* A head with an O2 solenoid and no diluent flush: every control mode, but *)
(* no CAL_CHECK. Its menu leads with the battery, as the classic eCCR's     *)
(* does, repeats a setting and leaves a slot empty. A float has ten bits,   *)
(* and a gain of 1.0 is 60 on the wire: the largest wire value is about six  *)
(* times 2^Mantissa, as in the shipped firmware.                             *)
(***************************************************************************)
EXTENDS Settings

MCMenuSlots == <<7, 1, 7, -1, 4>>
MCMax == [s \in 0 .. 11 |->
            CASE s \in 4 .. 6 -> 6000 [] s = 1 -> 2 [] s = 2 -> 4 [] s = 7 -> 3 [] OTHER -> 1]
MCValid == [s \in 0 .. 11 |-> IF s = 2 THEN 0 .. 3 ELSE 0 .. MCMax[s]]
MCDefault == [s \in 1 .. 11 |-> CASE s \in 4 .. 6 -> GainOf(1) [] s = 2 -> 3 [] OTHER -> 0]

Empty == [k \in Keys |-> << >>]
\* Stored by a head with a diluent flush: CAL_CHECK, control on, cell 2 broadcasting.
FromOther == [Empty EXCEPT ![{1}] = << [s \in {1} |-> 1] >>,
                           ![{2}] = << [s \in {2} |-> 4] >>,
                           ![8 .. 10] = << [s \in 8 .. 10 |-> IF s = 9 THEN 1 ELSE 0] >>]
MCLeftovers == {Empty, FromOther}

\* The menu is 7, 1, 4, 0, 2, 3, 5, 6, 8, 9, 10, 11: the battery, the control mode,
\* kp small and large, the firmware commit, CAL_CHECK, cells 1 and 2.
MCRequests == { <<0, 2>>, <<1, 2>>, <<1, 3>>, <<2, 7>>, <<2, 5999>>, <<3, 0>>, <<4, 4>>, <<8, 1>>, <<9, 0>> }

\* A head without an O2 solenoid that finds the depth flag of one that has it: the
\* values with which SavedIsLoaded does not hold.
PlainValid == [MCValid EXCEPT ![1] = {0}, ![2] = 0 .. 2, ![3] = {0}]
PlainDefault == [MCDefault EXCEPT ![2] = 0]
PlainLeftovers == {Empty, [Empty EXCEPT ![{3}] = << [s \in {3} |-> 1] >>]}
=============================================================================
