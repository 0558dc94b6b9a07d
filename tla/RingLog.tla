------------------------------ MODULE RingLog ------------------------------
(***************************************************************************)
(* What one flash-log ring promises, whatever happens to the power supply: *)
(* records are added at the young end, and what is lost is lost from the   *)
(* old end. Erasing the log is losing all of it from the old end. Nothing  *)
(* is promised when an unreadable ring is erased to recover it and the     *)
(* erase does not get to its end.                                          *)
(***************************************************************************)
EXTENDS Naturals, Sequences

VARIABLES kept, \* the records a reader finds, oldest first
          wipes \* the recoveries that stopped half-way

\* An entry is completed; it carries one record or a batch of them.
Extend == /\ Len(kept) < Len(kept')
          /\ SubSeq(kept', 1, Len(kept)) = kept

\* The oldest records go, perhaps all of them.
Expire == /\ Len(kept') < Len(kept)
          /\ kept' = SubSeq(kept, Len(kept) - Len(kept') + 1, Len(kept))

Wipe == wipes' = wipes + 1

Spec == [][Extend \/ Expire \/ Wipe]_kept
====
