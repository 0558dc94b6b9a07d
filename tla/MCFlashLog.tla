---------------------------- MODULE MCFlashLog ----------------------------
(***************************************************************************)
(* FlashLog with three sectors of two to four entries, and a cursor search *)
(* whose chunk is shorter than a sector and than the longest entry.        *)
(***************************************************************************)
EXTENDS FlashLog

\* An earlier erase of the sector the text ring opens next was cut short, or none.
TextCut == [tel |-> Cap, txt |-> 2]
===========================================================================
