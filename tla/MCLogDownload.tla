--------------------------- MODULE MCLogDownload ---------------------------
(***************************************************************************)
(* LogDownload on a ring of three sectors that the second entry written    *)
(* makes rotate, and chunks of two units that split an entry. There is     *)
(* every kind of selector, and four entries to write, so that dives share  *)
(* sectors and span the end of the ring.                                   *)
(***************************************************************************)
EXTENDS LogDownload

AllSelectors == Latests \cup [rid : {"boot", "dive"}, id : {2}]
============================================================================
