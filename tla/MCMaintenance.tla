--------------------------- MODULE MCMaintenance ---------------------------
(***************************************************************************)
(* Maintenance with images of two blocks.                                  *)
(***************************************************************************)
EXTENDS Maintenance
===========================================================================
