------------------------------ MODULE MCCells ------------------------------
(***************************************************************************)
(* Cells with every driver in turn. The other two cells are absent, near,  *)
(* at the boundary of agreement, outliers or at the top of the range.      *)
(***************************************************************************)
EXTENDS Cells

MCOthers == {<<0, 0>>, <<88, 0>>, <<0, 116>>, <<255, 0>>, <<88, 110>>, <<85, 115>>,
             <<116, 131>>, <<110, 110>>, <<255, 255>>}
===========================================================================
