---------------------------- MODULE MCCalibration ----------------------------
(* TLC instances of Calibration: two cells, a method for all cells and one *)
(* for the analog cell only.                                               *)
EXTENDS Calibration

MCMethods == {{1}, {1, 2}}
MCSetpoints == {19, 130}
=============================================================================
