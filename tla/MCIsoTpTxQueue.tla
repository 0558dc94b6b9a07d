--------------------------- MODULE MCIsoTpTxQueue ---------------------------
(* Small instances of IsoTpTxQueue for TLC. *)
EXTENDS IsoTpTxQueue

CONSTANTS handset, all

MCTargets == {handset}
MCLengths == {3, 12, 30}    \* SF; FF + 1 full CF; FF + 4 CFs, the last partial
MCBlockSizes == {0, 2}
=============================================================================
