SPECIFICATION FairSpec
CONSTANTS
  Services = {"default", "programming", "34", "36", "37", "31",
    "revert", "restore", "capture", "massErase", "nvsErase"}
  Size = 2
  SeqMod = 3
  StateTicks = 1
  PostTicks = 2
  MaxReqs = 7
  MaxTrouble = 1
  MaxSwaps = 2
INVARIANTS
  ActivatedBoots
  ArenaNotStranded
  WriterNotStranded
PROPERTIES
  RestoreStagesConfirmed
  PostEnds
CHECK_DEADLOCK FALSE
