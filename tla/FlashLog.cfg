SPECIFICATION FairSpec
CONSTANTS
  NSectors = 3
  Cap = 5
  Chunk = 4
  QueueDepth = 1
  BatchCap = 2
  Cuts = {2}
  OldClean <- TextCut
  MaxOffers = 2
  MaxTrouble = 1
INVARIANTS
  NothingVanishes
  MarkersMirrored
PROPERTIES
  KeepsLog
  StagedFlushes
CHECK_DEADLOCK FALSE
