SPECIFICATION FairCellsSpec
CONSTANTS
  Kinds = {"diveo2", "o2s", "analog"}
  Families = {"pyro"}
  Odd = {0, 255, 256}
  Others <- MCOthers
  Stops = {"echo"}
  MaxDeviation = 15
  Staleness = 2
  DigitalTimeout = 1
  BroadcastWait = 1
  RxTimeout = 2
  MaxTrouble = 1
  MaxAsks = 1
INVARIANTS
  ShownIsVoted
  BroadcastConverges
CHECK_DEADLOCK FALSE
PROPERTIES
  HealthyIsHeard
