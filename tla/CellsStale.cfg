SPECIFICATION CellsSpec
CONSTANTS
  Kinds = {"o2s"}
  Families = {"pyro"}
  Odd = {}
  Others <- MCOthers
  Stops = {"echo", "full"}
  MaxDeviation = 15
  Staleness = 2
  DigitalTimeout = 1
  BroadcastWait = 1
  RxTimeout = 2
  MaxTrouble = 5
  MaxAsks = 0
INVARIANTS
  ShownIsVoted
CHECK_DEADLOCK FALSE
