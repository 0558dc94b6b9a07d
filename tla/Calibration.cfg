SPECIFICATION FairSpec
CONSTANTS
  N = 2
  Methods <- MCMethods
  Setpoints <- MCSetpoints
  Floor = 19
  Safe = 70
  PingTimeout = 1
  MaxRequests = 2
  MaxUds = 1
  MaxFlashFails = 1
  MaxPubFails = 1
  MaxCommands = 1
  MaxPings = 1
  MaxCrashes = 1
INVARIANTS RollbackRestores OkMeansStored FloorOnlyDuringCal
PROPERTIES SlotReleased LossReverts
CHECK_DEADLOCK FALSE
