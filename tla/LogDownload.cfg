SPECIFICATION Spec
CONSTANTS
  Selectors <- AllSelectors
  NSectors = 3
  Cap = 3
  Chunk = 2
  Block = 3
  SeqMax = 2
  MaxTries = 2
  MaxReqs = 3
  MaxWrites = 4
  MaxTrouble = 1
  MaxEvents = 5
INVARIANTS
  IndexFaithful
  FindsWhatIsThere
  StreamIsSelection
  DownloadGapless
  StreamHolds
  RequestNotForgotten
CHECK_DEADLOCK FALSE
