SPECIFICATION FairSpec
CONSTANTS
  handset = handset
  all = all
  Targets <- MCTargets
  Broadcast = all
  Lengths <- MCLengths
  BlockSizes <- MCBlockSizes
  SfMaxWithPad = 6
  FfDataWithPad = 5
  CfData = 7
  SeqMod = 3
  QueueSize = 2
  NBs = 1
  MaxSends = 4
INVARIANTS ContiguousTransfers FifoUntilReap
PROPERTY QueuedEventuallyStarts
