SPECIFICATION FairPushSpec
CONSTANTS
  Targets = {h}
  Client = h
  Broadcast = b
  Lengths <- MCLengths
  BlockSizes <- MCBlockSizes
  ReplyLengths <- MCReplyLengths
  PushLength = 12
  SfMaxWithPad = 6
  FfDataWithPad = 5
  CfData = 7
  SeqMod = 16
  QueueSize = 2
  NBs = 3
  MaxSends = 6
  Quiet = 2
  LogQueueSize = 2
  RxDepth = 2
  MaxRequests = 2
  MaxLogs = 3
INVARIANT ReplyBehindOnePush
PROPERTY LogsFlush
