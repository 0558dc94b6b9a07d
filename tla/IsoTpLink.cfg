SPECIFICATION FairSpec
CONSTANTS
  handset = handset
  bridge = bridge
  Controller = handset
  Broadcast = bridge
  Peers <- OnePeer
  Lengths <- MCLengths
  Strays <- MCStrays
  MaxPayload = 8
  SfMax = 1
  FfData = 3
  CfData = 2
  SeqMod = 3
  NCr = 1
  Wrap16 = 16
  RxQueueSize = 3
  MaxRequests = 2
  MaxLosses = 3
  MaxStrays = 1
INVARIANTS DeliveredIsOneRequest BufferBounded
PROPERTY ReceptionEnds
