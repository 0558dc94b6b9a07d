SPECIFICATION FairLifeSpec
CONSTANTS
  Threads = {t1}
  Ops = {flush}
  Attempts = 4
  Confirm = 2
  Window = 2
  Depth = 1
  LastSeq = 2
  MaxFaults = 2
INVARIANTS
  ShutdownEarned
  CrashKept
CHECK_DEADLOCK FALSE
PROPERTIES
  CalledIsUp
