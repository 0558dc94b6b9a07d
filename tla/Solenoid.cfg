SPECIFICATION Spec
CONSTANTS
  Inject <- MCInject
  O2Flush = "o2flush"
  DilFlush = "dilflush"
  Modes <- MCAll
  MaxOn = 3
  Cycle = 4
  MinFire = 1
  MaxFire = 3
  Mk15On = 1
  Mk15Off = 1
  FlushOn = 2
  OverrideOn = 2
  CalPulse = 2
  CalPlans <- MCPlans
  Sources <- MCSources
  Setpoints <- MCSetpoints
  Default = 70
  Pressures <- MCPressures
  DepthComp = TRUE
  Bar = 2
  Long = 7
  O2FlushMax = 4
  MaxMisses = 1
  MaxCommands = 1
  MaxCals = 1
  MaxOverrides = 2
INVARIANTS OpenHasCloser PulseBounded FlushEarned FailQuiets
