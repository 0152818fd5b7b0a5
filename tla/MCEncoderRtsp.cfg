SPECIFICATION FairSpec
CONSTANTS
  Second = 4
  Fps = 2
  Pts <- PtsValues
  Delay = 1
  MaxTicks = 5
INVARIANTS
  StreamPresent
  NoContextLeak
  NoBacklog
  RetriedOnFrames
PROPERTIES
  TimestampsIncrease
  CloseFinishes
