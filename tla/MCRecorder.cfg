SPECIFICATION FairSpec
CONSTANTS
  NoPts <- MCNoPts
  Pts = {1, 2}
  Tick = 2
  MaxFrames = 2
  MaxConfigs = 2
INVARIANTS
  RecordedInOrder
  TimestampsIncrease
PROPERTY
  RecorderEnds
CHECK_DEADLOCK FALSE
