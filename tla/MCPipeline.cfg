SPECIFICATION FairSpec
CONSTANTS
  Options <- MCOptions
  MaxFrames = 3
  MaxSessions = 2
INVARIANTS
  SinksOpenWhileUsed
  LastFrameDelivered
  FlagOfFrame
PROPERTY
  PipelineEnds
CHECK_DEADLOCK FALSE
