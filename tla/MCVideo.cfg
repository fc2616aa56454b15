SPECIFICATION FairSpec
CONSTANTS
  p1 = p1
  p2 = p2
  p3 = p3
  Props <- MCProps
  Initial = p1
  Unknown = Unknown
  MaxErrors = 3
  Fallbacks = 3
  Options <- MCOptions
  MaxChanges = 2
INVARIANTS
  SessionFollowsDisplay
PROPERTIES
  ResetServed
  StopEndsEncoder
CHECK_DEADLOCK FALSE
