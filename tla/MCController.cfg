SPECIFICATION FairSpec
CONSTANTS
  m1 = m1
  c1 = c1
  Msgs <- MCMsgs
  NonDroppable <- MCNonDroppable
  Sizes = {s1, s2}
  NoSize = NoSize
  QueueLimit = 2
  MaxQueue = 3
  SocketCap = 2
INVARIANTS
  TypeOK
  NoLostWakeup
PROPERTIES
  ShutdownTerminates
  EndIsNoticed
  ResizeServed
  ImplementsChannel
CHECK_DEADLOCK FALSE
