SPECIFICATION PadSpec
CONSTANTS
  Msgs <- UhidMsgs
  NonDroppable <- UhidNonDroppable
  Sizes = {}
  NoSize = NoSize
  QueueLimit = 1
  MaxQueue = 2
  SocketCap = 1
  Pads = {p1, p2}
  NoPad = NoPad
  MaxPads = 2
SYMMETRY Symmetry
INVARIANTS
  DeviceNeverConfused
  DevicesMirrorSlots
CHECK_DEADLOCK FALSE
