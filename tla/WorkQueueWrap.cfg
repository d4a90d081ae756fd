SPECIFICATION Spec
CONSTANTS
  NPeers = 3
  MaxProcs = 4
  Programs <- WrapPrograms
  QSize = 4
  WorkSize = 2
  UnsignedMod = 16
  SizeMod = 32
  RingSize = 2
  MaxPolls = 2
INVARIANT
  RoomIsReal
CHECK_DEADLOCK FALSE
