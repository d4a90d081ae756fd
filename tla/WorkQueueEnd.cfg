SPECIFICATION Spec
CONSTANTS
  NPeers = 3
  MaxProcs = 4
  Programs <- EndPrograms
  QSize = 4
  WorkSize = 2
  UnsignedMod = 16
  SizeMod = 32
  RingSize = 2
  MaxPolls = 2
INVARIANT
  StaysInBuffer
CHECK_DEADLOCK FALSE
