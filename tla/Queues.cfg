SPECIFICATION MCSpec
CONSTANTS
  p1 = p1
  p2 = p2
  p3 = p3
  w1 = w1
  w2 = w2
  w3 = w3
  Procs = {p1, p2, p3}
  Owner = p1
  Size = 2
  Synchronized = TRUE
  MaxPackets = 5
  MaxRefused = 2
  Posters = {p1, p2}
  MaxEach = 2
  Work = {w1, w2, w3}
  MaxPosts = 5
  SetCount = 2
  SetSize = 3
  Needed <- MCNeeded
  SystemCount = 1
  NPeers = 3
  MaxProcs = 4
  Programs <- MCPrograms
  QSize = 4
  WorkSize = 2
  UnsignedMod = 16
  SizeMod = 32
  RingSize = 2
  MaxPolls = 2
INVARIANTS
  SlotOwnership
  WrapFenceSafe
  VisitedInOrder
  QueuedOnce
  SetOrder
  NothingStuck
  ResultsExact
  RoomIsReal
  CopiesApart
PROPERTIES
  ImplementsPacketFifo
  EveryPacketDelivered
  EveryPostVisited
  ReadyIsCalled
  EveryOperationDone
CHECK_DEADLOCK FALSE
