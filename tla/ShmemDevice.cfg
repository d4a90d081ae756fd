SPECIFICATION MCSpec
CONSTANTS
  d1 = d1
  d2 = d2
  self = self
  p2 = p2
  Dests = {d1, d2}
  Self = self
  Others = {p2}
  Size = 2
  Kinds = {"packet", "immediate", "roput", "quiet", "get", "put", "copy", "fence"}
  MaxLen = 2
  MaxPosts = 3
  MaxOthers = 1
INVARIANTS
  PostOrder
  FenceOrders
  CopyOrders
  RemoteCompletion
  CallbackOrder
PROPERTIES
  EveryMessageCompletes
CHECK_DEADLOCK FALSE
