SPECIFICATION Spec
CONSTANTS
  p1 = p1
  p2 = p2
  p3 = p3
  Procs = {p1, p2, p3}
  Owner = p1
  Size = 2
  MaxPackets = 5
  MaxRefused = 2
INVARIANTS
  FenceSafe
CHECK_DEADLOCK FALSE
