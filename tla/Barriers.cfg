SPECIFICATION MCSpec
CONSTANTS
  m = m
  p2 = p2
  p3 = p3
  p4 = p4
  Procs = {m, p2, p3, p4}
  Master = m
  MaxRounds = 3
  Geometries <- MCGeometries
  StartInCallback = FALSE
  Plans <- MCPlans
INVARIANTS
  NobodyLeavesEarly
  OneBitIsEnough
  SendsMatchReceives
  EveryContributionOnce
PROPERTIES
  ImplementsBarrier
  NobodyIsKept
CHECK_DEADLOCK FALSE
