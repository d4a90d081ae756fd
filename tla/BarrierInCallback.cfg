SPECIFICATION FairSpec
CONSTANTS
  Geometries <- MCGeometries
  StartInCallback = TRUE
INVARIANT SendDoneIsTrue
CHECK_DEADLOCK FALSE
