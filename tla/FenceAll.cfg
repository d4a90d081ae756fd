SPECIFICATION Spec
CONSTANTS
  Endpoints <- TwoEndpoints
  Programs <- FenceAllPrograms
  Payload = 2
  MaxPacked = 1
  MetadataFits = TRUE
  TaskCount = 4
  AtOnce = 4
  ContextCount = 1
  LocalTasks = {0,1}
  Width = 2
INVARIANT AllMeansAll
CHECK_DEADLOCK FALSE
