SPECIFICATION Spec
CONSTANTS
  Endpoints <- SidedEndpoints
  Programs <- TypedGetPrograms
  Payload = 2
  MaxPacked = 1
  MetadataFits = TRUE
  TaskCount = 6
  AtOnce = 2
  ContextCount = 1
  LocalTasks = {0, 2, 3, 5}
  Width = 2
INVARIANT NoMoreData
CHECK_DEADLOCK FALSE
