SPECIFICATION MCSpec
CONSTANTS
  Payload = 2
  MaxImmediate = 2
  MaxShort = 1
  MaxEager = 1
  Configurations <- EagerConfigurations
  Shapes <- EagerShapes
  MaxSends = 2
  Programs <- SidedPrograms
  TaskCount = 6
  ContextCount = 1
  LocalTasks = {0, 2, 3, 5}
  MaxPacked = 1
  MetadataFits = TRUE
  AtOnce = 2
  Width = 2
INVARIANTS
  ConnectionMatches
  DispatchOrder
  DataIntact
  RemoteAfterReceive
  SendStateInUse
  ConnectionsKept
  CompletionMeansDone
  FenceFlushes
  AllMeansAll
  RmwSequential
  StateInUse
PROPERTIES
  EverySendCompletes
  EveryOperationCompletes
CHECK_DEADLOCK FALSE
