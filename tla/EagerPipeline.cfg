SPECIFICATION PipelineSpec
CONSTANTS
    Endpoints <- EagerEndpoints
    Configurations <- EagerConfigurations
    Shapes <- TypedShapes
    Payload = 2
    MaxImmediate = 2
    MaxShort = 1
    MaxEager = 1
    MaxSends = 1
INVARIANT
    ConnectionSet
CHECK_DEADLOCK FALSE
