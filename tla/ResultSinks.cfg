CONSTANTS
    Runs = {1, 2}
    Requests = 2
    MaxParallel = 2
    RedisEnabled = TRUE
    PostgresEnabled = TRUE
    BatchQueue = TRUE
    BatchCapacity = 2
SPECIFICATION Spec
INVARIANTS
    TraceComplete
    OneHeader
    RowsGapless
PROPERTIES
    DecisionLogComplete
    DecisionsMirrored
    RunsEnd
CHECK_DEADLOCK FALSE
