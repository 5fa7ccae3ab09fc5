CONSTANTS
    Size = 3
    Costs = {1, 2}
    MaxRequests = 4
SPECIFICATION Spec
INVARIANTS
    ChoosesAvailable
    RoundRobinEven
    SpreadCountsRejections
    SpreadEven
CHECK_DEADLOCK FALSE
