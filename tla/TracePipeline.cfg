CONSTANTS
    Second = 4
    SessionSpan = 2
    TenantCycle = 2
    RealtimeEvery = 2
    Hashes = {0, 1}
    Times = {0, 3, 6}
    Inputs <- MCInputs
    MaxRecords = 3
    Setups <- MCSetups
    FileGrain = 2
    ClockGrain = 4
    Duration = 3
    TenantIds = {1, 2}
    TokenMax = 300
    TokenDraws <- MCTokenDraws
SPECIFICATION Spec
INVARIANTS
    RequestsAreFirstRecords
    ArrivalsOrdered
    DefaultsAgree
CHECK_DEADLOCK FALSE
