CONSTANTS
    k1 = k1
    k2 = k2
    Contracts <- MCContracts
    CloseAt <- MCCloseAt
    Times <- MCTimes
    FirstDay = 5
    LastDay = 8
    MaxCrashes = 1
    MaxFailures = 1
    MaxIdle = 2
SPECIFICATION Spec
INVARIANTS
    TypeOK
    DateRight
    AppendedOnce
    NothingLeftBehind
CHECK_DEADLOCK FALSE
