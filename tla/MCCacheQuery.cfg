CONSTANTS
    Requests = {r1, r2}
    History = {1, 2}
    Today = {3, 4}
    Asks <- MCAsks
    LinkMayFail = TRUE
    ClearMayRun = TRUE
SPECIFICATION Spec
INVARIANTS
    TypeOK
    AnswerIsComplete
    PendingIsWaiting
PROPERTY
    ResponseIsForwarded
CHECK_DEADLOCK FALSE
