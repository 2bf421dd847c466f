CONSTANTS
    Requests = {r1}
    History = {1, 2}
    Today = {3, 4}
    Asks <- MCAsks
    LinkMayFail = FALSE
    ClearMayRun = FALSE
SPECIFICATION Spec
PROPERTY
    EveryQueryAnswered
CHECK_DEADLOCK FALSE
