CONSTANTS
    MaxTimers = 6
    MaxUnits = 2
    MaxClock = 2
SPECIFICATION Spec
INVARIANT
    HeapOK
PROPERTY
    TimerSetSpec
CHECK_DEADLOCK FALSE
