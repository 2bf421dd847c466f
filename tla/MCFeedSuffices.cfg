CONSTANTS
    Feed1 = f1
    Feed2 = f2
    Cache = c
    Down = {f1}
    MaxBreaks <- MCNoBreaks
    MaxPackets <- MCPackets
    GarbageLength = 1
SPECIFICATION Spec
PROPERTY
    OneFeedSuffices
CHECK_DEADLOCK FALSE
