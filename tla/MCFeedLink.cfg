CONSTANTS
    Feed1 = f1
    Feed2 = f2
    Cache = c
    Down = {}
    MaxBreaks <- MCBreaks
    MaxPackets <- MCPackets
    GarbageLength = 1
SPECIFICATION Spec
INVARIANTS
    TypeOK
    StateTruthful
    OnlyFirstSpoilt
PROPERTY
    FeedRestored
CHECK_DEADLOCK FALSE
