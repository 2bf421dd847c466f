CONSTANTS
    Segments <- MCSegments
    Grace = 2
    Period = 2
    MaxTime = 13
    MaxQty = 3
SPECIFICATION Spec
INVARIANTS
    TypeOK
    BarsInOrder
    CountsMatchBars
    VolumeConserved
    BarsInSession
    DiskBehindMemory
PROPERTY
    FinishedBarsFrozen
