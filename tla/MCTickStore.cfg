CONSTANTS
    Quotes <- MCQuotes
    Gap = 0
    Recent = 2
    MaxTicks = 3
SPECIFICATION Spec
INVARIANTS
    TypeOK
    StreamDecodes
    RecentFaithful
    ReplyHasNoDuplicate
PROPERTIES
    DayLogSpec
    TicksReachDisk
