CONSTANTS
    Feeds = {f1, f2}
    Conns = {c1}
    Tape <- MCTape
    Window = 2
    MaxQueue = 2
SPECIFICATION Spec
INVARIANTS
    TypeOK
    NoQuoteMissed
    StaleOnlyIfOvertaken
    RepeatNeedsWindow
PROPERTY
    QueuesDrain
CHECK_DEADLOCK FALSE
