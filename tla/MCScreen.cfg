SPECIFICATION MCScreenSpec
CONSTANTS
    Children = {c1}
    MaxAsks = 3
    MaxTyped = 4
    MaxLookups = 1
    Doings = {"question", "all", "interrupt"}
INVARIANTS
    OneTurnAtATime
PROPERTIES
    ScreenSafe
    QueuedIsSent
CHECK_DEADLOCK FALSE
