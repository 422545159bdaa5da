SPECIFICATION TurnSpec
CONSTANTS
    Messages = {m1, m2, cancel}
    Cancels = {cancel}
    MaxSteps = 3
    MaxContinuations = 2
    MaxNoProgress = 1
    AllBatch = 2
    CarryLimit = 1
INVARIANTS
    TurnInv
    CountedNotLost
PROPERTIES
    TurnEnds
CHECK_DEADLOCK FALSE
