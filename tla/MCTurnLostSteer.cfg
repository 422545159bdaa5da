SPECIFICATION TurnSpec
CONSTANTS
    Messages = {m1, m2}
    Cancels = {}
    MaxSteps = 3
    MaxContinuations = 2
    MaxNoProgress = 1
    AllBatch = 2
    CarryLimit = 2
SYMMETRY MCSymmetry
CHECK_DEADLOCK FALSE
INVARIANTS
    NoneLeftPending
