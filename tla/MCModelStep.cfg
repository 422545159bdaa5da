SPECIFICATION MCStepSpec
CONSTANTS
    a1 = a1
    a2 = a2
    o1 = o1
    o2 = o2
    Accounts = {a1, a2}
    NoAccount = NoAccount
    Operations <- MCOperations
    Tokens <- MCTokens
    RunBudget = a1
    RunLimit = 3
    Bound = 1
    Usages = {0, 2}
    Elsewhere = {o1, o2}
    MaxAttempts = 2
    MaxCalls = 2
    MaxHosts = 2
INVARIANTS
    WithinLimit
    LedgerBalanced
    StepInv
PROPERTIES
    FinishedRunStays
    CallReturns
CHECK_DEADLOCK FALSE
