SPECIFICATION MCStoreSpec
CONSTANTS
    Scopes = {1, 2}
    Answers = {"yes", "no"}
    Commands = {"ask", "answer", "cancel"}
    MaxNow = 2
    None = None
    Procs = {1, 2, 3}
    Works = {1, 2, 3}
    MayHang = {1}
    MayKeep = {2}
    MaxAttempts = 2
    MaxIds = 4
    MaxTokens = 4
    NoHolder = NoHolder
INVARIANTS
    WorkIsKept
PROPERTIES
    QuestionSafe
    PassesAreOrderly
CHECK_DEADLOCK FALSE
