SPECIFICATION MCJournalSpec
CONSTANTS
    s1 = s1
    s2 = s2
    e1 = e1
    e2 = e2
    w1 = w1
    w2 = w2
    Sessions = {s1, s2}
    Executions = {e1, e2}
    Writers = {w1, w2}
    Recovered = {s1, s2}
    Kinds = {"intent", "receipt", "note", "decision", "runtime"}
    MaxEvents = 4
    MaxGen = 2
    MaxSnapshots = 2
INVARIANTS
    RecoveredIsFold
PROPERTIES
    JournalSafe
    ImplementsTaskState
CHECK_DEADLOCK FALSE
