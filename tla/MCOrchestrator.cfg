SPECIFICATION MCOrchestratorSpec
CONSTANTS
    d1 = d1
    d2 = d2
    d3 = d3
    t1 = t1
    t2 = t2
    a = a
    b = b
    c = c
    elsewhere = elsewhere
    NoParent = NoParent
    Graphs <- MCGraphs
    Files <- MCFiles
    MaxWorkers = 3
    MaxDepth = 2
    Tasks = {t1, t2}
    Dispatches = {d1, d2, d3}
    TaskOf <- MCTaskOf
    Parents = {p1}
    Slots = 1
    Queue = 1
    MaxRequests = 3
    Capacity = 2
    MaxDrains = 2
INVARIANTS
    SchedulerInv
    PlanInv
PROPERTIES
    ParentIsServed
    DrainEnds
CHECK_DEADLOCK FALSE
