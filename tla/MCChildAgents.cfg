SPECIFICATION MCChildSpec
CONSTANTS
    outer = outer
    inner = inner
    m1 = m1
    m2 = m2
    reply = reply
    ask = ask
    Root = Root
    Children = {outer, inner}
    ParentOf <- MCParentOf
    Messages = {m1, m2, reply, ask}
    From <- MCFrom
    To <- MCTo
    MaxWorkers = 1
    Stoppable = {outer}
    Interrupted = TRUE
INVARIANTS
    ToldOnce
PROPERTIES
    ChildSafe
    EveryChildSettles
    AcceptedIsRead
CHECK_DEADLOCK FALSE
