SPECIFICATION BatchSpec
CONSTANTS
    read = read
    lookup = lookup
    patch = patch
    ask = ask
    note = note
    Batches <- MCBatches
    Executions <- MCCalls
    Approvals <- MCCalls
    Requests = {read, lookup, patch, ask, note}
    ReadOnly = {read}
    Patches = {patch}
    TaskUpdates = {note}
    Alone = {ask, patch}
    Questions = {ask}
    Action <- MCAction
    NoRequest = NoRequest
    NoApproval = NoApproval
    NoExecution = NoExecution
    TaskUpdate = TaskUpdate
    MaxGeneration = 1
    MaxRevision = 2
INVARIANTS
    BatchInv
PROPERTIES
    BatchEnds
CHECK_DEADLOCK FALSE
