SPECIFICATION MCToolSpec
CONSTANTS
    read = read
    process = process
    note = note
    patch = patch
    again = again
    Executions = {e1, e2}
    Approvals = {a1, a2}
    Requests = {read, process, note, patch, again}
    ReadOnly = {read}
    Patches = {patch, again}
    TaskUpdates = {note}
    Action <- MCAction
    NoRequest = NoRequest
    NoApproval = NoApproval
    NoExecution = NoExecution
    TaskUpdate = TaskUpdate
    MaxGeneration = 2
    MaxRevision = 2
SYMMETRY MCSymmetry
INVARIANTS
    GateInv
    SideEffectAuthorized
    ReceiptTruthful
PROPERTIES
    RecordsAreFinal
CHECK_DEADLOCK FALSE
