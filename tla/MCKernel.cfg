SPECIFICATION MCKernelSpec
CONSTANTS
    Clients = {k1, k2}
    CallIds = {a, b}
    Drainers = {d1, d2}
    DroppedDrains = {d1}
    None = None
    N = 3
    Callers = {c1, c2}
    DroppedCallers = {c1, c2}
    Nobody = Nobody
    Scopes = {s1, s2, s3}
    Services = {v1}
    Instances = {i1}
    MaxId = 3
    Nothing = Nothing
    Ids = {"p", "q", "r"}
    PluginScopes = {"here", "there"}
    Provides <- MCProvides
    Requires <- MCRequires
    Count = 3
INVARIANTS
    RegistryInv
    CompositionIsSound
PROPERTIES
    DrainSafe
    WaitsEnd
    ShutdownIsOrdered
CHECK_DEADLOCK FALSE
