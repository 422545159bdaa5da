SPECIFICATION MCExtensionSpec
CONSTANTS
    a = a
    l = l
    big = big
    Calls = {a, l, big}
    LeaseCalls = {l, big}
    Large = {big}
    Cancelers = {k}
    MaxInflight = 2
    Faults = {"deadline", "drop", "crash", "shutdown", "grace"}
    MaxMessages = 1
    PipeFrames = 1
    None = None
    Workers = {1, 2, 3}
    Kinds = {"load", "reload", "unload", "drain"}
    Holders = {h1, h2}
    Capabilities = {tools, skills}
    NoProcess = NoProcess
INVARIANTS
    TransportInv
PROPERTIES
    HostSafe
    CallsEnd
CHECK_DEADLOCK FALSE
