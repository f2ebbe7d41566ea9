SPECIFICATION Spec
CONSTANTS
    d1 = d1  d2 = d2  s1 = s1  ui = ui  bg = bg  None = None
    Devices = {d1, d2}
    Secrets = {s1}
    UserThreads = {ui}
    SyncThreads = {ui}
    Kinds = {"update", "delete"}
    MaxWrites = 3
    MaxLostRequests = 1
    MaxLostReplies = 0
    MaxCrashes = 1
    MaxResolves = 0
SYMMETRY Sym
INVARIANTS Decryptable SavedIsDurable
CHECK_DEADLOCK FALSE
