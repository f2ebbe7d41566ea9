SPECIFICATION Spec
CONSTANTS
    d1 = d1  d2 = d2  s1 = s1  ui = ui  bg = bg  None = None
    Devices = {d1, d2}
    Secrets = {s1}
    UserThreads = {ui}
    SyncThreads = {ui}
    Kinds = {"update", "delete"}
    MaxWrites = 3
    MaxLostRequests = 2
    MaxLostReplies = 0
    MaxCrashes = 0
    MaxResolves = 1
SYMMETRY Sym
INVARIANTS NothingLost NoBlindOverwrite PullComplete
CHECK_DEADLOCK FALSE
