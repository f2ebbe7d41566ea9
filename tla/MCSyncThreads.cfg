SPECIFICATION FairSpec
CONSTANTS
    d1 = d1  d2 = d2  s1 = s1  ui = ui  bg = bg  None = None
    Devices = {d1}
    Secrets = {s1}
    UserThreads = {ui}
    SyncThreads = {bg}
    Kinds = {"update", "delete"}
    MaxWrites = 3
    MaxLostRequests = 2
    MaxLostReplies = 1
    MaxCrashes = 0
    MaxResolves = 1
INVARIANTS Decryptable NothingLost
PROPERTIES Drains
CHECK_DEADLOCK FALSE
