SPECIFICATION Spec
CONSTANTS
    Vaults = {v1, v2}
    Threads = {1, 2}
    None = None
    MaxVersion = 1
    MaxSyncs = 1
    MaxActs = 3
    MaxFails = 0
CHECK_DEADLOCK FALSE
PROPERTIES ScopeHonoured
