SPECIFICATION Spec
CONSTANTS
    tui = tui  s1 = s1  s2 = s2  d1 = d1
    Creator = tui
    Syncs = {s1, s2}
    Loaders = {d1}
    FileChunks = 2
    Window = 1
    MaxFaults = 2
    MaxEdits = 1
INVARIANTS DownloadHonest AttachOnlyComplete FailedUploadIsQueued NobodyStuck
SYMMETRY Symmetry
CHECK_DEADLOCK FALSE
