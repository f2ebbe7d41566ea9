SPECIFICATION Spec
CONSTANTS
    alice = alice  bob = bob  None = None
    h1 = h1  h2 = h2  h3 = h3
    t1 = t1  t2 = t2  c1 = c1  tui = tui  cli = cli
    Users = {alice}
    Handlers = {h1, h2, h3}
    HashSlots = 2
    Jobs = {t1, t2, c1}
    Procs = {tui, cli}
    procOf <- ProcOf
    CLI = {cli}
    AccessTTL = 2
    RefreshTTL = 2
    RefreshThreshold = 1
    MaxTime = 2
    Flaky = TRUE
    MaxActs = 3
INVARIANTS LoadsInOrder HolderMoves SlotsExact StopNotStuck
SYMMETRY Symmetry
CHECK_DEADLOCK FALSE
