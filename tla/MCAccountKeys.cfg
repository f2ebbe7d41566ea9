SPECIFICATION Spec
CONSTANTS
    laptop = laptop  phone = phone  tui = tui  cli = cli  None = None
    alice = alice  bob = bob  pw1 = pw1  pw2 = pw2
    Users = {alice, bob}
    Passwords = {pw1, pw2}
    Devices = {laptop, phone}
    Procs = {tui, cli}
    Tui = {tui}
    DeviceOf <- Apart
    Slots = {1}
    Commands = {"login", "recover", "vault"}
    Impatient = FALSE
    CodeCount = 1
    MaxUnlockAttempts = 2
    MaxJobs = 6
    MaxFailures = 1
    MaxLostReplies = 0
    MaxKills = 1
SYMMETRY Sym
INVARIANTS VaultKeysValid RecoveryWorks SessionOwn NoMixing
CHECK_DEADLOCK FALSE
