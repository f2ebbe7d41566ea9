SPECIFICATION Spec
CONSTANTS
    s1 = s1  s2 = s2  v1 = v1  h1 = h1  h2 = h2
    alice = alice  bob = bob  c1 = c1  b1 = b1  None = None
    Secrets = {s1}
    Vaults = {v1}
    VaultOf <- OneVault
    Binary = {s1}
    Ciphers = {c1}
    Blobs = {b1}
    Handlers = {h1, h2}
    Users = {alice, bob}
    OwnerOf <- AliceOwns
    PoolSize = 2
    MaxAttempts = 2
    MaxRequests = 3
SYMMETRY Sym
INVARIANTS TypeOK LockDiscipline WriteAdmitted SkipIsSound
PROPERTIES StoreSpec OwnWritesOnly
CHECK_DEADLOCK FALSE
