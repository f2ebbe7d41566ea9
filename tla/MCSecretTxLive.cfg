SPECIFICATION FairSpec
CONSTANTS
    s1 = s1  s2 = s2  v1 = v1  h1 = h1  h2 = h2
    alice = alice  bob = bob  c1 = c1  b1 = b1  None = None
    Secrets = {s1, s2}
    Vaults = {v1}
    VaultOf <- OneVault
    Binary = {}
    Ciphers = {c1}
    Blobs = {}
    Handlers = {h1, h2}
    Users = {alice}
    OwnerOf <- AliceOwns
    PoolSize = 2
    MaxAttempts = 2
    MaxRequests = 2
PROPERTIES EveryRequestAnswered
CHECK_DEADLOCK FALSE
