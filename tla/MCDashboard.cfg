SPECIFICATION Spec
CONSTANTS
    SecretOrder <- MCSecrets
    VaultOf <- MCVaultOf
    TypeOf <- MCTypeOf
    VaultOrder <- MCVaults
    TypeTabs <- MCTabs
    ProgressCap = 1
    MaxChains = 2
    MaxInFlight = 2
    MaxActs = 3
INVARIANTS
    SyncAlive EveryRunIsRead CursorsShown TableOnTab LoadingAnswered
