SPECIFICATION FairSpec
CONSTANTS
    Vaults = {v1}
    Threads = {1, 2}
    None = None
    MaxVersion = 2
    MaxSyncs = 1
    MaxActs = 3
    MaxFails = 1
CHECK_DEADLOCK FALSE
INVARIANTS SyncedIsPulled
PROPERTIES FlagIsTheUsers FoldersAppear FoldersCatchUp
