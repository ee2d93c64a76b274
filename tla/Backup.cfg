SPECIFICATION Spec
CONSTANTS
    NightlyKeep = 1
    PreUpdateKeep = 1
    LogKeep = 1
    Creations <- Policy
    LogsInData = TRUE
    MaxBundles = 2
    MaxRestores = 1
    MaxChanges = 2
INVARIANTS
    TypeOK
    
    SettledBundlesVerify
    RestoredIsBundle
    NothingIsLost
PROPERTIES
    PruneKeepsNewest
