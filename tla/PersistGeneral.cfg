SPECIFICATION FairSpec
CONSTANTS
    Prompts <- PromptTree
    Drafters = {"none", "mtp", "dflash"}
    NoDrafter = "none"
    Fingerprints = {"f1", "f2", "f3"}
    Configs <- Mono
    Limit = 3
    MinTokens = 0
    MirrorLimit = 0
    ScanMayFail = FALSE
    MaxId = 4
    MaxHits = 1
    MaxClock = 1
    MaxCrashes = 2
    MaxFaults = 1
    MaxDamage = 0
    NoFile = NoFile
    NoDir = NoDir
    NoEntry = NoEntry
    NoJob = NoJob
    NoRestore = NoRestore
    NoMirror = NoMirror
INVARIANTS
    TypeOK
    Accounting
    NoLeak
PROPERTIES
    SavedIsAdoptable
    SaveWithinBudget
    StoreSpec
    Finishes
CHECK_DEADLOCK FALSE
