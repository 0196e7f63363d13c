SPECIFICATION Spec
CONSTANTS
    Prompts <- PromptPair
    Drafters = {"none", "mtp", "dflash"}
    NoDrafter = "none"
    Fingerprints = {"f1", "f2", "f3"}
    Configs <- MtpDualOrPark
    Limit = 5
    MinTokens = 0
    MirrorLimit = 4
    ScanMayFail = TRUE
    MaxId = 3
    MaxHits = 1
    MaxClock = 0
    MaxCrashes = 1
    MaxFaults = 1
    MaxDamage = 1
    NoFile = NoFile
    NoDir = NoDir
    NoEntry = NoEntry
    NoJob = NoJob
    NoRestore = NoRestore
    NoMirror = NoMirror
INVARIANTS
    ServedIsSaved
    StorageBound
    MirrorCoherent
PROPERTIES
    IntactSurvivesLoad
    ParkNeverMissing
CHECK_DEADLOCK FALSE
