SPECIFICATION Spec
CONSTANTS
    Capacity = 2
    MaxMessages = 6
    MaxPauses = 2
    EndMark = EndMark
    RowsPerBlock = 2
    NumRows = 9
    Shards = 2
    ShardBudget = 4
    Callers = {p, q}
    NoCaller = NoCaller
    Wanted <- RowLists
    MaxFetches = 3
    Size = 3
    Depth = 2
    MaxLen = 3
    MaxBatch = 2
    MaxOps = 4
    Trailing = FALSE
    StartTokens <- OpenTag
    EndTokens <- CloseTag
    ForcedTokens <- CloseTag
    WarnTokens <- WarnTag
    Budget = 2
    WarnAt = 1
    Partial = {"u"}
    Prompt = "p"
    Prefill <- OpenTag
    Truths <- Minds
    Noise = "n"
    Miss = "x"
    Stop = "z"
    RsDepth = 1
    RmTypes = {"PART", "FULL", "RS"}
    MaxDraft = 3
    MaxPredict = 6
    a = a
    r1 = r1
    r2 = r2
    Models = {a}
    Requests = {r1, r2}
    Asks <- AsksOf
    MaxModels = 1
    Sources <- OnlyA
    MaxLines = 1
    MayFail = TRUE
    NoModel = NoModel
    Servers = {sp, sq}
    MaxRuns = 3
    MaxKills = 1
    Nobody = Nobody
    CacheSlots = {1, 2}
    Prompts <- TaskPrompts
    Answer = "z"
    Drafters = {"mtp", "flash"}
    Default = "mtp"
    Observing = {"mtp"}
    CacheIdle = TRUE
    Unified = TRUE
    LimitRows = 8
    Similarity = 30
    Failing = {"alloc", "main", "spec"}
    MaxTasks = 3
    KvSeqs = {0, 1}
    UBatch = 2
    FullBatch = 4
    NKeep = 1
    Texts <- KvTexts
    Modes <- KvModes
    MaxLaunches = 2
    MaxEntries = 1
INVARIANTS
    NothingLost
    StoreCoherent
    CellsCoherent
    OutputUnchanged
    PassesJoin
    ThinkingEnds
    LiveDirectoryKept
    MemoryHoldsPrompt
    AttendsToItsText
    MemoryWhole
PROPERTIES
    PauseEnds
    StatesPrivate
    SpeculationEnds
    UnloadEnds
    ShutdownEnds
    StaleCollected
CHECK_DEADLOCK FALSE
