SPECIFICATION KvSpec
CONSTANTS
    KvSeqs = {0, 1}
    UBatch = 2
    FullBatch = 4
    NKeep = 1
    Texts <- KvTexts
    Modes <- StreamsOfSeveral
    MaxLaunches = 3
    MaxEntries = 1
INVARIANTS
    AttendsToItsText
CHECK_DEADLOCK FALSE
