SPECIFICATION FairSpec
CONSTANTS
    Tasks = {"a", "b", "d"}
    Clients = {"a", "b", "d"}
    NoTask = NoTask
    MainLoop = "loop"
    Idle = Idle
    AnySlot = AnySlot
    Slots <- OneSlot
    Kind <- MixedKinds
    IdSlot <- NoWish
    ActionSlot <- NoAction
    Children <- NoChildren
    Posts <- OneEach
    MaySleep = TRUE
    MayDisconnect = FALSE
    MayFail = FALSE
    MayStop = TRUE
    MaxPasses = 1
INVARIANTS
    SleepsIdle
    OnlyLoopWaits
PROPERTIES
    Awakens
    LoopEnds
CHECK_DEADLOCK FALSE
