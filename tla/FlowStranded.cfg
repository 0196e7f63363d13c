SPECIFICATION FairSpec
CONSTANTS
    Tasks = {"a"}
    Clients = {"a"}
    NoTask = NoTask
    MainLoop = "loop"
    Idle = Idle
    AnySlot = AnySlot
    Slots <- OneSlot
    Kind <- AllCompletions
    IdSlot <- NoWish
    ActionSlot <- NoAction
    Children <- NoChildren
    Posts <- OneEach
    MaySleep = TRUE
    MayDisconnect = FALSE
    MayFail = FALSE
    MayStop = FALSE
    MaxPasses = 1
PROPERTIES
    TaskWakes
CHECK_DEADLOCK FALSE
