SPECIFICATION Spec
CONSTANTS
    Tasks = {"b", "b1"}
    Clients = {"b"}
    NoTask = NoTask
    MainLoop = "loop"
    Idle = Idle
    AnySlot = AnySlot
    Slots <- TwoSlots
    Kind <- AllCompletions
    IdSlot <- NoWish
    ActionSlot <- NoAction
    Children <- ParentChild
    Posts <- OneEach
    MaySleep = FALSE
    MayDisconnect = FALSE
    MayFail = TRUE
    MayStop = FALSE
    MaxPasses = 1
INVARIANTS
    NeverAborts
CHECK_DEADLOCK FALSE
