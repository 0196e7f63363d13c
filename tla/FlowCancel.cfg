SPECIFICATION Spec
CONSTANTS
    Tasks = {"a", "b", "b1", "c"}
    Clients = {"a", "b", "c"}
    NoTask = NoTask
    MainLoop = "loop"
    Idle = Idle
    AnySlot = AnySlot
    Slots <- TwoSlots
    Kind <- MixedKinds
    IdSlot <- NoWish
    ActionSlot <- SaveFirst
    Children <- ParentChild
    Posts <- OneEach
    MaySleep = FALSE
    MayDisconnect = TRUE
    MayFail = TRUE
    MayStop = FALSE
    MaxPasses = 0
INVARIANTS
    OnePlace
    NoStaleResult
    Answerable
CHECK_DEADLOCK FALSE
