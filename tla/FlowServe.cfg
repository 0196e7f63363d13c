SPECIFICATION FairSpec
CONSTANTS
    Tasks = {"a", "b", "b1", "c"}
    Clients = {"a", "b"}
    NoTask = NoTask
    MainLoop = "loop"
    Idle = Idle
    AnySlot = AnySlot
    Slots <- TwoSlots
    Kind <- AllCompletions
    IdSlot <- WishFirst
    ActionSlot <- NoAction
    Children <- ParentChild
    Posts <- TwoOfA
    MaySleep = FALSE
    MayDisconnect = FALSE
    MayFail = FALSE
    MayStop = FALSE
    MaxPasses = 1
PROPERTIES
    Answered
CHECK_DEADLOCK FALSE
