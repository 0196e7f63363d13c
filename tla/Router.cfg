SPECIFICATION Spec
CONSTANTS
    a = a
    b = b
    r1 = r1
    r2 = r2
    Asks <- AsksOf
    Models = {a, b}
    Requests = {r1, r2}
    MaxModels = 1
    Sources <- OneOrBoth
    MaxLines = 1
    MayFail = TRUE
    NoModel = NoModel
INVARIANTS
    ProcessesWithinLimit
    NoOrphan
    JoinsAreFree
    ErasedIsJoined
CHECK_DEADLOCK FALSE
