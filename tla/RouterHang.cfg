SPECIFICATION FairSpec
CONSTANTS
    a = a
    b = b
    r1 = r1
    r2 = r2
    Models = {a}
    Requests = {r1}
    Asks <- AsksOf
    MaxModels = 1
    Sources <- OnlyA
    MaxLines = 1
    MayFail = TRUE
    NoModel = NoModel
PROPERTIES
    LoadingEnds
CHECK_DEADLOCK FALSE
