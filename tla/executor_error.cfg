CONSTANTS
    Node = {1, 2, 3, 4}
    Color = {0, 1, 2, 3, 4}
    NoData = NoData
    Graphs <- Small
    Threads = 3
    MayErr = {2}
    MayPanic = {}
SPECIFICATION RunSpec
CHECK_DEADLOCK FALSE
PROPERTY FailureIsReturned
