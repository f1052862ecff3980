CONSTANTS
    Node = {1, 2, 3, 4}
    Color = {0, 1, 2, 3, 4}
    NoData = NoData
    Graphs <- ShapesAndFaults
    Threads = 3
    MayErr = {2, 3}
    MayPanic = {2, 4}
SPECIFICATION RunSpec
CHECK_DEADLOCK FALSE
INVARIANTS
    RunTypeOK
    KeepsTrack
    OkMeansComplete
PROPERTIES
    RunReturns
