CONSTANTS
    NumChunks = 3
    Color = {0, 1, 2, 3}
    Graphs <- SupportedGraphs
CHECK_DEADLOCK FALSE
SPECIFICATION FairSpec
INVARIANTS
    TypeOK
    ResultsOfGraph
    NothingLost
    PendingIsHeads
    RoutesOfProving
    ProofAndIO
    NeverRefused
PROPERTIES
    AllRunOrError
