CONSTANTS
    Node = {1, 2, 3, 4}
    Color = {0, 1}
    NoData = NoData
    Graphs <- AllGraphs
SPECIFICATION FairSpec
INVARIANTS
    TypeOK
    EdgeHoldsItsDatum
    ArgumentsInPlace
    ColorExclusion
PROPERTIES
    ImplementsDag
    Completes
