SPECIFICATION Spec
CONSTANTS
    Run = {r1, r2}
    x = x
    y = y
    z = z
    p = p
    Tensor = {x, y, z, p}
    Torn = Torn
    None = None
    NumLayers = 2
    ModelInputs <- Inputs
    Outputs <- Produced
    ProvingData <- Kept
    Feeds <- Links
    Interleaved = FALSE
    MaxFaults = 1
    MaxCrashes = 1
INVARIANTS TypeOK LayersReadData HandlesFreed TraceReadable Discarded
PROPERTIES RunsEnd
CHECK_DEADLOCK FALSE
