SPECIFICATION Spec
CONSTANTS
    Run = {r1, r2}
    x = x
    y = y
    z = z
    p = p
    Tensor = {x, y, z, p}
    Torn = Torn
    None = None
    NumLayers = 2
    ModelInputs <- Inputs
    Outputs <- Produced
    ProvingData <- Kept
    Feeds <- Links
    Interleaved = TRUE
    MaxFaults = 0
    MaxCrashes = 0
INVARIANT RunsKeptApart
CHECK_DEADLOCK FALSE
