SPECIFICATION Spec
CONSTANTS
    Process = {p}
    old = old
    new = new
    Version = {old, new}
    Size <- Sizes
    Metadata = {"etag"}
    Attempts = 2
    LockAttempts = 2
    p = p
    q = q
    MaxCalls <- CallsOfOne
    MaxReplaced = 1
    MaxCrashes = 1
    None = None
CHECK_DEADLOCK FALSE
INVARIANT NoCorruptResumption
