SPECIFICATION FairSpec
CONSTANTS
    Process = {p, q}
    old = old
    new = new
    Version = {old, new}
    Size <- Sizes
    Metadata = {"etag", "sha256"}
    Attempts = 2
    LockAttempts = 2
    p = p
    q = q
    MaxCalls <- CallsOfBoth
    MaxReplaced = 1
    MaxCrashes = 1
    None = None
CHECK_DEADLOCK FALSE
INVARIANTS
    TypeOK
PROPERTIES
    ServedIsTheObject
    PlacedIsVerified
    CallsEnd
