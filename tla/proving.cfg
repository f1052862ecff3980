CONSTANTS
    NumChunks = 2
    Trace = {t1}
    Worker = {w1, w2}
    ATTEMPTS = 2
    MaxJobs = 4
    MaxProofs = 3
    None = None
SPECIFICATION FairSpec
CHECK_DEADLOCK FALSE
INVARIANTS
    TypeOK
    FinalProofComplete
    ResultsGrounded
PROPERTIES
    JobsAreAnswered
    JobsEnd
