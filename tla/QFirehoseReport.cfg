SPECIFICATION Spec
CONSTANTS
    Ranges = 1
    Blocks = 1
    Patience = 1
    Resends = 1
    MaxLogs = 0
    Parts = {"sbl", "boot", "usr"}
    Sbl = "sbl"
    Size <- MCSize
    Jobs <- MCJobs
    None = "none"
    Other = "other"
    EdlRetry = 2
    MaxBoots = 0
INVARIANT FailureReported
