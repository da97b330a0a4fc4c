SPECIFICATION FairSpec
CONSTANTS
    Ranges = 2
    Blocks = 2
    Patience = 2
    Resends = 3
    MaxLogs = 1
    Parts = {"sbl", "boot", "usr"}
    Sbl = "sbl"
    Size <- MCSize
    Jobs <- MCJobs
    None = "none"
    Other = "other"
    EdlRetry = 3
    MaxBoots = 2
INVARIANTS StreamWhole DataInStep SuccessProgrammed BootsWhole
PROPERTY Ends
