SPECIFICATION FairSpec
CONSTANTS
    None = None
    MaxLate = 2
    Tries = 2
    Ignored = 2
    Polls = 2
    MaxNews = 1
INVARIANTS StyleRight NewsComes
PROPERTIES Returns Settles
CHECK_DEADLOCK FALSE
