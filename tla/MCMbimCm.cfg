SPECIFICATION FairSpec
CONSTANTS
    None = None
    OpenTries = 2
    Setups = 2
    MaxNews = 2
    MaxLate = 1
INVARIANTS NewsComes NoCallLeft
PROPERTIES Settles Returns StopEnds
CHECK_DEADLOCK FALSE
