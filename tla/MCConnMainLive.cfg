SPECIFICATION FairSpec
CONSTANTS
    Enabled = {4}
    Addrs = {1, 2}
    BackOff <- MCBackOffShort
    Settle = 1
    PollTime = 2
    MaxNews = 2
    MaxFaults = 1
PROPERTIES Redials AddressFollows
