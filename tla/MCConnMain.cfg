SPECIFICATION Spec
CONSTANTS
    Enabled = {4, 6}
    Addrs = {1}
    BackOff <- MCBackOff
    Settle = 1
    PollTime = 2
    MaxNews = 2
    MaxFaults = 1
INVARIANTS TypeOK RetryPlanned CallsHeld NoLinkLeft
