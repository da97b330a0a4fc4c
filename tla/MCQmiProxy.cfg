SPECIFICATION FairSpec
CONSTANTS
    Clients = {a, b}
    Fds = {f1, f2}
    Ids = {i1, i2}
    TypeOf <- MCTypeOf
    MaxSyncs = 2
    MaxMsgs = 2
    MaxNotices = 1
    None = None
INVARIANTS HeadOutstanding AnswerToAsker IdsExclusive
PROPERTIES QueueMoves ServesClients
