SPECIFICATION FairSpec
CONSTANTS
    Conns = {a, b, c}
    MaxClient = 2
    Tids <- MCTids
    MaxMsgs = 2
    MaxIndications = 1
    None = None
INVARIANTS SlotsExclusive AnswerToAsker
PROPERTIES ServesAgain ServesClients
