SPECIFICATION FairSpec
CONSTANTS
    Services <- MCServices
    CTL = "ctl"
    QmiType <- MCQmiType
    ClientId <- MCClientId
    LateEvent <- MCLateEvent
    Indications <- MCIndications
    Reset = "reset"
    NoEvent = "noevent"
    TidMax <- MCTidMax
    AnswerWindow <- MCAnswerWindow
    NSlices = 2
    EventCap = 5
    MaxCalls = 2
    MaxIndications = 1
    None = None
PROPERTY RpcSpec
PROPERTY StopEndsProcess
