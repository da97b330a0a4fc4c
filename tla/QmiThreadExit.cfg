SPECIFICATION Spec
CONSTANTS
    Services <- MCServices
    CTL = "ctl"
    QmiType <- MCQmiType
    ClientId <- MCClientId
    LateEvent <- MCLateEvent
    Indications <- MCIndications
    Reset = "reset"
    NoEvent = "noevent"
    TidMax <- MCTidMax
    AnswerWindow <- MCAnswerWindow
    NSlices = 2
    EventCap = 2
    MaxCalls = 3
    MaxIndications = 2
    None = None
CHECK_DEADLOCK FALSE
INVARIANT ExitReleasesCaller
