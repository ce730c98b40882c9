SPECIFICATION FairSpec
CONSTANTS
    a = a
    b = b
    c = c
    d = d
    Request = {a, b, c}
    Streaming = {a, b}
    Priority <- MCPriority3
    Threshold = {a, c}
    ThresholdEnabled = TRUE
    QueueMaxSize = 2
    MaxBuffered = 1
    NoRequest = NoRequest
INVARIANTS
    TypeOK
    IdleMeansDrained
    StreamProtocol
    OnlyOwnerCancels
    LoggedOnce
PROPERTIES
    GraceRespected
    FutureIsFinal
    ImplementsPriorityServer
    HandlersReturn
CHECK_DEADLOCK FALSE
