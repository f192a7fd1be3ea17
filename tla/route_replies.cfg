CONSTANTS
    Backends = {b1, b2}
    Timeout = TRUE
    MaxCalls = 2
    MaxAsks = 1
SPECIFICATION FairSpec
CHECK_DEADLOCK FALSE
INVARIANTS
    RepliesGoHome
PROPERTIES
    ReplyArrives
    CallsAnswered
