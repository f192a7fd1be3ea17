CONSTANTS
    Backends = {b1}
    Timeout = FALSE
    MaxCalls = 1
    MaxAsks = 1
SPECIFICATION FairSpec
CHECK_DEADLOCK FALSE
PROPERTY ReplyArrives
