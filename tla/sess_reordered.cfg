CONSTANTS
    Posts = {1}
    Streams = {}
    MaxEvents = 0
    MaxReloads = 0
    Modes = {FALSE}
    MaxInputs = 4
    MayFail = FALSE
SPECIFICATION MCFairSpec
CHECK_DEADLOCK FALSE
PROPERTY RequestsAnswered
