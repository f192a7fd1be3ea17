CONSTANTS
    Posts = {1, 2}
    Streams = {}
    MaxEvents = 2
    MaxReloads = 1
    Modes = {TRUE, FALSE}
    MaxInputs = 4
    MayFail = TRUE
SPECIFICATION MCFairSpec
CHECK_DEADLOCK FALSE
INVARIANTS
    AnswerMatches
PROPERTIES
    RequestsAnswered
