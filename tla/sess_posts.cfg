CONSTANTS
    Posts = {1, 2, 3}
    Streams = {s1, s2}
    MaxEvents = 2
    MaxReloads = 1
    Modes = {TRUE, FALSE}
    MaxInputs = 4
    MayFail = TRUE
SPECIFICATION MCFairSpec
CHECK_DEADLOCK FALSE
INVARIANTS
    StrictAnswerMatches
    EventsOnce
PROPERTIES
    DeleteEnds
