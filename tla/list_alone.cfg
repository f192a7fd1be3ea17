CONSTANTS
    c1 = c1
    c2 = c2
    Clients = {c1}
    Principal <- Alone
    NBackends = 1
    Methods = {"tools"}
    Resilient = FALSE
    Ttls = {1}
    DefaultTtl = 1
    Scopes = {"public"}
    MaxVersion = 1
    MaxLists = 2
    MaxTime = 0
SPECIFICATION FreeSpec
CHECK_DEADLOCK FALSE
INVARIANT
    ChangeIsVisible
