CONSTANTS
    c1 = c1
    c2 = c2
    Clients = {c1, c2}
    Principal <- TwoPrincipals
    NBackends = 2
    Methods = {"tools"}
    Resilient = TRUE
    Ttls = {0, 1}
    DefaultTtl = 1
    Scopes = {"public", "private"}
    MaxVersion = 1
    MaxLists = 2
    MaxTime = 1
SPECIFICATION MCSpec
CHECK_DEADLOCK FALSE
INVARIANTS
    PrivateStaysPrivate
    StaleOnlyIfOvertaken
    NothingMissingSilently
