CONSTANTS
    c1 = c1
    c2 = c2
    Clients = {c1}
    Principal <- Alone
    NBackends = 1
    Methods = {"tools", "prompts"}
    Resilient = TRUE
    Ttls = {1}
    DefaultTtl = 1
    Scopes = {"public"}
    MaxVersion = 0
    MaxLists = 4
    MaxTime = 0
SPECIFICATION FreeSpec
CHECK_DEADLOCK FALSE
INVARIANT RecoveredIsRefetched
