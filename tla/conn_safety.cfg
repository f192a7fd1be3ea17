CONSTANTS
  route_loop = route_loop
  pinger = pinger
  RouteLoop = route_loop
  Callers <- MCCallers
  HasBreaker = TRUE
  HasTimeout = TRUE
  ServerIds = {}
  Faults = {"crash", "sink"}
  Threshold = 2
  ResetTimeout = 1
  HighWater = 1
  MaxRequests = 3
  MaxQueue = 1
  MaxTime = 1
SPECIFICATION FairSpec
CHECK_DEADLOCK FALSE
INVARIANTS
    WritesExclusive
    NobodyForgotten
    AnswersOwn
    OpensOnConsecutiveFailures
PROPERTIES
    OpenUntilReset
    RequestsEnd
    KeepsContract
