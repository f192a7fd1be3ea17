CONSTANTS
  route_loop = route_loop
  pinger = pinger
  RouteLoop = route_loop
  Callers <- MCCallers
  HasBreaker = TRUE
  HasTimeout = TRUE
  ServerIds = {0, 1, 2}
  Faults = {}
  Threshold = 2
  ResetTimeout = 1
  HighWater = 1
  MaxRequests = 3
  MaxQueue = 1
  MaxTime = 1
SPECIFICATION Spec
CHECK_DEADLOCK FALSE
INVARIANTS
  ResolvedByResponses
  DrainedAtEnd
