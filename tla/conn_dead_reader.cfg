CONSTANTS
  route_loop = route_loop
  pinger = pinger
  RouteLoop = route_loop
  Callers <- MCCallers
  HasBreaker = FALSE
  HasTimeout = FALSE
  ServerIds = {}
  Faults = {"crash"}
  Threshold = 2
  ResetTimeout = 1
  HighWater = 1
  MaxRequests = 2
  MaxQueue = 1
  MaxTime = 0
SPECIFICATION FairSpec
CHECK_DEADLOCK FALSE
PROPERTIES
  FailuresPropagate
