CONSTANTS
  route_loop = route_loop
  pinger = pinger
  RouteLoop = route_loop
  Callers <- MCCallers
  HasBreaker = FALSE
  HasTimeout = FALSE
  ServerIds = {0}
  Faults = {"crash", "garbage", "sink"}
  Threshold = 2
  ResetTimeout = 1
  HighWater = 1
  MaxRequests = 3
  MaxQueue = 1
  MaxTime = 0
SPECIFICATION FairSpec
CHECK_DEADLOCK FALSE
PROPERTIES
    StopFailsAll
