CONSTANTS
  route_loop = route_loop
  pinger = pinger
  RouteLoop = route_loop
  Callers <- MCCallers
  HasBreaker = TRUE
  HasTimeout = TRUE
  ServerIds = {}
  Faults = {"crash"}
  Threshold = 3
  ResetTimeout = 1
  HighWater = 1
  MaxRequests = 2
  MaxQueue = 1
  MaxTime = 1
SPECIFICATION FairSpec
CHECK_DEADLOCK FALSE
INVARIANTS
  SinkServerInitiatedOnly
PROPERTIES
  DownAtStartupLeftOut
  PingRecorded
  TimeoutBounds
