CONSTANTS
  c1 = c1
  c2 = c2
  t1 = t1
  route_loop = route_loop
  Calls <- TwoCalls
  Tasks <- OneTask
  Loop = route_loop
  Cap = 1
  Idles = {0, 1}
  Windows = {TRUE, FALSE}
  FaultSets = {{"raise", "loop"}, {"deaf"}}
SPECIFICATION FairSpec
CHECK_DEADLOCK FALSE
INVARIANTS
    AnsweredOnce
    LiveWorkReachable
    DrainLeavesNone
PROPERTIES
    CallsEnd
