CONSTANTS
  c1 = c1
  c2 = c2
  t1 = t1
  route_loop = route_loop
  Calls <- OneCall
  Tasks <- OneTask
  Loop = route_loop
  Cap = 0
  Idles = {0, 1, 2}
  Windows = {TRUE}
  FaultSets = {{}, {"raise"}}
SPECIFICATION Spec
CHECK_DEADLOCK FALSE
INVARIANTS
  NothingDangling
  CancelledSilent
  EveryCallAnswered
PROPERTIES
  IdleDeadlineHonoured
