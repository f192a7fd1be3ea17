SPECIFICATION MCSpec
CONSTANTS
  Arguments = {"raw", "clean"}
  Marks = {"scanned"}
  Backends <- MCBackends
  Chains <- MCChains
  Handlers <- MCHandlers
  Accepted = {"clean"}
  Pools = {TRUE, FALSE}
  Sinks = {TRUE, FALSE}
  Resilient = TRUE
  Uris = {"u"}
  TaskIds <- MCTaskIds
  MaxRequests = 3
  MaxUpdates = 1
CHECK_DEADLOCK FALSE
INVARIANTS
    AttestationsPaired
    ScannedAsForwarded
    HandlesRouteHome
PROPERTIES
    UpdatesOnlyWhileSubscribed
