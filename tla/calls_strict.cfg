SPECIFICATION Spec
CONSTANTS
  Arguments = {"raw", "clean"}
  Marks = {"scanned"}
  Backends <- OneBackend
  Chains <- NoChain
  Handlers <- MCHandlers
  Accepted = {"clean"}
  Pools = {FALSE}
  Sinks = {TRUE, FALSE}
  Resilient = FALSE
  Uris = {"u"}
  TaskIds <- MCTaskIds
  MaxRequests = 2
  MaxUpdates = 1
INVARIANTS AttestationsPaired
CHECK_DEADLOCK FALSE
