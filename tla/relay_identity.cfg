CONSTANTS
    BackendEarly = TRUE
    MaxSent = 2
SPECIFICATION RelaySpec
INVARIANT BackendIdentityHidden
CHECK_DEADLOCK FALSE
