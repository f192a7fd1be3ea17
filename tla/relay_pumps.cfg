CONSTANTS
    BackendEarly = FALSE
    MaxSent = 3
SPECIFICATION RelayFairSpec
CHECK_DEADLOCK FALSE
INVARIANTS
    DeniedAnswered
PROPERTIES
    PumpsAreChannels
