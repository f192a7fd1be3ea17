CONSTANTS
    Contents = {a, b, big}
    Oversize = {big}
    Link = link
    MaxBlocks = 2
    MaxMessages = 2
SPECIFICATION FairSpec
CHECK_DEADLOCK FALSE
INVARIANTS
    VerdictFits
    FailurePolicyDecides
PROPERTIES
    ScansEnd
