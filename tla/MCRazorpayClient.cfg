SPECIFICATION FairSpec
CONSTANTS
    Calls = {c1, c2}
    References = {r1, r2}
    Retries = 3
    MaxFaults = 2
INVARIANTS
    OneLinkPerCall
    OrphanLinkHasCause
PROPERTIES
    CallsReturn
CHECK_DEADLOCK FALSE
