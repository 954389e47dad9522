SPECIFICATION BusySpec
CONSTANTS
    e1 = e1
    e2 = e2
    r1 = r1
    r2 = r2
    Events = {e1, e2}
    Relays = {r1, r2}
    BatchSize = 2
    MaxRetries = 1
    MaxFaults = 1
INVARIANT ExclusiveClaim
PROPERTIES
    PublishedIsFinal
    DeliveryImplemented
    PendingSettles
CHECK_DEADLOCK FALSE
