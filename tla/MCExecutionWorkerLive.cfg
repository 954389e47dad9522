SPECIFICATION FairSpec
CONSTANTS
    Nobody = Nobody
    w1 = w1
    w2 = w2
    Cases = {c1}
    Workers = {w1, w2}
    Scanners = {s1}
    PolicyOutcomes = {"approved", "stop"}
    ProviderOutcomes = {"partial", "timeout"}
    MaxAttempts = 2
    MaxStalled = 1
    MaxFaults = 1
    MaxPayments = 0
    TimelyWorkers = FALSE
PROPERTIES
    JobSettles
    ClaimedExecutionSettles
CHECK_DEADLOCK FALSE
