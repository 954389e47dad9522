SPECIFICATION Spec
CONSTANTS
    Nobody = Nobody
    w1 = w1
    w2 = w2
    Cases = {c1}
    Workers = {w1, w2}
    Scanners = {s1}
    PolicyOutcomes = {"approved", "stop", "transient"}
    ProviderOutcomes = {"none", "partial", "full", "rejected", "timeout"}
    MaxAttempts = 2
    MaxStalled = 1
    MaxFaults = 1
    MaxPayments = 0
    TimelyWorkers = TRUE
INVARIANT AtMostOnceExecution
CHECK_DEADLOCK FALSE
