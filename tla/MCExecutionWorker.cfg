SPECIFICATION Spec
CONSTANTS
    Nobody = Nobody
    w1 = w1
    w2 = w2
    Cases = {c1}
    Workers = {w1, w2}
    Scanners = {s1}
    PolicyOutcomes = {"approved", "stop", "transient"}
    ProviderOutcomes = {"none", "partial", "full", "rejected", "timeout"}
    MaxAttempts = 2
    MaxStalled = 1
    MaxFaults = 1
    MaxPayments = 1
    TimelyWorkers = FALSE
SYMMETRY WorkerSymmetry
INVARIANTS
    TypeOK
    CallsSeparatedByRelease
    UnfinishedCallIsLocked
    CaseBackedByOutcome
PROPERTIES
    CaseWritesAreVersioned
    NoBlindOverwrite
    LeaseImplemented
CHECK_DEADLOCK FALSE
