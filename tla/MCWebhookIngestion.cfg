SPECIFICATION FairSpec
CONSTANTS
    Nobody = Nobody
    i1 = i1
    i2 = i2
    h1 = h1
    IngestEvents = {i1}
    WebhookEvents = {h1}
    IngestInputs <- Ingested
    WebhookInputs <- Webhooks
    Requests = {q1, q2}
    Runners = {n1, n2}
    InitialCases = 1
    PlanOutcomes = {"POLICY_CHECKED"}
    OtherStates = {"QUEUED"}
    MaxStalled = 1
    MaxWrites = 1
    MaxFaults = 1
INVARIANTS
    AcknowledgedReachesQueue
    IngestedOnce
    CaptureAuditIsTrue
    RecoveryAuditIsPast
    CompletedCaptureIsApplied
PROPERTIES
    EventsSettle
CHECK_DEADLOCK FALSE
