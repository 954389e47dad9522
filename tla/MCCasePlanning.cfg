SPECIFICATION FairSpec
CONSTANTS
    NumCases = 1
    Crons = {cron}
    Requests = {r1}
    Interventions = {sms}
    Decisions = {"approved", "human", "stop", "escalate", "later"}
    WorkerResults = {"RECOVERED", "DETECTED"}
    Take = 1
    Policies = {p1, p2}
    FirstPolicy = p1
    MaxExternal = 2
    MaxFaults = 1
INVARIANTS
    InsertsNeverCollide
    OnlyApprovedPlansEnqueued
    PolicyCheckedIsEnqueueable
PROPERTIES
    QueuedFromPolicyChecked
    PlanningImplemented
    DetectedIsPlanned
CHECK_DEADLOCK FALSE
