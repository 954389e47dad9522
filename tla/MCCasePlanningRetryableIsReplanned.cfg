SPECIFICATION VaryingSpec
CONSTANTS
    NumCases = 1
    Crons = {cron}
    Requests = {}
    Interventions = {sms}
    Decisions = {"approved", "later"}
    WorkerResults = {"RECOVERED", "DETECTED"}
    Take = 1
    Policies = {p1}
    FirstPolicy = p1
    MaxExternal = 0
    MaxFaults = 0
PROPERTY RetryableIsReplanned
CHECK_DEADLOCK FALSE
