SPECIFICATION FairSpec
CONSTANTS
    Versions <- VersionsUsed
    Policies <- PoliciesUsed
    Events <- EventsUsed
    Amounts = {100, 200, 400}
    Currencies = {"INR", "EUR"}
    Contacts <- ContactsUsed
    Grants <- AllGrants
    Envs <- EnvsUsed
    Minutes <- MinutesUsed
    Answers <- AnswersUsed
INVARIANTS
    AutomaticExecutionIsPermitted
    QuietHours
    OnlyCustomerRemediesExecuted
    StrandedByNightOrPolicyChange
    PropensityIsAdvisory
    RecoversOnlyInTestMode
PROPERTIES
    QueuedIsResolved
