SPECIFICATION Spec
CONSTANTS
    Versions <- VersionsUsed
    Policies <- PoliciesUsed
    Events <- EventsUsed
    Amounts = {100, 200, 400}
    Currencies = {"INR", "EUR"}
    Contacts <- ContactsUsed
    Grants <- AnyGrants
    Envs <- EnvsUsed
    Minutes <- MinutesUsed
    Answers <- AnswersUsed
INVARIANTS
    ConsentGate
