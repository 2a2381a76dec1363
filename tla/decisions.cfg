SPECIFICATION Spec
CONSTANTS
    NoDate = NoDate
    Members = {"ann", "bo"}
    CredentialRoles = {"coach", "referee"}
    RoleRows <- Roles
    CheckRows <- Checks
    TrainingRows <- Trainings
    CredentialRows <- Credentials
    HoldRows <- Holds
    Requests = {r1}
    Workload = {"eligibility", "credentials", "compliance"}
    LastDay = 2
    MaxChanges = 1
INVARIANTS TypeOK EligibleWasEarned RefusalWasJustified HoldOverrides FlagsExplainDecision NextExpirationHolds
