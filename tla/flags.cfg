SPECIFICATION Spec
CONSTANTS
    NoDate = NoDate
    Members = {"ann", "bo"}
    CredentialRoles = {"coach", "referee"}
    RoleRows <- Roles
    CheckRows <- Checks
    TrainingRows <- Trainings
    CredentialRows <- Credentials
    HoldRows <- Holds
    Requests = {r1}
    Workload = {"credentials"}
    LastDay = 2
    MaxChanges = 0
INVARIANTS FlagsNeverDisagree
