SPECIFICATION FairStartupSpec
CONSTANTS
    p1 = p1
    p2 = p2
    p3 = p3
    Nobody = Nobody
    Processes = {p1, p2, p3}
    Newest <- TwoReleases
    Migrating = {p1, p2, p3}
    Seeding = {p1}
    Restricted = {p2}
    SeedFile = 1
    RoleFile = 2
CHECK_DEADLOCK FALSE
INVARIANTS StartupTypeOK NobodyOvertakes LedgerExact
PROPERTIES ImplementsRollout EveryStartEnds
