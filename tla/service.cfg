SPECIFICATION FairSpec
CONSTANTS
    p1 = p1
    p2 = p2
    r1 = r1
    r2 = r2
    Nobody = Nobody
    NoToken = NoToken
    Processes = {p1}
    Newest <- OneRelease
    Migrating = {p1}
    Seeding = {p1}
    Restricted = {p1}
    SeedFile = 1
    RoleFile = 1
    Requests = {r1, r2}
    Tokens = {"learner", "client"}
    Claims <- TokenClaims
    Subjects = {"ann"}
    Seeded <- SeedRows
    PoolSize = 1
    Uses <- TwoUses
    MaxChanges = 1
CHECK_DEADLOCK FALSE
INVARIANTS TypeOK RolesDecide CutForAReason
PROPERTIES EveryRequestEnds EveryDrainEnds
