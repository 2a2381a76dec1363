SPECIFICATION Spec
CONSTANTS
    r1 = r1
    r2 = r2
    r3 = r3
    Addresses = {"ann", "bo"}
    Junk = "junk"
    Prefixes <- Headers
    Requests = {r1, r2, r3}
    MaxConcurrent = 2
    Limit = 2
    Window = 2
    LastTick = 6
SYMMETRY Symmetry
INVARIANTS TypeOK SlotsExact AnyWindow
PROPERTIES RefusalIsEarned
