SPECIFICATION Spec
CONSTANTS
    m1 = m1
    m2 = m2
    r1 = r1
    r2 = r2
    o1 = o1
    o2 = o2
    i1 = i1
    i2 = i2
    NoRow = NoRow
    Members = {m1}
    DemoMembers = {m1}
    Courses <- TwoCourses
    Published <- TwoCourses
    Sequential <- OneCourse
    Lessons <- AllLessons
    Original <- SeqLessons
    CourseOf <- CourseTable
    Position <- PositionTable
    Ids = {i1, i2}
    Requests = {r1}
    Operators = {o1}
    MaxFaults = 1
    FaultKinds = {"skew"}
    Workload = {"enroll", "complete", "dashboard", "dry_run", "repair", "reset"}
SYMMETRY Symmetry
INVARIANTS ChecksNeverFire NoFalseDrift
PROPERTIES WithdrawnStays RepairExact
