SPECIFICATION FairSpec
CONSTANTS
    m1 = m1
    m2 = m2
    r1 = r1
    r2 = r2
    o1 = o1
    o2 = o2
    i1 = i1
    i2 = i2
    NoRow = NoRow
    Members = {m1}
    DemoMembers = {m1}
    Courses <- OneCourse
    Published <- OneCourse
    Sequential <- OneCourse
    Lessons <- SeqLessons
    Original <- SeqLessons
    CourseOf <- SeqCourse
    Position <- SeqPosition
    Ids = {i1, i2}
    Requests = {r1}
    Operators = {o1}
    MaxFaults = 1
    FaultKinds = {"lose"}
    Workload = {"enroll", "complete", "dashboard", "dry_run", "repair", "reset"}
PROPERTIES EveryCallReturns
