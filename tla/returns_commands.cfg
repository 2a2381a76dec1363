SPECIFICATION FairSpec
CONSTANTS
    m1 = m1
    m2 = m2
    r1 = r1
    r2 = r2
    o1 = o1
    o2 = o2
    i1 = i1
    i2 = i2
    NoRow = NoRow
    Members = {m1, m2}
    DemoMembers = {m1, m2}
    Courses <- OneCourse
    Published <- OneCourse
    Sequential <- OneCourse
    Lessons <- OneLesson
    Original <- OneLesson
    CourseOf <- LessonACourse
    Position <- LessonAPosition
    Ids = {i1, i2}
    Requests = {r1}
    Operators = {o1, o2}
    MaxFaults = 0
    FaultKinds = {}
    Workload = {"enroll", "repair", "reset"}
PROPERTIES EveryCallReturns
