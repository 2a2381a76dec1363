--------------------------- MODULE MCLearningStore ---------------------------
(***************************************************************************)
(* Instances of LearningStore for TLC.  Course "seq" is sequential with two *)
(* modules: m1 holds lesson a at position 2, m2 holds b at position 1, so   *)
(* lesson positions alone order them the wrong way round.  Course "open"    *)
(* starts without a lesson and is given one, "x", while it is in use.       *)
(***************************************************************************)
EXTENDS LearningStoreInv, TLC

CONSTANTS m1, m2, r1, r2, o1, o2, i1, i2

TwoCourses == {"seq", "open"}
OneCourse == {"seq"}
SeqLessons == {"a", "b"}
AllLessons == {"a", "b", "x"}
OneLesson == {"a"}
CourseTable == [l \in AllLessons |-> IF l = "x" THEN "open" ELSE "seq"]
PositionTable == [l \in AllLessons |->
    CASE l = "a" -> <<1, 2>> [] l = "b" -> <<2, 1>> [] l = "x" -> <<1, 1>>]
LessonACourse == [l \in OneLesson |-> "seq"]
LessonAPosition == [l \in OneLesson |-> <<1, 2>>]
SeqCourse == [l \in SeqLessons |-> "seq"]
SeqPosition == [l \in SeqLessons |-> PositionTable[l]]

Symmetry == Permutations(Ids) \cup Permutations(Requests) \cup Permutations(Operators)

=============================================================================
