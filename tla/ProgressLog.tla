----------------------------- MODULE ProgressLog -----------------------------
(***************************************************************************)
(* What the learning store promises, with every request a single atomic     *)
(* step: who is enrolled where, which lessons each enrollment completed.    *)
(* Projections, transactions, locks, retries and aborts do not appear here; *)
(* LearningStore implements this specification (LearningStoreProps).        *)
(***************************************************************************)
EXTENDS Naturals

CONSTANTS Members, DemoMembers, Published, Sequential, Lessons, Original,
          CourseOf, Position, Ids, NoRow

VARIABLES
    enrolled,  \* id -> [member, course, withdrawn], NoRow when there is none
    done,      \* lessons completed: set of <<id, lesson>>
    known,     \* the lessons that exist
    spent      \* ids ever given out

logVars == <<enrolled, done, known, spent>>

(* k comes before l in their course: by module, then within the module. *)
Precedes(k, l) ==
    /\ CourseOf[k] = CourseOf[l]
    /\ \/ Position[k][1] < Position[l][1]
       \/ Position[k][1] = Position[l][1] /\ Position[k][2] < Position[l][2]

LogInit ==
    /\ enrolled = [id \in Ids |-> NoRow]
    /\ done = {} /\ known = Original /\ spent = {}

LogEnroll(id, m, c) ==
    /\ id \notin spent /\ c \in Published
    /\ \A i \in Ids : enrolled[i] # NoRow =>
          ~ (enrolled[i].member = m /\ enrolled[i].course = c)
    /\ enrolled' = [enrolled EXCEPT ![id] =
                      [member |-> m, course |-> c, withdrawn |-> FALSE]]
    /\ spent' = spent \cup {id}
    /\ UNCHANGED <<done, known>>

(* Lessons added later may slip past a check that ran before they existed,  *)
(* so order is promised for the lessons that were always there.             *)
LogComplete(id, l) ==
    /\ enrolled[id] # NoRow /\ ~ enrolled[id].withdrawn
    /\ l \in known /\ CourseOf[l] = enrolled[id].course
    /\ CourseOf[l] \in Sequential =>
          \A k \in Original : Precedes(k, l) => <<id, k>> \in done
    /\ done' = done \cup {<<id, l>>}
    /\ UNCHANGED <<enrolled, known, spent>>

LogWithdraw(id) ==
    /\ enrolled[id] # NoRow
    /\ enrolled' = [enrolled EXCEPT ![id].withdrawn = TRUE]
    /\ UNCHANGED <<done, known, spent>>

LogReset(gone) ==
    /\ \A id \in gone : enrolled[id] # NoRow /\ enrolled[id].member \in DemoMembers
    /\ enrolled' = [id \in Ids |-> IF id \in gone THEN NoRow ELSE enrolled[id]]
    /\ done' = {e \in done : e[1] \notin gone}
    /\ UNCHANGED <<known, spent>>

LogAddLesson(l) ==
    /\ known' = known \cup {l}
    /\ UNCHANGED <<enrolled, done, spent>>

LogNext ==
    \/ \E id \in Ids, m \in Members, c \in Published : LogEnroll(id, m, c)
    \/ \E id \in Ids, l \in Lessons : LogComplete(id, l)
    \/ \E id \in Ids : LogWithdraw(id)
    \/ \E gone \in SUBSET Ids : LogReset(gone)
    \/ \E l \in Lessons : LogAddLesson(l)

LogSpec == LogInit /\ [][LogNext]_logVars

=============================================================================
