---------------------------- MODULE LearningStore ----------------------------
(***************************************************************************)
(* The learning tables of the service and every transaction that touches   *)
(* them, one action per SQL statement:                                      *)
(*   - the requests of api/internal/store (Enroll, CompleteLesson,          *)
(*     LoadDashboard), run by the processes Requests;                       *)
(*   - the operator commands of api/internal/projection (Reconcile) and     *)
(*     api/internal/demoreset (Reset), run by the processes Operators;      *)
(*   - what the SQL of a person at a prompt does (external): withdrawing an *)
(*     enrollment, adding a lesson, losing or skewing a projection row.     *)
(*                                                                          *)
(* PostgreSQL is modelled by the rules the code relies on: a transaction's  *)
(* writes are invisible until its commit; READ COMMITTED reads the rows     *)
(* committed when the statement runs; FOR UPDATE and DELETE exclude every   *)
(* other row lock, the key-share lock of a foreign-key check excludes only  *)
(* those two; a unique conflict with an uncommitted row waits for it; a     *)
(* REPEATABLE READ transaction fails when it locks a row changed since its  *)
(* snapshot.  A statement that must wait is an action that is not enabled.  *)
(***************************************************************************)
EXTENDS Naturals, FiniteSets

CONSTANTS
    Members, DemoMembers,   \* learners; those of the demo association
    Courses, Published,     \* courses; those an enrollment may be made in
    Sequential,             \* courses whose lessons must be taken in order
    Lessons, Original,      \* lessons; those that exist from the start
    CourseOf,               \* the course of a lesson
    Position,               \* <<module position, lesson position>> of a lesson
    Ids,                    \* enrollment ids (uuids: never used twice)
    Requests, Operators,    \* processes
    MaxFaults,              \* bound on projection rows lost or skewed by hand
    FaultKinds,             \* which of "lose", "skew" may happen
    Workload,               \* which calls and commands an instance makes
    NoRow                   \* an absent row or value

ASSUME DataAssumption ==
    /\ DemoMembers \subseteq Members
    /\ Published \subseteq Courses /\ Sequential \subseteq Courses
    /\ IsFiniteSet(Lessons) /\ Original \subseteq Lessons
    /\ CourseOf \in [Lessons -> Courses]
    /\ Position \in [Lessons -> Nat \X Nat]

ASSUME BoundAssumption ==
    /\ Requests \cap Operators = {}
    /\ MaxFaults \in Nat /\ FaultKinds \subseteq {"lose", "skew"}
    /\ Workload \subseteq {"enroll", "complete", "dashboard",
                           "dry_run", "repair", "reset"}

Statuses == {"active", "completed", "withdrawn"}
Enrollment == [member : Members, course : Courses, status : Statuses]
Projection == [done : Nat, total : Nat]
Expectation == [done : Nat, total : Nat, status : Statuses]
Procs == Requests \cup Operators

ASSUME NoRowAssumption ==
    /\ NoRow \notin Enrollment \cup Projection \cup Expectation
    /\ NoRow \notin Ids \cup Lessons \cup Members \cup Courses \cup Statuses

VARIABLES
    enr,      \* table enrollment: id -> row
    events,   \* table progress_event: set of <<enrollment id, lesson>>
    proj,     \* table enrollment_progress: id -> row
    content,  \* the lessons that exist
    used,     \* ids ever committed
    faults,   \* projection rows lost or skewed by hand so far
    pc,       \* the next statement of each process
    arg,      \* what each request works on
    wr,       \* uncommitted writes of each request
    held,     \* enrollment rows locked FOR UPDATE (or by DELETE)
    shared,   \* enrollment rows key-share locked by a foreign-key check
    todo,     \* rows a process has yet to visit
    plan,     \* what a reconciliation decided to write, from its snapshot
    stale,    \* rows changed since a reconciliation's snapshot
    head,     \* first half of the progress being loaded
    out       \* the answer of each request

db == <<enr, events, proj, content, used, faults>>
txn == <<wr, held, shared>>
vars == <<db, pc, arg, txn, todo, plan, stale, head, out>>

----------------------------------------------------------------------------
(* Derived data *)

CourseLessons(c) == {l \in content : CourseOf[l] = c}
CompletedLessons(id) == {l \in Lessons : <<id, l>> \in events}

Earlier(k, l) ==
    /\ CourseOf[k] = CourseOf[l]
    /\ \/ Position[k][1] < Position[l][1]
       \/ Position[k][1] = Position[l][1] /\ Position[k][2] < Position[l][2]

DerivedStatus(row) ==
    IF row.total > 0 /\ row.done = row.total THEN "completed" ELSE "active"

(* expectedSQL for one enrollment *)
Expected(id) ==
    LET row == [done |-> Cardinality(CompletedLessons(id)),
                total |-> Cardinality(CourseLessons(enr[id].course))]
    IN  [done |-> row.done, total |-> row.total,
         status |-> IF enr[id].status = "withdrawn" THEN "withdrawn"
                                                    ELSE DerivedStatus(row)]

Drifted(id) ==
    /\ enr[id] # NoRow
    /\ \/ proj[id] = NoRow
       \/ [done |-> proj[id].done, total |-> proj[id].total,
           status |-> enr[id].status] # Expected(id)

ReportNow == [id \in Ids |-> IF Drifted(id) THEN Expected(id) ELSE NoRow]
NoPlan == [id \in Ids |-> NoRow]
Planned(p) == {id \in Ids : plan[p][id] # NoRow}

----------------------------------------------------------------------------
(* Rows, locks and uncommitted writes *)

NoArg == [op |-> "none", member |-> NoRow, course |-> NoRow, id |-> NoRow,
          lesson |-> NoRow, total |-> 0]
NoWrites == [enr |-> FALSE, evt |-> FALSE, proj |-> NoRow, status |-> NoRow]
NoReply == [kind |-> "none", created |-> FALSE, views |-> {}]

(* The committed enrollment of a member in a course: at most one. *)
Enrolled(m, c) ==
    {id \in Ids : enr[id] # NoRow /\ enr[id].member = m /\ enr[id].course = c}

Fresh(id) == id \notin used /\ \A q \in Requests : arg[q].id # id

(* Processes with an uncommitted insert of an enrollment of m in c. *)
Inserting(m, c) ==
    {q \in Requests : wr[q].enr /\ arg[q].member = m /\ arg[q].course = c}

Rebuilt(q) == IF pc[q] = "r_rebuild" THEN Planned(q) \ todo[q] ELSE {}
Deleting(q) == IF pc[q] \in {"z_lock", "z_commit"} THEN held[q] ELSE {}

(* Processes with an uncommitted update or delete of an enrollment row. *)
RowWriters(id) ==
    {q \in Requests : wr[q].status # NoRow /\ arg[q].id = id}
        \cup {q \in Operators : id \in Rebuilt(q) \cup Deleting(q)}

(* Processes with an uncommitted event of this lesson of the enrollment. *)
EventWriters(id, l) ==
    {q \in Requests : wr[q].evt /\ arg[q].id = id /\ arg[q].lesson = l}

(* Processes with an uncommitted write of a projection row. *)
ProjWriters(id) ==
    {q \in Requests : wr[q].proj # NoRow /\ arg[q].id = id}
        \cup {q \in Operators : \/ id \in Rebuilt(q)
                                \/ pc[q] = "z_commit" /\ id \in held[q]}

Excluders(p, id) == {q \in Procs \ {p} : id \in held[q]}
Lockers(p, id) == Excluders(p, id) \cup {q \in Requests \ {p} : id \in shared[q]}

(* Rows a commit changes become stale for every open reconciliation. *)
Touch(rows) ==
    stale' = [q \in Operators |-> IF pc[q] \in {"r_lock", "r_rebuild"}
                                  THEN stale[q] \cup rows ELSE {}]

----------------------------------------------------------------------------
(* Requests: begin, refuse, return *)

Goto(p, label) == pc' = [pc EXCEPT ![p] = label]

Release(p) ==
    /\ wr' = [q \in Requests |-> IF q = p THEN NoWrites ELSE wr[q]]
    /\ held' = [held EXCEPT ![p] = {}]
    /\ shared' = [q \in Requests |-> IF q = p THEN {} ELSE shared[q]]

(* An early return: the deferred rollback runs and the caller gets an error. *)
Refuse(p, kind) ==
    /\ Goto(p, "replied")
    /\ Release(p)
    /\ out' = [out EXCEPT ![p] = [NoReply EXCEPT !.kind = kind]]
    /\ UNCHANGED <<db, arg, todo, plan, stale, head>>

(* One more statement of p's transaction ran; nothing else changed. *)
Advance(p, label) ==
    /\ Goto(p, label)
    /\ UNCHANGED <<db, todo, plan, stale, head, out>>

Finish(p) ==
    /\ Goto(p, "idle")
    /\ arg' = [q \in Requests |-> IF q = p THEN NoArg ELSE arg[q]]
    /\ out' = [q \in Requests |-> IF q = p THEN NoReply ELSE out[q]]
    /\ head' = [q \in Requests |-> IF q = p THEN NoRow ELSE head[q]]
    /\ plan' = [q \in Operators |-> IF q = p THEN NoPlan ELSE plan[q]]
    /\ stale' = [q \in Operators |-> IF q = p THEN {} ELSE stale[q]]
    /\ todo' = [todo EXCEPT ![p] = {}]
    /\ UNCHANGED db

Return(p) == pc[p] = "replied" /\ Finish(p) /\ UNCHANGED txn

GiveUp(p) == Finish(p) /\ Release(p)

(* A lost connection, a cancelled context, a killed process, a caller that  *)
(* gave up: what was not committed is rolled back, what was stays, and the  *)
(* caller learns neither.                                                   *)
Abort(p) == pc[p] \notin {"idle", "replied"} /\ GiveUp(p)

----------------------------------------------------------------------------
(* Enroll *)

(* Bound: an enrollment starts only while an unused id is left for it. *)
IdsLeft ==
    Cardinality({id \in Ids : Fresh(id)})
        > Cardinality({q \in Requests : arg[q].op = "enroll" /\ arg[q].id = NoRow})

(* BEGIN; count the lessons of the published course. *)
EnrollBegin(p, m, c) ==
    /\ pc[p] = "idle" /\ IdsLeft
    /\ IF c \in Published
       THEN /\ arg' = [arg EXCEPT ![p] = [NoArg EXCEPT
                          !.op = "enroll", !.member = m, !.course = c,
                          !.total = Cardinality(CourseLessons(c))]]
            /\ Advance(p, "e_insert")
            /\ UNCHANGED txn
       ELSE Refuse(p, "not_found")

(* Mutant: no unique constraint, only a look before the insert. *)
EnrollInsertUnchecked(p) ==
    /\ pc[p] = "e_insert"
    /\ IF Enrolled(arg[p].member, arg[p].course) = {}
       THEN \E id \in Ids :
              /\ Fresh(id)
              /\ arg' = [arg EXCEPT ![p].id = id]
              /\ wr' = [wr EXCEPT ![p].enr = TRUE]
       ELSE UNCHANGED <<arg, wr>>
    /\ Advance(p, "e_select")
    /\ UNCHANGED <<held, shared>>

(* INSERT INTO enrollment ... ON CONFLICT DO NOTHING: waits for another     *)
(* transaction's uncommitted row of the same pair, and for an uncommitted   *)
(* update or delete of the row it conflicts with.                           *)
EnrollInsert(p) ==
    LET m == arg[p].member
        c == arg[p].course
    IN  /\ pc[p] = "e_insert"
        /\ Inserting(m, c) \ {p} = {}
        /\ \A id \in Enrolled(m, c) : RowWriters(id) = {}
        /\ IF Enrolled(m, c) = {}
           THEN \E id \in Ids :
                  /\ Fresh(id)
                  /\ arg' = [arg EXCEPT ![p].id = id]
                  /\ wr' = [wr EXCEPT ![p].enr = TRUE]
           ELSE UNCHANGED <<arg, wr>>
        /\ Advance(p, "e_select")
        /\ UNCHANGED <<held, shared>>

(* SELECT id: its own row, or the committed one; a reset may have deleted   *)
(* the row the insert conflicted with, and then there is none.              *)
EnrollSelect(p) ==
    /\ pc[p] = "e_select"
    /\ LET found == IF wr[p].enr THEN {arg[p].id}
                    ELSE Enrolled(arg[p].member, arg[p].course)
       IN  IF found = {}
           THEN Refuse(p, "internal")
           ELSE \E id \in found :
                  /\ arg' = [arg EXCEPT ![p].id = id]
                  /\ Advance(p, "e_project")
                  /\ UNCHANGED txn

(* Mutant: total_lessons is left null. *)
EnrollProjectNull(p) ==
    /\ pc[p] = "e_project"
    /\ wr' = [wr EXCEPT ![p].proj = [done |-> 0, total |-> NoRow]]
    /\ Advance(p, "e_commit")
    /\ UNCHANGED <<arg, held, shared>>

(* Mutant: ON CONFLICT DO UPDATE, so a retry rewrites the row. *)
EnrollProjectUpsert(p) ==
    /\ pc[p] = "e_project"
    /\ ProjWriters(arg[p].id) \ {p} = {}
    /\ wr' = [wr EXCEPT ![p].proj = [done |-> 0, total |-> arg[p].total]]
    /\ Advance(p, "e_fk")
    /\ UNCHANGED <<arg, held, shared>>

(* INSERT INTO enrollment_progress ... ON CONFLICT DO NOTHING.  Only a row  *)
(* really inserted has its foreign key checked.                             *)
EnrollProject(p) ==
    /\ pc[p] = "e_project"
    /\ ProjWriters(arg[p].id) \ {p} = {}
    /\ IF proj[arg[p].id] = NoRow
       THEN /\ wr' = [wr EXCEPT ![p].proj = [done |-> 0, total |-> arg[p].total]]
            /\ Advance(p, "e_fk")
       ELSE UNCHANGED wr /\ Advance(p, "e_commit")
    /\ UNCHANGED <<arg, held, shared>>

(* The foreign-key check locks the enrollment row against deletion. *)
EnrollForeignKey(p) ==
    LET id == arg[p].id
    IN  /\ pc[p] = "e_fk"
        /\ Excluders(p, id) = {}
        /\ IF wr[p].enr \/ enr[id] # NoRow
           THEN /\ shared' = [shared EXCEPT ![p] = {id}]
                /\ Advance(p, "e_commit")
                /\ UNCHANGED <<arg, wr, held>>
           ELSE Refuse(p, "internal")

EnrollCommit(p) ==
    LET id == arg[p].id
    IN  /\ pc[p] = "e_commit"
        /\ IF wr[p].enr
           THEN /\ enr' = [enr EXCEPT ![id] = [member |-> arg[p].member,
                             course |-> arg[p].course, status |-> "active"]]
                /\ used' = used \cup {id}
           ELSE UNCHANGED <<enr, used>>
        /\ IF wr[p].proj # NoRow
           THEN proj' = [proj EXCEPT ![id] = wr[p].proj] /\ Touch({<<"proj", id>>})
           ELSE UNCHANGED <<proj, stale>>
        /\ out' = [out EXCEPT ![p].created = wr[p].enr]
        /\ todo' = [todo EXCEPT ![p] = {id}]
        /\ Release(p)
        /\ Goto(p, "load_row")
        /\ UNCHANGED <<events, content, faults, arg, plan, head>>

----------------------------------------------------------------------------
(* CompleteLesson *)

(* Callers know only ids the service has returned.  SELECT ... FOR UPDATE,  *)
(* then the owner and status checks on the row it locked.                   *)
CompleteBegin(p, m, id, l) ==
    /\ pc[p] = "idle"
    /\ id \in used /\ l \in content
    /\ arg' = [arg EXCEPT ![p] = [NoArg EXCEPT
                  !.op = "complete", !.member = m, !.id = id, !.lesson = l]]
    /\ Advance(p, "c_lock")
    /\ UNCHANGED txn

(* Mutant: the status of the locked row is not looked at. *)
CompleteLockWithdrawn(p) ==
    LET id == arg[p].id
    IN  /\ pc[p] = "c_lock"
        /\ Lockers(p, id) = {}
        /\ IF enr[id] = NoRow THEN Refuse(p, "not_found")
           ELSE IF enr[id].member # arg[p].member THEN Refuse(p, "forbidden")
           ELSE /\ held' = [held EXCEPT ![p] = {id}]
                /\ arg' = [arg EXCEPT ![p].course = enr[id].course]
                /\ Advance(p, "c_place")
                /\ UNCHANGED <<wr, shared>>

CompleteLock(p) ==
    LET id == arg[p].id
    IN  /\ pc[p] = "c_lock"
        /\ Lockers(p, id) = {}
        /\ IF enr[id] = NoRow THEN Refuse(p, "not_found")
           ELSE IF enr[id].member # arg[p].member THEN Refuse(p, "forbidden")
           ELSE IF enr[id].status = "withdrawn" THEN Refuse(p, "withdrawn")
           ELSE /\ held' = [held EXCEPT ![p] = {id}]
                /\ arg' = [arg EXCEPT ![p].course = enr[id].course]
                /\ Advance(p, "c_place")
                /\ UNCHANGED <<wr, shared>>

(* Mutant: the lesson is looked up without its course. *)
CompletePlaceAnywhere(p) ==
    /\ pc[p] = "c_place"
    /\ IF arg[p].course \in Sequential
       THEN Advance(p, "c_order") ELSE Advance(p, "c_insert")
    /\ UNCHANGED <<arg, txn>>

(* The lesson must be one of the enrollment's course. *)
CompletePlace(p) ==
    /\ pc[p] = "c_place"
    /\ IF arg[p].lesson \in CourseLessons(arg[p].course)
       THEN /\ IF arg[p].course \in Sequential
               THEN Advance(p, "c_order") ELSE Advance(p, "c_insert")
            /\ UNCHANGED <<arg, txn>>
       ELSE Refuse(p, "not_found")

(* Mutant: only the position within the module is compared. *)
CompleteOrderInModule(p) ==
    /\ pc[p] = "c_order"
    /\ IF \E k \in CourseLessons(arg[p].course) :
             /\ Position[k][2] < Position[arg[p].lesson][2]
             /\ <<arg[p].id, k>> \notin events
       THEN Refuse(p, "out_of_order")
       ELSE Advance(p, "c_insert") /\ UNCHANGED <<arg, txn>>

(* Mutant: the early return skips the rollback, so the row stays locked. *)
CompleteOrderKeepsLock(p) ==
    /\ pc[p] = "c_order"
    /\ IF \E k \in CourseLessons(arg[p].course) :
             Earlier(k, arg[p].lesson) /\ <<arg[p].id, k>> \notin events
       THEN Goto(p, "replied") /\ UNCHANGED <<db, arg, txn, todo, plan, stale, head, out>>
       ELSE Advance(p, "c_insert") /\ UNCHANGED <<arg, txn>>

CompleteOrder(p) ==
    /\ pc[p] = "c_order"
    /\ IF \E k \in CourseLessons(arg[p].course) :
             Earlier(k, arg[p].lesson) /\ <<arg[p].id, k>> \notin events
       THEN Refuse(p, "out_of_order")
       ELSE Advance(p, "c_insert") /\ UNCHANGED <<arg, txn>>

(* Mutant: the unique key of progress_event misses lesson_id. *)
CompleteInsertWrongKey(p) ==
    /\ pc[p] = "c_insert"
    /\ wr' = [wr EXCEPT ![p].evt = CompletedLessons(arg[p].id) = {}]
    /\ Advance(p, "c_project")
    /\ UNCHANGED <<arg, held, shared>>

(* Mutant: the rows affected are not looked at. *)
CompleteInsertCounted(p) ==
    /\ pc[p] = "c_insert"
    /\ wr' = [wr EXCEPT ![p].evt = TRUE]
    /\ Advance(p, "c_project")
    /\ UNCHANGED <<arg, held, shared>>

(* INSERT ... ON CONFLICT DO NOTHING: were another transaction's event of   *)
(* the same key uncommitted, it would wait for it.                          *)
CompleteInsert(p) ==
    /\ pc[p] = "c_insert"
    /\ EventWriters(arg[p].id, arg[p].lesson) \ {p} = {}
    /\ wr' = [wr EXCEPT ![p].evt = <<arg[p].id, arg[p].lesson>> \notin events]
    /\ Advance(p, "c_project")
    /\ UNCHANGED <<arg, held, shared>>

(* The events the transaction sees: the committed ones and its own. *)
SeenLessons(p) == CompletedLessons(arg[p].id) \cup {arg[p].lesson}

(* Mutant: the count is incremented instead of recounted. *)
CompleteIncrement(p) ==
    LET row == proj[arg[p].id]
    IN  /\ pc[p] = "c_project"
        /\ row # NoRow => ProjWriters(arg[p].id) \ {p} = {}
        /\ IF row # NoRow
           THEN wr' = [wr EXCEPT ![p].proj = [row EXCEPT !.done = @ + 1]]
           ELSE UNCHANGED wr
        /\ Advance(p, "c_status")
        /\ UNCHANGED <<arg, held, shared>>

(* UPDATE enrollment_progress: changes nothing when the row is missing, and *)
(* waits when another transaction has written it.                           *)
CompleteProject(p) ==
    /\ pc[p] = "c_project"
    /\ proj[arg[p].id] # NoRow => ProjWriters(arg[p].id) \ {p} = {}
    /\ IF proj[arg[p].id] # NoRow
       THEN wr' = [wr EXCEPT ![p].proj =
                [done |-> Cardinality(SeenLessons(p)),
                 total |-> Cardinality(CourseLessons(enr[arg[p].id].course))]]
       ELSE UNCHANGED wr
    /\ Advance(p, "c_status")
    /\ UNCHANGED <<arg, held, shared>>

(* Mutant: the status is not brought up to date. *)
CompleteNoStatus(p) ==
    /\ pc[p] = "c_status"
    /\ Advance(p, "c_commit")
    /\ UNCHANGED <<arg, txn>>

(* UPDATE enrollment ... FROM enrollment_progress: neither does this. *)
CompleteStatus(p) ==
    /\ pc[p] = "c_status"
    /\ IF wr[p].proj # NoRow /\ enr[arg[p].id].status # "withdrawn"
       THEN wr' = [wr EXCEPT ![p].status = DerivedStatus(wr[p].proj)]
       ELSE UNCHANGED wr
    /\ Advance(p, "c_commit")
    /\ UNCHANGED <<arg, held, shared>>

CompleteCommit(p) ==
    LET id == arg[p].id
    IN  /\ pc[p] = "c_commit"
        /\ events' = IF wr[p].evt THEN events \cup {<<id, arg[p].lesson>>} ELSE events
        /\ IF wr[p].proj # NoRow
           THEN proj' = [proj EXCEPT ![id] = wr[p].proj] ELSE UNCHANGED proj
        /\ IF wr[p].status # NoRow
           THEN enr' = [enr EXCEPT ![id].status = wr[p].status] ELSE UNCHANGED enr
        /\ Touch((IF wr[p].proj # NoRow THEN {<<"proj", id>>} ELSE {})
                 \cup (IF wr[p].status # NoRow THEN {<<"enr", id>>} ELSE {}))
        /\ out' = [out EXCEPT ![p].created = wr[p].evt]
        /\ todo' = [todo EXCEPT ![p] = {id}]
        /\ Release(p)
        /\ Goto(p, "load_row")
        /\ UNCHANGED <<content, used, faults, arg, plan, head>>

----------------------------------------------------------------------------
(* LoadDashboard and loadEnrollmentProgress *)

DashboardBegin(p, m) ==
    LET mine == {id \in Ids : enr[id] # NoRow /\ enr[id].member = m}
    IN  /\ pc[p] = "idle"
        /\ arg' = [arg EXCEPT ![p] = [NoArg EXCEPT !.op = "dashboard", !.member = m]]
        /\ todo' = [todo EXCEPT ![p] = mine]
        /\ IF mine = {}
           THEN Goto(p, "replied") /\ out' = [out EXCEPT ![p].kind = "ok"]
           ELSE Goto(p, "load_row") /\ UNCHANGED out
        /\ UNCHANGED <<db, txn, plan, stale, head>>

(* First statement: the enrollment with its projection, which is reported   *)
(* as zero progress over the current lessons when it is missing.            *)
LoadRow(p, id) ==
    /\ pc[p] = "load_row" /\ id \in todo[p]
    /\ IF enr[id] = NoRow \/ enr[id].member # arg[p].member
       THEN Refuse(p, "not_found")
       ELSE /\ head' = [head EXCEPT ![p] =
                  IF proj[id] # NoRow
                  THEN [id |-> id, status |-> enr[id].status,
                        done |-> proj[id].done, total |-> proj[id].total]
                  ELSE [id |-> id, status |-> enr[id].status, done |-> 0,
                        total |-> Cardinality(CourseLessons(enr[id].course))]]
            /\ todo' = [todo EXCEPT ![p] = @ \ {id}]
            /\ Goto(p, "load_lessons")
            /\ UNCHANGED <<db, arg, txn, plan, stale, out>>

(* Second statement: the lessons, and which of them are completed. *)
LoadLessons(p) ==
    LET id == head[p].id
        listed == IF enr[id] = NoRow THEN {} ELSE CourseLessons(enr[id].course)
        view == [id |-> id, status |-> head[p].status, done |-> head[p].done,
                 total |-> head[p].total, lessons |-> listed,
                 ticked |-> listed \cap CompletedLessons(id)]
    IN  /\ pc[p] = "load_lessons"
        /\ head' = [head EXCEPT ![p] = NoRow]
        /\ IF todo[p] = {}
           THEN /\ out' = [out EXCEPT ![p].views = @ \cup {view}, ![p].kind = "ok"]
                /\ Goto(p, "replied")
           ELSE /\ out' = [out EXCEPT ![p].views = @ \cup {view}]
                /\ Goto(p, "load_row")
        /\ UNCHANGED <<db, arg, txn, todo, plan, stale>>

----------------------------------------------------------------------------
(* Reconcile: REPEATABLE READ.  The snapshot is taken by the first          *)
(* statement, so what expectedSQL returns is decided there, before any row  *)
(* lock has been waited for.                                                *)

OperatorOnly == <<arg, wr, shared, head, out>>

ReconcileDryRun(p) ==
    /\ pc[p] = "idle"
    /\ plan' = [plan EXCEPT ![p] = ReportNow]
    /\ Goto(p, "replied")
    /\ UNCHANGED <<db, held, todo, stale, OperatorOnly>>

ReconcileBegin(p) ==
    /\ pc[p] = "idle"
    /\ plan' = [plan EXCEPT ![p] = ReportNow]
    /\ todo' = [todo EXCEPT ![p] = {id \in Ids : enr[id] # NoRow}]
    /\ stale' = [stale EXCEPT ![p] = {}]
    /\ Goto(p, "r_lock")
    /\ UNCHANGED <<db, held, OperatorOnly>>

(* Mutant: the report is kept though a row changed after it, instead of     *)
(* failing the lock.                                                        *)
ReconcileLockOldReport(p, id) ==
    /\ pc[p] = "r_lock" /\ id \in todo[p]
    /\ enr[id] # NoRow
    /\ Lockers(p, id) = {}
    /\ held' = [held EXCEPT ![p] = @ \cup {id}]
    /\ todo' = [todo EXCEPT ![p] = @ \ {id}]
    /\ UNCHANGED <<db, pc, plan, stale, OperatorOnly>>

(* Mutant: the report was read by a transaction of its own, before the one  *)
(* that locks: its snapshot is only taken here.                             *)
ReconcileLockAfterReport(p, id) ==
    /\ pc[p] = "r_lock" /\ id \in todo[p]
    /\ enr[id] # NoRow
    /\ Lockers(p, id) = {}
    /\ held' = [held EXCEPT ![p] = @ \cup {id}]
    /\ todo' = [todo EXCEPT ![p] = @ \ {id}]
    /\ stale' = [stale EXCEPT ![p] = {}]
    /\ UNCHANGED <<db, pc, plan, OperatorOnly>>

(* SELECT id FROM enrollment FOR UPDATE, row by row, in the scan's order. *)
ReconcileLock(p, id) ==
    /\ pc[p] = "r_lock" /\ id \in todo[p]
    /\ <<"enr", id>> \notin stale[p]
    /\ Lockers(p, id) = {}
    /\ held' = [held EXCEPT ![p] = @ \cup {id}]
    /\ todo' = [todo EXCEPT ![p] = @ \ {id}]
    /\ UNCHANGED <<db, pc, plan, stale, OperatorOnly>>

(* "could not serialize access": the row was updated or deleted since the   *)
(* snapshot; likewise a projection row inserted or updated since.           *)
ReconcileConflict(p) ==
    /\ \/ /\ pc[p] = "r_lock"
          /\ \E id \in todo[p] : <<"enr", id>> \in stale[p]
       \/ /\ pc[p] = "r_rebuild"
          /\ \E id \in todo[p] : <<"proj", id>> \in stale[p] /\ proj[id] # NoRow
    /\ GiveUp(p)

(* Mutant: the early return skips the rollback, so the locks stay. *)
ReconcileReportKeepsLocks(p) ==
    /\ pc[p] = "r_lock" /\ todo[p] = {}
    /\ IF Planned(p) = {}
       THEN Goto(p, "replied") /\ UNCHANGED todo
       ELSE Goto(p, "r_rebuild") /\ todo' = [todo EXCEPT ![p] = Planned(p)]
    /\ UNCHANGED <<db, held, plan, stale, OperatorOnly>>

(* All rows locked and the report read: nothing drifted ends the run.       *)
ReconcileReport(p) ==
    /\ pc[p] = "r_lock" /\ todo[p] = {}
    /\ IF Planned(p) = {}
       THEN /\ Goto(p, "replied")
            /\ held' = [held EXCEPT ![p] = {}]
            /\ UNCHANGED todo
       ELSE /\ Goto(p, "r_rebuild")
            /\ todo' = [todo EXCEPT ![p] = Planned(p)]
            /\ UNCHANGED held
    /\ UNCHANGED <<db, plan, stale, OperatorOnly>>

(* The upsert of one drifted projection and the status that follows it; the *)
(* upsert waits for an uncommitted insert of the same row.                  *)
ReconcileRebuild(p, id) ==
    /\ pc[p] = "r_rebuild" /\ id \in todo[p]
    /\ ProjWriters(id) = {}
    /\ ~ (<<"proj", id>> \in stale[p] /\ proj[id] # NoRow)
    /\ todo' = [todo EXCEPT ![p] = @ \ {id}]
    /\ UNCHANGED <<db, pc, held, plan, stale, OperatorOnly>>

ReconcileCommit(p) ==
    /\ pc[p] = "r_rebuild" /\ todo[p] = {}
    /\ proj' = [id \in Ids |-> IF id \in Planned(p)
                               THEN [done |-> plan[p][id].done, total |-> plan[p][id].total]
                               ELSE proj[id]]
    /\ enr' = [id \in Ids |-> IF id \in Planned(p)
                              THEN [enr[id] EXCEPT !.status = plan[p][id].status]
                              ELSE enr[id]]
    /\ Touch({"enr", "proj"} \X Planned(p))
    /\ held' = [held EXCEPT ![p] = {}]
    /\ Goto(p, "replied")
    /\ UNCHANGED <<events, content, used, faults, todo, plan, OperatorOnly>>

----------------------------------------------------------------------------
(* Reset: READ COMMITTED.  DELETE visits the rows its snapshot saw, skips   *)
(* those deleted meanwhile, then cascades to events and projections.        *)

ResetBegin(p) ==
    /\ pc[p] = "idle"
    /\ todo' = [todo EXCEPT ![p] =
                  {id \in Ids : enr[id] # NoRow /\ enr[id].member \in DemoMembers}]
    /\ Goto(p, "z_lock")
    /\ UNCHANGED <<db, held, plan, stale, OperatorOnly>>

ResetLock(p, id) ==
    /\ pc[p] = "z_lock" /\ id \in todo[p]
    /\ Lockers(p, id) = {}
    /\ held' = [held EXCEPT ![p] = IF enr[id] = NoRow THEN @ ELSE @ \cup {id}]
    /\ todo' = [todo EXCEPT ![p] = @ \ {id}]
    /\ UNCHANGED <<db, pc, plan, stale, OperatorOnly>>

ResetCascade(p) ==
    /\ pc[p] = "z_lock" /\ todo[p] = {}
    /\ Goto(p, "z_commit")
    /\ UNCHANGED <<db, held, todo, plan, stale, OperatorOnly>>

ResetCommit(p) ==
    /\ pc[p] = "z_commit"
    /\ enr' = [id \in Ids |-> IF id \in held[p] THEN NoRow ELSE enr[id]]
    /\ proj' = [id \in Ids |-> IF id \in held[p] THEN NoRow ELSE proj[id]]
    /\ events' = {e \in events : e[1] \notin held[p]}
    /\ Touch({"enr", "proj"} \X held[p])
    /\ held' = [held EXCEPT ![p] = {}]
    /\ Goto(p, "replied")
    /\ UNCHANGED <<content, used, faults, todo, plan, OperatorOnly>>

----------------------------------------------------------------------------
(* Statements no code under api/ issues, at a prompt or in a test (external) *)

Ambient == <<pc, arg, txn, todo, plan, head, out>>

Withdraw(id) ==
    /\ enr[id] # NoRow /\ enr[id].status # "withdrawn"
    /\ \A q \in Procs : id \notin held[q]
    /\ enr' = [enr EXCEPT ![id].status = "withdrawn"]
    /\ Touch({<<"enr", id>>})
    /\ UNCHANGED <<events, proj, content, used, faults, Ambient>>

AddLesson(l) ==
    /\ l \in Lessons \ content
    /\ content' = content \cup {l}
    /\ UNCHANGED <<enr, events, proj, used, faults, stale, Ambient>>

LoseProjection(id) ==
    /\ "lose" \in FaultKinds /\ faults < MaxFaults
    /\ proj[id] # NoRow /\ ProjWriters(id) = {}
    /\ proj' = [proj EXCEPT ![id] = NoRow]
    /\ faults' = faults + 1
    /\ Touch({<<"proj", id>>})
    /\ UNCHANGED <<enr, events, content, used, Ambient>>

SkewProjection(id, n) ==
    /\ "skew" \in FaultKinds /\ faults < MaxFaults
    /\ proj[id] # NoRow /\ ProjWriters(id) = {}
    /\ n \in 0..proj[id].total
    /\ proj' = [proj EXCEPT ![id].done = n]
    /\ faults' = faults + 1
    /\ Touch({<<"proj", id>>})
    /\ UNCHANGED <<enr, events, content, used, Ambient>>

----------------------------------------------------------------------------
(* Waiting *)

(* The processes whose locks or uncommitted rows p's next statement waits for. *)
WaitsFor(p) ==
    CASE pc[p] = "e_insert" ->
            (Inserting(arg[p].member, arg[p].course) \ {p}) \cup
            UNION {RowWriters(id) : id \in Enrolled(arg[p].member, arg[p].course)}
      [] pc[p] = "e_project" -> ProjWriters(arg[p].id) \ {p}
      [] pc[p] = "e_fk" -> Excluders(p, arg[p].id)
      [] pc[p] = "c_lock" -> Lockers(p, arg[p].id)
      [] pc[p] = "c_insert" -> EventWriters(arg[p].id, arg[p].lesson) \ {p}
      [] pc[p] = "c_project" ->
            IF proj[arg[p].id] = NoRow THEN {} ELSE ProjWriters(arg[p].id) \ {p}
      [] pc[p] \in {"r_lock", "z_lock"} ->
            IF \E id \in todo[p] : Lockers(p, id) = {} THEN {}
            ELSE UNION {Lockers(p, id) : id \in todo[p]}
      [] pc[p] = "r_rebuild" ->
            IF \E id \in todo[p] : ProjWriters(id) = {} THEN {}
            ELSE UNION {ProjWriters(id) : id \in todo[p]}
      [] OTHER -> {}

(* A cycle of waiting processes through p, and PostgreSQL's way out of it. *)
WaitCycle(ps) == ps # {} /\ \A q \in ps : WaitsFor(q) \cap ps # {}

Deadlocked(p) ==
    /\ WaitsFor(p) # {}
    /\ \E ps \in SUBSET Procs :
          /\ p \in ps /\ WaitCycle(ps)
          /\ \A qs \in SUBSET ps : WaitCycle(qs) => qs = ps

DeadlockVictim(p) == Deadlocked(p) /\ GiveUp(p)

----------------------------------------------------------------------------
Init ==
    /\ enr = [id \in Ids |-> NoRow] /\ proj = [id \in Ids |-> NoRow]
    /\ events = {} /\ content = Original /\ used = {} /\ faults = 0
    /\ pc = [p \in Procs |-> "idle"]
    /\ arg = [p \in Requests |-> NoArg]
    /\ wr = [p \in Requests |-> NoWrites]
    /\ held = [p \in Procs |-> {}] /\ todo = [p \in Procs |-> {}]
    /\ shared = [p \in Requests |-> {}]
    /\ plan = [p \in Operators |-> NoPlan] /\ stale = [p \in Operators |-> {}]
    /\ head = [p \in Requests |-> NoRow]
    /\ out = [p \in Requests |-> NoReply]

Call(p) ==
    \/ /\ "enroll" \in Workload
       /\ \E m \in Members, c \in Courses : EnrollBegin(p, m, c)
    \/ /\ "complete" \in Workload
       /\ \E m \in Members, id \in Ids, l \in Lessons : CompleteBegin(p, m, id, l)
    \/ /\ "dashboard" \in Workload
       /\ \E m \in Members : DashboardBegin(p, m)

RequestStep(p) ==
    \/ EnrollInsert(p) \/ EnrollSelect(p) \/ EnrollProject(p)
    \/ EnrollForeignKey(p) \/ EnrollCommit(p)
    \/ CompleteLock(p) \/ CompletePlace(p) \/ CompleteOrder(p)
    \/ CompleteInsert(p) \/ CompleteProject(p) \/ CompleteStatus(p)
    \/ CompleteCommit(p)
    \/ \E id \in Ids : LoadRow(p, id)
    \/ LoadLessons(p)

Command(p) ==
    \/ "dry_run" \in Workload /\ ReconcileDryRun(p)
    \/ "repair" \in Workload /\ ReconcileBegin(p)
    \/ "reset" \in Workload /\ ResetBegin(p)

CommandStep(p) ==
    \/ \E id \in Ids : ReconcileLock(p, id) \/ ReconcileRebuild(p, id)
    \/ ReconcileConflict(p) \/ ReconcileReport(p) \/ ReconcileCommit(p)
    \/ \E id \in Ids : ResetLock(p, id)
    \/ ResetCascade(p) \/ ResetCommit(p)

ByHand ==
    \/ \E id \in Ids : Withdraw(id) \/ LoseProjection(id)
    \/ \E id \in Ids, n \in 0..Cardinality(Lessons) : SkewProjection(id, n)
    \/ \E l \in Lessons : AddLesson(l)

Next ==
    \/ \E p \in Requests : Call(p) \/ RequestStep(p)
    \/ \E p \in Operators : Command(p) \/ CommandStep(p)
    \/ \E p \in Procs : Return(p) \/ Abort(p) \/ DeadlockVictim(p)
    \/ ByHand

Spec == Init /\ [][Next]_vars

=============================================================================
