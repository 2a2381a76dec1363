------------------------ MODULE LearningStoreTheorems ------------------------
(***************************************************************************)
(* The last four layers of the inductive invariant, that the commits        *)
(* implement ProgressLog, and then what holds of LearningStore for every    *)
(* value of its constants: any number of members, courses, lessons,         *)
(* requests and operators.                                                  *)
(***************************************************************************)
EXTENDS LearningStoreRows

(* Layer 6: what is completed belongs to the course, and in its order *)

(* An id that has been used comes back with nobody: while its row is there, *)
(* it is the row it was, and its events have only grown.                    *)
LEMMA Persists ==
    ASSUME Control, Locking, Rows, Next, NEW id \in used, enr'[id] # NoRow
    PROVE  /\ id \in Ids /\ enr[id] # NoRow
           /\ enr'[id].course = enr[id].course /\ enr'[id].member = enr[id].member
           /\ \A l : <<id, l>> \in events => <<id, l>> \in events'
<1>0. TypeOK /\ id \in Ids
  BY DEF Control, TypeOK
<1>1. enr[id] # NoRow
  <2>1. ASSUME NEW p \in Requests, wr[p].enr, arg[p].id = id PROVE FALSE
    BY <2>1, FreshRow
  <2> QED BY <1>0, <2>1, RowsAppear
<1>2. ASSUME NEW l, <<id, l>> \in events PROVE <<id, l>> \in events'
  <2>1. ASSUME NEW p \in Requests, EnrollCommit(p) \/ CompleteCommit(p)
        PROVE  <<id, l>> \in events'
    BY <1>2, <2>1 DEF EnrollCommit, CompleteCommit
  <2>2. ASSUME NEW p \in Operators, ReconcileCommit(p) PROVE <<id, l>> \in events'
    BY <1>2, <2>2 DEF ReconcileCommit
  <2>3. ASSUME NEW p \in Operators, ResetCommit(p) PROVE <<id, l>> \in events'
    <3>1. id \notin held[p]
      BY <1>0, <2>3 DEF ResetCommit
    <3> QED BY <1>2, <2>3, <3>1 DEF ResetCommit
  <2>4. CASE UNCHANGED db
    BY <1>2, <2>4 DEF db
  <2>5. CASE ByHand
    BY <1>2, <2>5 DEF ByHand, Withdraw, AddLesson, LoseProjection, SkewProjection
  <2> QED BY <1>0, <2>1, <2>2, <2>3, <2>4, <2>5, TableSteps
<1> QED BY <1>0, <1>1, <1>2, RowsAppear

(* Only the commit of a CompleteLesson records an event. *)
LEMMA EventsAppear ==
    ASSUME Control, Next, NEW id, NEW l, <<id, l>> \in events', <<id, l>> \notin events
    PROVE  \E p \in Requests : CompleteCommit(p) /\ arg[p].id = id /\ arg[p].lesson = l
<1>0. TypeOK
  BY DEF Control
<1>1. ASSUME NEW p \in Requests, CompleteCommit(p) PROVE arg[p].id = id /\ arg[p].lesson = l
  BY <1>1 DEF CompleteCommit
<1>2. ASSUME NEW p \in Requests, EnrollCommit(p) PROVE FALSE
  BY <1>2 DEF EnrollCommit
<1>3. ASSUME NEW p \in Operators, ReconcileCommit(p) \/ ResetCommit(p) PROVE FALSE
  BY <1>3 DEF ReconcileCommit, ResetCommit
<1>4. CASE ByHand
  BY <1>4 DEF ByHand, Withdraw, AddLesson, LoseProjection, SkewProjection
<1>5. CASE UNCHANGED db
  BY <1>5 DEF db
<1> QED BY <1>0, <1>1, <1>2, <1>3, <1>4, <1>5, TableSteps

(* How a completion gets to where it holds its row's lock. *)
LEMMA LockedFrom ==
    ASSUME TypeOK, Next, NEW p \in Requests, pc'[p] \in LockedLabels
    PROVE  \/ UNCHANGED <<pc[p], arg[p], wr[p]>>
           \/ /\ CompleteLock(p) /\ pc'[p] = "c_place" /\ UNCHANGED <<db, wr>>
              /\ arg' = [arg EXCEPT ![p].course = enr[arg[p].id].course]
           \/ /\ CompletePlace(p) /\ UNCHANGED <<db, arg, wr>>
              /\ arg[p].lesson \in CourseLessons(arg[p].course)
              /\ pc'[p] = IF arg[p].course \in Sequential THEN "c_order" ELSE "c_insert"
           \/ /\ CompleteOrder(p) /\ pc'[p] = "c_insert" /\ UNCHANGED <<db, arg, wr>>
              /\ \A k \in CourseLessons(arg[p].course) :
                    Earlier(k, arg[p].lesson) => <<arg[p].id, k>> \in events
           \/ /\ CompleteInsert(p) \/ CompleteProject(p)
              /\ pc[p] \in OrderedLabels /\ pc'[p] \in OrderedLabels \ {"c_commit"}
              /\ UNCHANGED <<db, arg>>
           \/ /\ CompleteStatus(p) /\ pc[p] = "c_status" /\ pc'[p] = "c_commit"
              /\ UNCHANGED <<db, arg>>
<1>0. /\ p \in Procs /\ pc \in [Procs -> Labels]
  BY DEF TypeOK, Procs
<1>r. ASSUME NEW kind, Refuse(p, kind) PROVE FALSE
  BY <1>0, <1>r DEF Refuse, Goto, LockedLabels
<1>1. ASSUME Call(p) PROVE FALSE
  <2>1. \/ \E kind : Refuse(p, kind)
        \/ pc'[p] \in {"e_insert", "c_lock", "replied", "load_row"}
    BY <1>0, <1>1, AdvanceLocks DEF Call, EnrollBegin, CompleteBegin, DashboardBegin, Goto
  <2> QED BY <1>r, <2>1 DEF LockedLabels
<1>2. ASSUME EnrollInsert(p) \/ EnrollSelect(p) \/ EnrollProject(p) \/ EnrollForeignKey(p)
      PROVE  FALSE
  BY <1>0, <1>2, <1>r, AdvanceLocks
     DEF EnrollInsert, EnrollSelect, EnrollProject, EnrollForeignKey, LockedLabels
<1>3. ASSUME EnrollCommit(p) \/ CompleteCommit(p) \/ LoadLessons(p) \/ \E id \in Ids : LoadRow(p, id)
      PROVE  FALSE
  BY <1>0, <1>3, <1>r DEF EnrollCommit, CompleteCommit, LoadLessons, LoadRow, Goto, LockedLabels
<1>4. ASSUME Return(p) \/ GiveUp(p) PROVE FALSE
  BY <1>0, <1>4 DEF Return, GiveUp, Finish, Goto, LockedLabels
<1>5. CASE CompleteLock(p)
  BY <1>0, <1>5, <1>r, AdvanceLocks DEF CompleteLock, Advance, db
<1>6. CASE CompletePlace(p)
  BY <1>0, <1>6, <1>r, AdvanceLocks DEF CompletePlace, Advance, db, txn
<1>7. CASE CompleteOrder(p)
  BY <1>0, <1>7, <1>r, AdvanceLocks DEF CompleteOrder, Advance, db, txn
<1>8. CASE CompleteInsert(p) \/ CompleteProject(p)
  BY <1>0, <1>8, AdvanceLocks DEF CompleteInsert, CompleteProject, Advance, db, OrderedLabels
<1>9. CASE CompleteStatus(p)
  BY <1>0, <1>9, AdvanceLocks DEF CompleteStatus, Advance, db
<1> QED BY <1>1, <1>2, <1>3, <1>4, <1>5, <1>6, <1>7, <1>8, <1>9, RequestMoves DEF RequestStep

LEMMA EventsPlacedStep ==
    ASSUME Control, Locking, Rows, Rows', Placing, Next
    PROVE  EventsPlaced' /\ PrefixClosed'
<1>0. TypeOK /\ content \subseteq content' /\ Original \subseteq Lessons
  BY Monotone, DataAssumption DEF Control
<1>1. ASSUME NEW id \in Ids, NEW l \in CompletedLessons(id)'
      PROVE  /\ l \in CourseLessons(enr[id].course) /\ id \in used /\ enr'[id] # NoRow
             /\ CourseOf[l] \in Sequential =>
                   \A k \in Original : Earlier(k, l) => <<id, k>> \in events
  <2>1. enr'[id] # NoRow
    BY <1>1 DEF Rows, NoOrphans
  <2>2. CASE <<id, l>> \in events
    <3>1. l \in CompletedLessons(id)
      BY <1>1, <2>2 DEF CompletedLessons
    <3>2. enr[id] # NoRow
      BY <3>1 DEF Rows, NoOrphans
    <3>3. CourseOf[l] \in Sequential => \A k \in Original : Earlier(k, l) => k \in CompletedLessons(id)
      BY <3>1 DEF Placing, PrefixClosed
    <3> QED BY <2>1, <3>1, <3>2, <3>3 DEF Placing, EventsPlaced, CompletedLessons, Control
  <2>3. CASE <<id, l>> \notin events
    <3>1. PICK p \in Requests : CompleteCommit(p) /\ arg[p].id = id /\ arg[p].lesson = l
      BY <1>1, <2>3, EventsAppear DEF CompletedLessons
    <3>2. pc[p] \in LockedLabels /\ pc[p] \in OrderedLabels /\ CompletePlaced(p) /\ RequestControl(p)
      BY <3>1 DEF CompleteCommit, LockedLabels, OrderedLabels, Placing, Control
    <3>3. l \in content /\ id \in used
      BY <3>1, <3>2 DEF RequestControl
    <3>4. CourseOf[l] = arg[p].course /\ arg[p].course = enr[id].course
      BY <3>1, <3>2 DEF CompletePlaced
    <3>5. CourseOf[l] \in Sequential => \A k \in Original : Earlier(k, l) => <<id, k>> \in events
      BY <3>1, <3>2, <3>4 DEF CompletePlaced
    <3> QED BY <2>1, <3>3, <3>4, <3>5 DEF CourseLessons
  <2> QED BY <2>2, <2>3
<1>2. EventsPlaced'
  <2> SUFFICES ASSUME NEW id \in Ids, NEW l \in CompletedLessons(id)'
               PROVE  l \in content' /\ CourseOf[l] = enr'[id].course
    BY DEF EventsPlaced, CourseLessons, CompletedLessons
  <2>1. l \in CourseLessons(enr[id].course) /\ id \in used /\ enr'[id] # NoRow
    BY <1>1
  <2>2. enr'[id].course = enr[id].course
    BY <2>1, Persists
  <2> QED BY <1>0, <2>1, <2>2 DEF CourseLessons
<1>3. PrefixClosed'
  <2> SUFFICES ASSUME NEW id \in Ids, NEW l \in CompletedLessons(id)', CourseOf[l] \in Sequential,
                      NEW k \in Original, Earlier(k, l)
               PROVE  k \in CompletedLessons(id)'
    BY DEF PrefixClosed, Earlier
  <2>1. <<id, k>> \in events /\ id \in used /\ enr'[id] # NoRow
    BY <1>1
  <2>2. <<id, k>> \in events'
    BY <2>1, Persists
  <2> QED BY <1>0, <2>2 DEF CompletedLessons
<1> QED BY <1>2, <1>3

LEMMA CompletePlacedStep ==
    ASSUME Control, Control', Locking, Locking', Rows, Rows', Placing, Next, NEW p \in Requests
    PROVE  CompletePlaced(p)'
<1>0. /\ TypeOK /\ p \in Procs /\ CompletePlaced(p) /\ PendingWrites(p)' /\ RequestControl(p)
      /\ arg \in [Requests -> Arg] /\ arg[p] \in Arg /\ wr \in [Requests -> Writes] /\ wr[p] \in Writes
      /\ Original \subseteq content
  BY DEF Control, Rows, Placing, TypeOK, Procs
<1>s. NoRow # "withdrawn"
  BY NoRowAssumption DEF Statuses
<1>1. CASE pc'[p] \notin LockedLabels
  <2>1. wr'[p].status = NoRow
    BY <1>0, <1>1 DEF PendingWrites, LockedLabels
  <2> QED BY <1>1, <1>s, <2>1 DEF CompletePlaced, LockedLabels, OrderedLabels
<1>2. CASE pc'[p] \in LockedLabels /\ UNCHANGED <<pc[p], arg[p], wr[p]>>
  <2>1. held[p] = {arg[p].id} /\ held'[p] = {arg[p].id}
    BY <1>2 DEF Locking, RequestLocks
  <2>2. arg[p].id \in Ids
    BY <1>0, <2>1 DEF TypeOK
  <2>3. enr'[arg[p].id] = enr[arg[p].id]
    BY <1>0, <2>1, <2>2, LockedRowStays
  <2>4. \A k : <<arg[p].id, k>> \in events' <=> <<arg[p].id, k>> \in events
    BY <1>2, EventsStep
  <2>5. /\ arg[p].course = enr[arg[p].id].course
        /\ pc[p] \in {"c_order"} \cup OrderedLabels => CourseOf[arg[p].lesson] = arg[p].course
        /\ pc[p] \in OrderedLabels /\ arg[p].course \in Sequential =>
              \A k \in Original : Earlier(k, arg[p].lesson) => <<arg[p].id, k>> \in events
        /\ wr[p].status # "withdrawn"
    BY <1>0, <1>2 DEF CompletePlaced
  <2> QED BY <1>2, <2>3, <2>4, <2>5 DEF CompletePlaced, Earlier
<1>3. CASE /\ CompleteLock(p) /\ pc'[p] = "c_place" /\ UNCHANGED <<db, wr>>
           /\ arg' = [arg EXCEPT ![p].course = enr[arg[p].id].course]
  <2>1. arg'[p].course = enr[arg[p].id].course /\ arg'[p].id = arg[p].id
    BY <1>0, <1>3 DEF Arg
  <2> QED BY <1>0, <1>3, <2>1 DEF CompletePlaced, OrderedLabels, db
<1>4. CASE /\ CompletePlace(p) /\ UNCHANGED <<db, arg, wr>>
           /\ arg[p].lesson \in CourseLessons(arg[p].course)
           /\ pc'[p] = IF arg[p].course \in Sequential THEN "c_order" ELSE "c_insert"
  <2>1. arg[p].course = enr[arg[p].id].course /\ CourseOf[arg[p].lesson] = arg[p].course
    BY <1>0, <1>4 DEF CompletePlace, CompletePlaced, CourseLessons, LockedLabels
  <2> QED BY <1>0, <1>4, <2>1 DEF CompletePlaced, OrderedLabels, db
<1>5. CASE /\ CompleteOrder(p) /\ pc'[p] = "c_insert" /\ UNCHANGED <<db, arg, wr>>
           /\ \A k \in CourseLessons(arg[p].course) :
                 Earlier(k, arg[p].lesson) => <<arg[p].id, k>> \in events
  <2>1. arg[p].course = enr[arg[p].id].course /\ CourseOf[arg[p].lesson] = arg[p].course
    BY <1>0, <1>5 DEF CompleteOrder, CompletePlaced, LockedLabels
  <2>2. \A k \in Original : Earlier(k, arg[p].lesson) => <<arg[p].id, k>> \in events
    BY <1>0, <1>5, <2>1 DEF CourseLessons, Earlier
  <2> QED BY <1>0, <1>5, <2>1, <2>2 DEF CompletePlaced, OrderedLabels, Earlier, db
<1>6. CASE /\ pc[p] \in OrderedLabels /\ pc'[p] \in OrderedLabels /\ UNCHANGED <<db, arg>>
           /\ wr'[p].status # "withdrawn"
  <2>1. pc[p] \in LockedLabels
    BY <1>6 DEF OrderedLabels, LockedLabels
  <2> QED BY <1>0, <1>6, <2>1 DEF CompletePlaced, Earlier, db
<1>7. ASSUME CompleteInsert(p) \/ CompleteProject(p) PROVE wr'[p].status # "withdrawn"
  <2>1. wr'[p].status = wr[p].status
    BY <1>0, <1>7 DEF CompleteInsert, CompleteProject, Writes
  <2> QED BY <1>0, <2>1 DEF CompletePlaced
<1>8. ASSUME CompleteStatus(p) PROVE wr'[p].status # "withdrawn"
  <2>1. wr'[p].status \in {wr[p].status, DerivedStatus(wr[p].proj)}
    BY <1>0, <1>8 DEF CompleteStatus, Writes
  <2> QED BY <1>0, <2>1 DEF CompletePlaced, DerivedStatus
<1> QED BY <1>0, <1>1, <1>2, <1>3, <1>4, <1>5, <1>6, <1>7, <1>8, LockedFrom DEF OrderedLabels

(* A reset visits only what it found when it began. *)
LEMMA ResetFrom ==
    ASSUME Control, Locking, Next, NEW q \in Operators, pc'[q] \in {"z_lock", "z_commit"}
    PROVE  \/ /\ pc[q] \in {"z_lock", "z_commit"}
              /\ held'[q] \cup todo'[q] \subseteq held[q] \cup todo[q]
           \/ ResetBegin(q) /\ held'[q] = {}
<1>0. /\ TypeOK /\ q \in Procs /\ pc \in [Procs -> Labels] /\ OperatorLocks(q)
      /\ held \in [Procs -> SUBSET Ids] /\ todo \in [Procs -> SUBSET Ids]
  BY DEF Control, Locking, TypeOK, Procs
<1>1. ASSUME NEW p \in Procs, Frame(p), p # q
      PROVE  pc'[q] = pc[q] /\ held'[q] = held[q] /\ todo'[q] = todo[q]
  BY <1>0, <1>1 DEF Frame
<1>2. ASSUME NEW p \in Procs, Finish(p) PROVE p # q
  BY <1>0, <1>2 DEF Finish, Goto
<1>3. CASE ResetBegin(q)
  BY <1>0, <1>3 DEF ResetBegin, OperatorLocks
<1>4. ASSUME NEW id \in Ids, ResetLock(q, id)
      PROVE  pc[q] = "z_lock" /\ held'[q] \cup todo'[q] \subseteq held[q] \cup todo[q]
  BY <1>0, <1>4 DEF ResetLock
<1>5. CASE ResetCascade(q)
  BY <1>5 DEF ResetCascade
<1>6. ASSUME ReconcileDryRun(q) \/ ReconcileBegin(q) \/ ReconcileReport(q) \/ ReconcileCommit(q)
             \/ ResetCommit(q)
      PROVE  FALSE
  BY <1>0, <1>6 DEF ReconcileDryRun, ReconcileBegin, ReconcileReport, ReconcileCommit, ResetCommit, Goto
<1>7. ASSUME NEW id \in Ids, ReconcileLock(q, id) \/ ReconcileRebuild(q, id) PROVE FALSE
  BY <1>0, <1>7 DEF ReconcileLock, ReconcileRebuild
<1>8. ASSUME ReconcileConflict(q) PROVE FALSE
  BY <1>0, <1>2, <1>8 DEF ReconcileConflict, GiveUp
<1>9. CASE ByHand
  BY <1>9 DEF ByHand, Withdraw, AddLesson, LoseProjection, SkewProjection, Ambient, txn
<1>10. ASSUME NEW p \in Requests, Call(p) \/ RequestStep(p) PROVE Frame(p) /\ p # q /\ p \in Procs
  BY <1>0, <1>10, RequestFrame, BoundAssumption DEF Procs
<1>11. ASSUME NEW p \in Operators \ {q}, Command(p) \/ CommandStep(p) PROVE Frame(p) /\ p \in Procs
  BY <1>0, <1>11, CommandFrame DEF Procs
<1>12. ASSUME NEW p \in Procs, Return(p) \/ GiveUp(p) PROVE Frame(p) /\ p # q
  BY <1>0, <1>2, <1>12, FinishFrame DEF Return, GiveUp
<1>13. CASE Command(q) \/ CommandStep(q)
  BY <1>3, <1>4, <1>5, <1>6, <1>7, <1>8, <1>13 DEF Command, CommandStep
<1>14. ASSUME NEW p \in Procs, Frame(p), p # q
       PROVE  /\ pc[q] \in {"z_lock", "z_commit"}
              /\ held'[q] \cup todo'[q] \subseteq held[q] \cup todo[q]
  BY <1>1, <1>14
<1> QED BY <1>9, <1>10, <1>11, <1>12, <1>13, <1>14, Movers

LEMMA ResetPlacedStep ==
    ASSUME Control, Locking, Rows, Placing, Next, NEW q \in Operators
    PROVE  ResetPlaced(q)'
<1> SUFFICES ASSUME pc'[q] \in {"z_lock", "z_commit"}, NEW id \in held'[q] \cup todo'[q],
                    enr'[id] # NoRow
             PROVE  enr'[id].member \in DemoMembers
  BY DEF ResetPlaced
<1>1. CASE /\ pc[q] \in {"z_lock", "z_commit"}
           /\ held'[q] \cup todo'[q] \subseteq held[q] \cup todo[q]
  <2>1. id \in held[q] \cup todo[q] /\ q \in Procs
    BY <1>1 DEF Procs
  <2>2. id \in used
    BY <2>1 DEF Control, TypeOK, OperatorControl, Locking, LockedRowsExist
  <2>3. enr[id] # NoRow /\ enr'[id].member = enr[id].member
    BY <2>2, Persists
  <2> QED BY <1>1, <2>1, <2>3 DEF Placing, ResetPlaced
<1>2. CASE ResetBegin(q) /\ held'[q] = {}
  <2>1. /\ todo'[q] = {i \in Ids : enr[i] # NoRow /\ enr[i].member \in DemoMembers}
        /\ enr' = enr
    BY <1>2 DEF ResetBegin, Control, TypeOK, Procs, db
  <2> QED BY <1>2, <2>1
<1> QED BY <1>1, <1>2, ResetFrom

LEMMA PlacingStep ==
    ASSUME Control, Control', Locking, Locking', Rows, Rows', Placing, Next
    PROVE  Placing'
<1>1. Original \subseteq content'
  BY Monotone DEF Placing
<1> QED BY <1>1, EventsPlacedStep, CompletePlacedStep, ResetPlacedStep DEF Placing

LEMMA PlacingInit ==
    ASSUME Init
    PROVE  Placing
<1>1. ASSUME NEW p \in Requests PROVE CompletePlaced(p)
  <2>1. pc[p] = "idle" /\ wr[p].status = NoRow
    BY DEF Init, NoWrites, Procs
  <2> QED BY <2>1, NoRowAssumption DEF CompletePlaced, LockedLabels, OrderedLabels, Statuses
<1>2. ASSUME NEW p \in Operators PROVE ResetPlaced(p)
  BY DEF Init, ResetPlaced, Procs
<1> QED BY <1>1, <1>2 DEF Init, Placing, EventsPlaced, PrefixClosed, CompletedLessons

LEMMA PlacingStutter ==
    ASSUME Placing, UNCHANGED vars
    PROVE  Placing'
<1> USE DEF vars, db, txn
<1>1. ASSUME NEW p \in Requests PROVE CompletePlaced(p)'
  <2>1. CompletePlaced(p)
    BY DEF Placing
  <2> QED BY <2>1 DEF CompletePlaced, Earlier
<1>2. ASSUME NEW p \in Operators PROVE ResetPlaced(p)'
  BY DEF Placing, ResetPlaced
<1> QED BY <1>1, <1>2 DEF Placing, EventsPlaced, PrefixClosed, CompletedLessons, CourseLessons, Earlier

----------------------------------------------------------------------------
(* The refinement: every commit is one step of the log, or none *)

LogTable == [id \in Ids |-> LogRow(id)]
LogMoves == Log!LogNext \/ UNCHANGED <<LogTable, events, content, used>>

LEMMA LogRowSame ==
    ASSUME NEW id \in Ids, NEW s \in Statuses, enr[id] \in Enrollment,
           enr'[id] = [enr[id] EXCEPT !.status = s],
           (s = "withdrawn") <=> (enr[id].status = "withdrawn")
    PROVE  LogRow(id)' = LogRow(id)
<1>1. enr'[id] # NoRow /\ enr[id] # NoRow
  BY NoRowAssumption DEF Enrollment
<1>2. enr'[id].member = enr[id].member /\ enr'[id].course = enr[id].course /\ enr'[id].status = s
  BY DEF Enrollment
<1>3. (enr'[id].status = "withdrawn") = (enr[id].status = "withdrawn")
  BY <1>2
<1> QED BY <1>1, <1>2, <1>3 DEF LogRow

LEMMA LogRowKind ==
    ASSUME TypeOK, NEW id \in Ids
    PROVE  /\ LogRow(id) = NoRow <=> enr[id] = NoRow
           /\ enr[id] # NoRow =>
                 /\ LogRow(id).member = enr[id].member
                 /\ LogRow(id).course = enr[id].course
                 /\ LogRow(id).withdrawn <=> enr[id].status = "withdrawn"
<1>1. ASSUME enr[id] # NoRow PROVE LogRow(id) # NoRow
  <2>1. enr[id] \in Enrollment
    BY <1>1 DEF TypeOK, OptRow
  <2>2. LogRow(id) \in [member : Members, course : Courses, withdrawn : BOOLEAN]
    BY <1>1, <2>1 DEF LogRow, Enrollment
  <2> QED BY <2>2, LogRowAssumption
<1> QED BY <1>1 DEF LogRow

(* The commit of an Enroll that created its row is the log's enrollment. *)
LEMMA LogEnrolls ==
    ASSUME Control, Locking, Rows, NEW p \in Requests, EnrollCommit(p)
    PROVE  LogMoves
<1>0. /\ TypeOK /\ enr \in [Ids -> OptRow(Enrollment)] /\ RequestControl(p)
      /\ pc[p] = "e_commit" /\ events' = events /\ content' = content
  BY DEF Control, TypeOK, EnrollCommit
<1>1. CASE ~ wr[p].enr
  <2>1. enr' = enr /\ used' = used
    BY <1>1 DEF EnrollCommit
  <2> QED BY <1>0, <2>1 DEF LogMoves, LogTable, LogRow
<1>2. CASE wr[p].enr
  <2>0. PICK id, m, c : id = arg[p].id /\ m = arg[p].member /\ c = arg[p].course
    OBVIOUS
  <2>1. id \in Ids /\ id \notin used /\ m \in Members /\ c \in Published /\ c \in Courses
    BY <1>0, <1>2, <2>0, FreshRow, DataAssumption DEF RequestControl, EnrollLabels
  <2>2. Enrolled(m, c) = {}
    <3>1. p \in Inserting(m, c)
      BY <1>2, <2>0 DEF Inserting
    <3> QED BY <2>1, <3>1 DEF Rows, OneEnrollment
  <2>3. \A i \in Ids : LogRow(i) # NoRow => ~ (LogRow(i).member = m /\ LogRow(i).course = c)
    BY <1>0, <2>2, LogRowKind DEF Enrolled
  <2>4. /\ enr' = [enr EXCEPT ![id] = [member |-> m, course |-> c, status |-> "active"]]
        /\ used' = used \cup {id}
    BY <1>2, <2>0 DEF EnrollCommit
  <2>5. LogRow(id)' = [member |-> m, course |-> c, withdrawn |-> FALSE]
    <3>1. enr'[id] = [member |-> m, course |-> c, status |-> "active"]
      BY <1>0, <2>1, <2>4
    <3>2. enr'[id] \in Enrollment
      BY <2>1, <3>1 DEF Enrollment, Statuses
    <3>3. enr'[id] # NoRow
      BY <3>2, NoRowAssumption
    <3>4. (enr'[id].status = "withdrawn") = FALSE
      BY <3>1
    <3>5. LogRow(id)' = [member |-> enr'[id].member, course |-> enr'[id].course,
                         withdrawn |-> enr'[id].status = "withdrawn"]
      BY <3>3, Zenon DEF LogRow
    <3>6. enr'[id].member = m /\ enr'[id].course = c
      BY <3>1
    <3> QED BY <3>4, <3>5, <3>6, Zenon
  <2>6. \A i \in Ids \ {id} : LogRow(i)' = LogRow(i)
    BY <1>0, <2>4 DEF LogRow
  <2>7. LogTable' = [LogTable EXCEPT ![id] = [member |-> m, course |-> c, withdrawn |-> FALSE]]
    BY <2>1, <2>5, <2>6 DEF LogTable
  <2>8. Log!LogEnroll(id, m, c)
    BY <1>0, <2>1, <2>3, <2>4, <2>7 DEF Log!LogEnroll, LogTable
  <2> QED BY <2>1, <2>8 DEF LogMoves, Log!LogNext
<1> QED BY <1>1, <1>2

(* The commit of a CompleteLesson that recorded an event is the log's       *)
(* completion.                                                              *)
LEMMA LogCompletes ==
    ASSUME Control, Locking, Rows, Withdrawal, Placing, NEW p \in Requests, CompleteCommit(p)
    PROVE  LogMoves
<1> DEFINE id == arg[p].id
           l == arg[p].lesson
<1>0. /\ TypeOK /\ enr \in [Ids -> OptRow(Enrollment)] /\ RequestControl(p) /\ CompletePlaced(p)
      /\ pc[p] = "c_commit" /\ content' = content /\ used' = used /\ p \in Procs
      /\ events' = IF wr[p].evt THEN events \cup {<<id, l>>} ELSE events
      /\ enr' = IF wr[p].status # NoRow THEN [enr EXCEPT ![id].status = wr[p].status] ELSE enr
  BY DEF Control, TypeOK, CompleteCommit, Placing, Procs
<1>1. id \in Ids /\ l \in content /\ l \in Lessons
  BY <1>0 DEF RequestControl, LockedLabels, TypeOK
<1>2. enr[id] # NoRow /\ enr[id] \in Enrollment
  BY <1>0, <1>1 DEF Locking, RequestLocks, LockedRowsExist, LockedLabels, OptRow
<1>3. enr[id].status # "withdrawn" /\ wr[p].status # "withdrawn"
  BY <1>0 DEF Withdrawal, CompletesActive, LockedLabels, CompletePlaced
<1>4. wr[p].status # NoRow => wr[p].status \in Statuses
  BY <1>0 DEF TypeOK, Writes, OptRow
<1> HIDE DEF id, l
<1>5. LogTable' = LogTable
  <2>1. ASSUME NEW i \in Ids PROVE LogRow(i)' = LogRow(i)
    <3>1. CASE enr' = enr
      BY <3>1 DEF LogRow
    <3>2. CASE wr[p].status # NoRow /\ i = id
      <4>1. enr'[i] = [enr[i] EXCEPT !.status = wr[p].status]
        BY <1>0, <1>1, <3>2
      <4> QED BY <1>2, <1>3, <1>4, <3>2, <4>1, LogRowSame
    <3>3. CASE wr[p].status # NoRow /\ i # id
      BY <1>0, <3>3 DEF LogRow
    <3> QED BY <1>0, <3>1, <3>2, <3>3
  <2> QED BY <2>1 DEF LogTable
<1>6. CASE ~ wr[p].evt
  BY <1>0, <1>5, <1>6 DEF LogMoves
<1>7. CASE wr[p].evt
  <2>1. CourseOf[l] = enr[id].course
    BY <1>0 DEF CompletePlaced, LockedLabels, OrderedLabels, id, l
  <2>2. CourseOf[l] \in Sequential => \A k \in Original : Log!Precedes(k, l) => <<id, k>> \in events
    BY <1>0, <2>1 DEF CompletePlaced, LockedLabels, OrderedLabels, Log!Precedes, Earlier, id, l
  <2>3. LogTable[id] # NoRow /\ ~ LogTable[id].withdrawn /\ LogTable[id].course = enr[id].course
    BY <1>0, <1>1, <1>2, <1>3, LogRowKind DEF LogTable
  <2>4. Log!LogComplete(id, l)
    BY <1>0, <1>1, <1>5, <1>7, <2>1, <2>2, <2>3 DEF Log!LogComplete, LogTable
  <2> QED BY <1>1, <2>4 DEF LogMoves, Log!LogNext
<1> QED BY <1>6, <1>7

(* A repair changes nothing the log knows. *)
LEMMA LogRepairs ==
    ASSUME Control, Locking, Withdrawal, NEW p \in Operators, ReconcileCommit(p)
    PROVE  LogMoves
<1>0. /\ TypeOK /\ enr \in [Ids -> OptRow(Enrollment)] /\ UNCHANGED <<events, content, used>>
      /\ plan \in [Operators -> [Ids -> OptRow(Expectation)]]
  BY DEF Control, TypeOK, ReconcileCommit
<1>1. ASSUME NEW i \in Ids PROVE LogRow(i)' = LogRow(i)
  <2>1. enr'[i] = IF i \in Planned(p) THEN [enr[i] EXCEPT !.status = plan[p][i].status] ELSE enr[i]
    BY DEF ReconcileCommit
  <2>2. CASE i \in Planned(p)
    <3>1. enr[i] \in Enrollment /\ ((plan[p][i].status = "withdrawn") <=> (enr[i].status = "withdrawn"))
      BY <1>0, <2>2, RepairKeeps DEF OptRow
    <3>2. plan[p][i].status \in Statuses
      BY <1>0, <2>2 DEF Planned, OptRow, Expectation
    <3> QED BY <2>1, <2>2, <3>1, <3>2, LogRowSame
  <2>3. CASE i \notin Planned(p)
    BY <2>1, <2>3 DEF LogRow
  <2> QED BY <2>2, <2>3
<1> QED BY <1>0, <1>1 DEF LogMoves, LogTable

(* The commit of a reset is the log's reset of the rows it locked. *)
LEMMA LogResets ==
    ASSUME Control, Locking, Placing, NEW p \in Operators, ResetCommit(p)
    PROVE  LogMoves
<1>0. /\ TypeOK /\ p \in Procs /\ pc[p] = "z_commit" /\ UNCHANGED <<content, used>>
      /\ enr' = [id \in Ids |-> IF id \in held[p] THEN NoRow ELSE enr[id]]
      /\ events' = {e \in events : e[1] \notin held[p]}
  BY DEF Control, ResetCommit, Procs
<1>1. held[p] \subseteq Ids
  BY <1>0 DEF TypeOK
<1>2. \A id \in held[p] : enr[id] # NoRow /\ enr[id].member \in DemoMembers
  BY <1>0 DEF Locking, LockedRowsExist, Placing, ResetPlaced
<1>3. \A id \in held[p] : LogTable[id] # NoRow /\ LogTable[id].member \in DemoMembers
  BY <1>0, <1>1, <1>2, LogRowKind DEF LogTable
<1>4. LogTable' = [id \in Ids |-> IF id \in held[p] THEN NoRow ELSE LogTable[id]]
  BY <1>0 DEF LogTable, LogRow
<1>5. Log!LogReset(held[p])
  BY <1>0, <1>3, <1>4 DEF Log!LogReset, LogTable
<1> QED BY <1>1, <1>5 DEF LogMoves, Log!LogNext

LEMMA LogByHand ==
    ASSUME Control, ByHand
    PROVE  LogMoves
<1>0. TypeOK /\ enr \in [Ids -> OptRow(Enrollment)]
  BY DEF Control, TypeOK
<1>1. ASSUME NEW id \in Ids, Withdraw(id) PROVE LogMoves
  <2>1. /\ enr[id] \in Enrollment /\ enr[id] # NoRow /\ UNCHANGED <<events, content, used>>
        /\ enr' = [enr EXCEPT ![id].status = "withdrawn"]
    BY <1>0, <1>1 DEF Withdraw, OptRow
  <2>2. enr'[id] = [enr[id] EXCEPT !.status = "withdrawn"]
    BY <1>0, <2>1
  <2>3. enr'[id] # NoRow
    BY <2>1, <2>2, NoRowAssumption DEF Enrollment, Statuses
  <2>4. LogRow(id)' = [LogRow(id) EXCEPT !.withdrawn = TRUE]
    <3>1. /\ enr'[id].member = enr[id].member /\ enr'[id].course = enr[id].course
          /\ enr'[id].status = "withdrawn"
      BY <2>1, <2>2 DEF Enrollment
    <3>2. LogRow(id)' = [member |-> enr[id].member, course |-> enr[id].course, withdrawn |-> TRUE]
      BY <2>3, <3>1 DEF LogRow
    <3>3. PICK b : LogRow(id) = [member |-> enr[id].member, course |-> enr[id].course,
                                 withdrawn |-> b]
      BY <2>1 DEF LogRow
    <3>4. PICK d : d = TRUE
      OBVIOUS
    <3>5. [LogRow(id) EXCEPT !.withdrawn = d] =
             [member |-> enr[id].member, course |-> enr[id].course, withdrawn |-> d]
      BY <3>3
    <3> QED BY <3>2, <3>4, <3>5, Zenon
  <2>5. \A i \in Ids \ {id} : LogRow(i)' = LogRow(i)
    BY <1>0, <2>1 DEF LogRow
  <2>6. LogTable' = [LogTable EXCEPT ![id].withdrawn = TRUE]
    BY <2>4, <2>5 DEF LogTable
  <2>7. LogTable[id] # NoRow
    BY <1>0, <2>1, LogRowKind DEF LogTable
  <2>8. Log!LogWithdraw(id)
    BY <2>1, <2>6, <2>7 DEF Log!LogWithdraw, LogTable
  <2> QED BY <2>8 DEF LogMoves, Log!LogNext
<1>2. ASSUME NEW l \in Lessons, AddLesson(l) PROVE LogMoves
  <2>1. UNCHANGED <<enr, events, used>> /\ content' = content \cup {l}
    BY <1>2 DEF AddLesson
  <2>2. Log!LogAddLesson(l)
    BY <2>1 DEF Log!LogAddLesson, LogRow
  <2> QED BY <2>2 DEF LogMoves, Log!LogNext
<1>3. ASSUME UNCHANGED <<enr, events, content, used>> PROVE LogMoves
  BY <1>3 DEF LogMoves, LogTable, LogRow
<1> QED BY <1>1, <1>2, <1>3 DEF ByHand, LoseProjection, SkewProjection

LEMMA LogStep ==
    ASSUME Control, Locking, Rows, Withdrawal, Placing, [Next]_vars
    PROVE  [Log!LogNext]_<<LogTable, events, content, used>>
<1>1. ASSUME UNCHANGED db PROVE LogMoves
  BY <1>1 DEF db, LogMoves, LogTable, LogRow
<1>2. ASSUME Next PROVE LogMoves
  BY <1>1, <1>2, LogEnrolls, LogCompletes, LogRepairs, LogResets, LogByHand, TableSteps
     DEF Control
<1> QED BY <1>1, <1>2 DEF LogMoves, vars, db

LEMMA LogStart ==
    ASSUME Init
    PROVE  Log!LogInit
BY DEF Init, Log!LogInit, LogRow

----------------------------------------------------------------------------
(* Layer 7: totals *)

(* How the projection of an enrollment changes in one step. *)
LEMMA ProjectionChange ==
    ASSUME Control, Next, NEW id \in Ids, proj'[id] # proj[id], proj'[id] # NoRow
    PROVE  \/ \E p \in Requests : /\ EnrollCommit(p) \/ CompleteCommit(p)
                                 /\ arg[p].id = id /\ wr[p].proj # NoRow
                                 /\ proj'[id] = wr[p].proj
           \/ \E p \in Operators : /\ ReconcileCommit(p) /\ id \in Planned(p)
                                  /\ proj'[id] = [done |-> plan[p][id].done,
                                                  total |-> plan[p][id].total]
           \/ \E n \in Nat : /\ SkewProjection(id, n) /\ proj[id] \in Projection
                            /\ n <= proj[id].total
                            /\ proj'[id] = [proj[id] EXCEPT !.done = n]
<1>0. TypeOK /\ proj \in [Ids -> OptRow(Projection)]
  BY DEF Control, TypeOK
<1>1. ASSUME NEW p \in Requests, EnrollCommit(p)
      PROVE  arg[p].id = id /\ wr[p].proj # NoRow /\ proj'[id] = wr[p].proj
  BY <1>0, <1>1 DEF EnrollCommit
<1>2. ASSUME NEW p \in Requests, CompleteCommit(p)
      PROVE  arg[p].id = id /\ wr[p].proj # NoRow /\ proj'[id] = wr[p].proj
  BY <1>0, <1>2 DEF CompleteCommit
<1>3. ASSUME NEW p \in Operators, ReconcileCommit(p)
      PROVE  /\ id \in Planned(p)
             /\ proj'[id] = [done |-> plan[p][id].done, total |-> plan[p][id].total]
  BY <1>3 DEF ReconcileCommit
<1>4. ASSUME NEW p \in Operators, ResetCommit(p) PROVE FALSE
  BY <1>4 DEF ResetCommit
<1>5. ASSUME NEW i \in Ids, NEW n, SkewProjection(i, n)
      PROVE  /\ i = id /\ n \in Nat /\ n <= proj[id].total /\ proj[id] \in Projection
             /\ proj'[id] = [proj[id] EXCEPT !.done = n]
  <2>1. proj' = [proj EXCEPT ![i].done = n] /\ proj[i] # NoRow /\ n \in 0..proj[i].total
    BY <1>5 DEF SkewProjection
  <2>2. i = id
    BY <1>0, <2>1
  <2>3. proj[id] \in Projection
    BY <1>0, <2>1, <2>2 DEF OptRow
  <2>4. proj[id].total \in Nat
    BY <2>3 DEF Projection
  <2> QED BY <1>0, <2>1, <2>2, <2>3, <2>4
<1>6. CASE ByHand
  <2>1. ASSUME NEW i \in Ids, LoseProjection(i) PROVE FALSE
    BY <1>0, <2>1 DEF LoseProjection
  <2> QED BY <1>5, <1>6, <2>1 DEF ByHand, Withdraw, AddLesson
<1> QED BY <1>0, <1>1, <1>2, <1>3, <1>4, <1>6, TableSteps DEF db

(* The only statements that write a projection row, and what they write. *)
LEMMA WriteChange ==
    ASSUME Control, Rows, Next, NEW p \in Requests, wr'[p].proj # NoRow
    PROVE  \/ /\ wr'[p].proj = wr[p].proj /\ arg'[p].id = arg[p].id
              /\ arg'[p].course = arg[p].course /\ wr'[p].enr = wr[p].enr
           \/ /\ EnrollProject(p) /\ UNCHANGED <<db, arg>> /\ wr'[p].enr = wr[p].enr
              /\ wr'[p].proj = [done |-> 0, total |-> arg[p].total] /\ proj[arg[p].id] = NoRow
           \/ /\ CompleteProject(p) /\ UNCHANGED <<db, arg>>
              /\ wr'[p].proj = [done |-> Cardinality(SeenLessons(p)),
                                total |-> Cardinality(CourseLessons(enr[arg[p].id].course))]
<1>0. /\ TypeOK /\ p \in Procs /\ PendingWrites(p) /\ PendingEnroll(p)
      /\ arg \in [Requests -> Arg] /\ arg[p] \in Arg
      /\ wr \in [Requests -> Writes] /\ wr[p] \in Writes
  BY DEF Control, Rows, TypeOK, Procs
<1>n. ASSUME wr'[p] = NoWrites PROVE FALSE
  BY <1>n DEF NoWrites
<1>r. ASSUME NEW kind, Refuse(p, kind) PROVE FALSE
  BY <1>n, <1>r DEF Refuse, Release
<1>1. CASE UNCHANGED <<pc[p], arg[p], wr[p]>>
  BY <1>1
<1>2. ASSUME Call(p) PROVE FALSE
  BY <1>0, <1>2, <1>n, <1>r, NothingPending DEF Call, EnrollBegin, CompleteBegin, DashboardBegin, txn
<1>3. ASSUME EnrollInsert(p) PROVE FALSE
  <2>1. wr[p] = NoWrites
    BY <1>0, <1>3, NothingPending DEF EnrollInsert
  <2>2. wr'[p].proj = NoRow
    BY <1>0, <1>3, <2>1 DEF EnrollInsert, NoWrites
  <2> QED BY <2>2
<1>4. ASSUME EnrollSelect(p) PROVE FALSE
  <2>1. pc[p] = "e_select" /\ wr' = wr
    BY <1>4, <1>r DEF EnrollSelect, txn
  <2> QED BY <1>0, <2>1 DEF PendingWrites
<1>5. CASE EnrollProject(p)
  <2>1. wr[p].proj = NoRow /\ UNCHANGED <<db, arg>>
    BY <1>0, <1>5 DEF EnrollProject, PendingWrites, Advance
  <2>2. /\ proj[arg[p].id] = NoRow
        /\ wr' = [wr EXCEPT ![p].proj = [done |-> 0, total |-> arg[p].total]]
    BY <1>5, <2>1 DEF EnrollProject
  <2>3. wr'[p].proj = [done |-> 0, total |-> arg[p].total] /\ wr'[p].enr = wr[p].enr
    BY <1>0, <2>2 DEF Writes
  <2> QED BY <1>5, <2>1, <2>2, <2>3
<1>6. CASE EnrollForeignKey(p)
  BY <1>6, <1>r DEF EnrollForeignKey
<1>7. ASSUME EnrollCommit(p) \/ CompleteCommit(p) \/ GiveUp(p) PROVE FALSE
  BY <1>7, <1>n DEF EnrollCommit, CompleteCommit, GiveUp, Release
<1>8. ASSUME Return(p) PROVE FALSE
  BY <1>0, <1>8, <1>n, NothingPending DEF Return, txn
<1>9. ASSUME CompleteLock(p) \/ CompletePlace(p) \/ CompleteOrder(p) PROVE FALSE
  <2>1. pc[p] \in {"c_lock", "c_place", "c_order"} /\ wr' = wr
    BY <1>9, <1>r DEF CompleteLock, CompletePlace, CompleteOrder, txn
  <2> QED BY <1>0, <1>n, <2>1, NothingPending
<1>10. ASSUME CompleteInsert(p) PROVE FALSE
  <2>1. wr[p] = NoWrites
    BY <1>0, <1>10, NothingPending DEF CompleteInsert
  <2>2. wr'[p].proj = NoRow
    BY <1>0, <1>10, <2>1 DEF CompleteInsert, NoWrites
  <2> QED BY <2>2
<1>11. CASE CompleteProject(p)
  <2>1. wr[p].proj = NoRow /\ UNCHANGED <<db, arg>>
    BY <1>0, <1>11 DEF CompleteProject, PendingWrites, Advance
  <2> DEFINE row == [done |-> Cardinality(SeenLessons(p)),
                     total |-> Cardinality(CourseLessons(enr[arg[p].id].course))]
  <2>2. wr' = [wr EXCEPT ![p].proj = row]
    BY <1>11, <2>1 DEF CompleteProject
  <2> HIDE DEF row
  <2>3. wr'[p].proj = row
    BY <1>0, <2>2 DEF Writes
  <2> QED BY <1>11, <2>1, <2>3 DEF row
<1>12. CASE CompleteStatus(p)
  <2>1. arg' = arg /\ (wr' = wr \/ wr' = [wr EXCEPT ![p].status = DerivedStatus(wr[p].proj)])
    BY <1>12 DEF CompleteStatus
  <2>2. wr'[p].proj = wr[p].proj /\ wr'[p].enr = wr[p].enr
    BY <1>0, <2>1 DEF Writes
  <2> QED BY <2>1, <2>2
<1>13. ASSUME LoadLessons(p) \/ \E id \in Ids : LoadRow(p, id) PROVE FALSE
  <2>1. pc[p] \in {"load_row", "load_lessons"} /\ wr' = wr
    BY <1>13, <1>r DEF LoadLessons, LoadRow, txn
  <2> QED BY <1>0, <1>n, <2>1, NothingPending
<1> QED BY <1>0, <1>1, <1>2, <1>3, <1>4, <1>5, <1>6, <1>7, <1>8, <1>9, <1>10, <1>11, <1>12, <1>13,
           RequestMoves DEF RequestStep

(* A plan is the report of the moment, or what it was. *)
LEMMA PlanChange ==
    ASSUME Control, Next, NEW q \in Operators
    PROVE  plan'[q] \in {plan[q], NoPlan} \/ (plan'[q] = ReportNow /\ UNCHANGED db)
<1>0. TypeOK /\ q \in Procs /\ plan \in [Operators -> [Ids -> OptRow(Expectation)]]
  BY DEF Control, TypeOK, Procs
<1>1. ASSUME NEW p \in Procs, Frame(p), p # q PROVE plan'[q] = plan[q]
  BY <1>0, <1>1 DEF Frame
<1>2. ASSUME NEW p \in Procs, Finish(p) PROVE plan'[q] \in {plan[q], NoPlan}
  BY <1>0, <1>2 DEF Finish
<1>3. CASE ReconcileDryRun(q) \/ ReconcileBegin(q)
  BY <1>0, <1>3 DEF ReconcileDryRun, ReconcileBegin
<1>4. CASE ReconcileConflict(q)
  BY <1>0, <1>2, <1>4 DEF ReconcileConflict, GiveUp
<1>5. CASE \/ ReconcileReport(q) \/ ReconcileCommit(q) \/ ResetBegin(q) \/ ResetCascade(q)
           \/ ResetCommit(q)
           \/ \E id \in Ids : ReconcileLock(q, id) \/ ReconcileRebuild(q, id) \/ ResetLock(q, id)
  BY <1>5 DEF ReconcileReport, ReconcileCommit, ResetBegin, ResetCascade, ResetCommit,
              ReconcileLock, ReconcileRebuild, ResetLock
<1>6. CASE ByHand
  BY <1>6 DEF ByHand, Withdraw, AddLesson, LoseProjection, SkewProjection, Ambient
<1>7. ASSUME NEW p \in Requests, Call(p) \/ RequestStep(p) PROVE Frame(p) /\ p # q /\ p \in Procs
  BY <1>0, <1>7, RequestFrame, BoundAssumption DEF Procs
<1>8. ASSUME NEW p \in Operators \ {q}, Command(p) \/ CommandStep(p) PROVE Frame(p) /\ p \in Procs
  BY <1>0, <1>8, CommandFrame DEF Procs
<1>9. CASE \E p \in Procs : Return(p) \/ GiveUp(p)
  BY <1>2, <1>9 DEF Return, GiveUp
<1>10. CASE Command(q) \/ CommandStep(q)
  BY <1>3, <1>4, <1>5, <1>10 DEF Command, CommandStep
<1>11. ASSUME NEW p \in Procs, Frame(p), p # q PROVE plan'[q] \in {plan[q], NoPlan}
  BY <1>1, <1>11
<1> QED BY <1>6, <1>7, <1>8, <1>9, <1>10, <1>11, Movers

LEMMA CountMonotone ==
    ASSUME TypeOK, NEW S, NEW T, S \subseteq T, T \subseteq Lessons
    PROVE  Cardinality(S) \in Nat /\ Cardinality(T) \in Nat /\ Cardinality(S) <= Cardinality(T)
<1>1. IsFiniteSet(T)
  BY FS_Subset, DataAssumption
<1> QED BY <1>1, FS_Subset, FS_CardinalityType

(* No more lessons are completed than the course has, now or at a commit. *)
LEMMA CompletedFit ==
    ASSUME Control, Placing
    PROVE  /\ \A id \in Ids :
                 /\ Cardinality(CompletedLessons(id)) <= Cardinality(CourseLessons(enr[id].course))
                 /\ CompletedLessons(id) \subseteq CourseLessons(enr[id].course)
           /\ \A p \in Requests : pc[p] \in OrderedLabels =>
                 Cardinality(SeenLessons(p)) <= Cardinality(CourseLessons(enr[arg[p].id].course))
<1>0. TypeOK /\ content \subseteq Lessons /\ used \subseteq Ids
  BY DEF Control, TypeOK
<1>1. ASSUME NEW id \in Ids PROVE CompletedLessons(id) \subseteq CourseLessons(enr[id].course)
  BY DEF Placing, EventsPlaced
<1>2. ASSUME NEW c PROVE CourseLessons(c) \subseteq Lessons
  BY <1>0 DEF CourseLessons
<1>3. ASSUME NEW p \in Requests, pc[p] \in OrderedLabels
      PROVE  SeenLessons(p) \subseteq CourseLessons(enr[arg[p].id].course)
  <2>1. pc[p] \in LockedLabels /\ CompletePlaced(p) /\ RequestControl(p)
    BY <1>3 DEF OrderedLabels, LockedLabels, Placing, Control
  <2>2. arg[p].lesson \in content /\ arg[p].id \in Ids
    BY <1>0, <2>1 DEF RequestControl
  <2>3. CourseOf[arg[p].lesson] = enr[arg[p].id].course
    BY <1>3, <2>1 DEF CompletePlaced
  <2> QED BY <1>1, <2>2, <2>3 DEF SeenLessons, CourseLessons
<1> QED BY <1>0, <1>1, <1>2, <1>3, CountMonotone

LEMMA ChecksNeverFireStep ==
    ASSUME Control, Rows, Placing, ChecksNeverFire, Next
    PROVE  ChecksNeverFire'
<1>0. TypeOK /\ arg \in [Requests -> Arg] /\ plan \in [Operators -> [Ids -> OptRow(Expectation)]]
  BY DEF Control, TypeOK
<1>1. ASSUME NEW id \in Ids, proj'[id] # NoRow PROVE proj'[id].done <= proj'[id].total
  <2>1. CASE proj'[id] = proj[id]
    BY <1>1, <2>1 DEF ChecksNeverFire
  <2>2. ASSUME NEW p \in Requests, arg[p].id = id, wr[p].proj # NoRow, proj'[id] = wr[p].proj
        PROVE  proj'[id].done <= proj'[id].total
    BY <2>2 DEF ChecksNeverFire
  <2>3. ASSUME NEW p \in Operators, id \in Planned(p),
               proj'[id] = [done |-> plan[p][id].done, total |-> plan[p][id].total]
        PROVE  proj'[id].done <= proj'[id].total
    BY <2>3 DEF ChecksNeverFire
  <2>4. ASSUME NEW n \in Nat, proj[id] \in Projection, n <= proj[id].total,
               proj'[id] = [proj[id] EXCEPT !.done = n]
        PROVE  proj'[id].done <= proj'[id].total
    BY <2>4 DEF Projection
  <2> QED BY <1>1, <2>1, <2>2, <2>3, <2>4, ProjectionChange
<1>2. ASSUME NEW p \in Requests, wr'[p].proj # NoRow
      PROVE  wr'[p].proj.done <= wr'[p].proj.total
  <2>1. CASE wr'[p].proj = wr[p].proj
    BY <1>2, <2>1 DEF ChecksNeverFire
  <2>2. CASE wr'[p].proj = [done |-> 0, total |-> arg[p].total]
    <3>1. arg[p].total \in Nat
      BY <1>0 DEF Arg
    <3> QED BY <2>2, <3>1
  <2>3. ASSUME CompleteProject(p),
               wr'[p].proj = [done |-> Cardinality(SeenLessons(p)),
                              total |-> Cardinality(CourseLessons(enr[arg[p].id].course))]
        PROVE  wr'[p].proj.done <= wr'[p].proj.total
    <3>1. pc[p] \in OrderedLabels
      BY <2>3 DEF CompleteProject, OrderedLabels
    <3> QED BY <2>3, <3>1, CompletedFit
  <2> QED BY <1>2, <2>1, <2>2, <2>3, WriteChange
<1>3. ASSUME NEW q \in Operators, NEW id \in Ids, plan'[q][id] # NoRow
      PROVE  plan'[q][id].done <= plan'[q][id].total
  <2>1. CASE plan'[q] = plan[q]
    BY <1>3, <2>1 DEF ChecksNeverFire, Planned
  <2>2. CASE plan'[q] = NoPlan
    BY <1>3, <2>2 DEF NoPlan
  <2>3. CASE plan'[q] = ReportNow
    <3>1. plan'[q][id] = Expected(id)
      BY <1>3, <2>3 DEF ReportNow
    <3> QED BY <3>1, CompletedFit DEF Expected
  <2> QED BY <2>1, <2>2, <2>3, PlanChange
<1> QED BY <1>1, <1>2, <1>3 DEF ChecksNeverFire, Planned

LEMMA UndisturbedBefore ==
    ASSUME Control, Placing, Next, Undisturbed'
    PROVE  /\ Undisturbed /\ content' = content /\ faults = 0 /\ Unlost
           /\ \A id \in Ids : \A n : ~ SkewProjection(id, n)
           /\ \A c : CourseLessons(c)' = CourseLessons(c)
<1>1. content \subseteq content' /\ Original \subseteq content /\ content' = Original /\ faults' = 0
  BY Monotone DEF Placing, Undisturbed
<1>2. content' = content
  BY <1>1
<1>3. faults = 0 /\ \A id \in Ids : \A n : ~ SkewProjection(id, n)
  BY <1>1, UnlostBefore DEF Control
<1>4. \A c : CourseLessons(c)' = CourseLessons(c)
  BY <1>2 DEF CourseLessons
<1> QED BY <1>1, <1>2, <1>3, <1>4 DEF Undisturbed, Unlost

(* While enrolling, the course and its total are those of the begin. *)
LEMMA EnrollFrom ==
    ASSUME TypeOK, Next, NEW p \in Requests, pc'[p] \in EnrollLabels
    PROVE  \/ /\ pc[p] \in EnrollLabels
              /\ arg'[p].course = arg[p].course /\ arg'[p].total = arg[p].total
           \/ \E c \in Courses : /\ pc[p] = "idle" /\ arg'[p].course = c
                                /\ arg'[p].total = Cardinality(CourseLessons(c))
<1>0. /\ p \in Procs /\ pc \in [Procs -> Labels] /\ arg \in [Requests -> Arg]
      /\ arg[p] \in Arg /\ NoArg \in Arg
  BY DEF TypeOK, Procs, NoArg, Arg, OptRow
<1>r. ASSUME NEW kind, Refuse(p, kind) PROVE FALSE
  BY <1>0, <1>r DEF Refuse, Goto, EnrollLabels
<1>1. ASSUME NEW m \in Members, NEW c \in Courses, EnrollBegin(p, m, c)
      PROVE  pc[p] = "idle" /\ arg'[p].course = c /\ arg'[p].total = Cardinality(CourseLessons(c))
  <2>1. pc[p] = "idle" /\ arg' = [arg EXCEPT ![p] = [NoArg EXCEPT
                  !.op = "enroll", !.member = m, !.course = c,
                  !.total = Cardinality(CourseLessons(c))]]
    BY <1>1, <1>r DEF EnrollBegin
  <2> QED BY <1>0, <2>1 DEF NoArg
<1>2. ASSUME NEW m, \/ DashboardBegin(p, m)
                    \/ \E id \in Ids, l \in Lessons : CompleteBegin(p, m, id, l)
      PROVE  FALSE
  <2>1. pc'[p] \in {"replied", "load_row", "c_lock"}
    BY <1>0, <1>2, AdvanceLocks DEF CompleteBegin, DashboardBegin, Goto
  <2> QED BY <2>1 DEF EnrollLabels
<1>3. CASE EnrollInsert(p)
  <2>1. pc[p] \in EnrollLabels /\ (arg' = arg \/ \E id \in Ids : arg' = [arg EXCEPT ![p].id = id])
    BY <1>3 DEF EnrollInsert, EnrollLabels
  <2> QED BY <1>0, <2>1 DEF Arg
<1>4. CASE EnrollSelect(p)
  <2>1. pc[p] \in EnrollLabels /\ \E id : arg' = [arg EXCEPT ![p].id = id]
    BY <1>4, <1>r DEF EnrollSelect, EnrollLabels
  <2> QED BY <1>0, <2>1 DEF Arg
<1>5. CASE EnrollProject(p) \/ EnrollForeignKey(p)
  <2>1. pc[p] \in EnrollLabels /\ arg' = arg
    BY <1>5, <1>r DEF EnrollProject, EnrollForeignKey, EnrollLabels
  <2> QED BY <2>1
<1>6. ASSUME \/ CompleteLock(p) \/ CompletePlace(p) \/ CompleteOrder(p)
             \/ CompleteInsert(p) \/ CompleteProject(p) \/ CompleteStatus(p)
      PROVE  FALSE
  BY <1>0, <1>6, <1>r, AdvanceLocks
     DEF CompleteLock, CompletePlace, CompleteOrder, CompleteInsert, CompleteProject,
         CompleteStatus, EnrollLabels
<1>7. ASSUME EnrollCommit(p) \/ CompleteCommit(p) \/ LoadLessons(p) \/ \E id \in Ids : LoadRow(p, id)
      PROVE  FALSE
  BY <1>0, <1>7, <1>r DEF EnrollCommit, CompleteCommit, LoadLessons, LoadRow, Goto, EnrollLabels
<1>8. ASSUME Return(p) \/ GiveUp(p) PROVE FALSE
  BY <1>0, <1>8 DEF Return, GiveUp, Finish, Goto, EnrollLabels
<1>9. CASE UNCHANGED <<pc[p], arg[p], wr[p]>>
  BY <1>9
<1> QED BY <1>1, <1>2, <1>3, <1>4, <1>5, <1>6, <1>7, <1>8, <1>9, RequestMoves
        DEF RequestStep, Call

(* A row of the table whose projection follows its events has not drifted. *)
LEMMA NothingDrifts ==
    ASSUME Undisturbed, ProjectionFaithful, TotalsCurrent
    PROVE  ReportNow = NoPlan
<1> SUFFICES ASSUME NEW id \in Ids PROVE ~ Drifted(id)
  BY DEF ReportNow, NoPlan
<1>1. CASE enr[id] # NoRow
  <2>1. /\ proj[id] # NoRow /\ proj[id].done = Cardinality(CompletedLessons(id))
        /\ enr[id].status \in {"withdrawn", DerivedStatus(proj[id])}
    BY <1>1 DEF Undisturbed, ProjectionFaithful
  <2>2. proj[id].total = Cardinality(CourseLessons(enr[id].course))
    BY <2>1 DEF TotalsCurrent
  <2>3. Expected(id).status = enr[id].status
    BY <2>1, <2>2 DEF Expected, DerivedStatus
  <2>4. /\ Expected(id).done = proj[id].done /\ Expected(id).total = proj[id].total
        /\ Expected(id) = [done |-> Expected(id).done, total |-> Expected(id).total,
                           status |-> Expected(id).status]
    BY <2>1, <2>2 DEF Expected
  <2> QED BY <2>1, <2>3, <2>4 DEF Drifted
<1> QED BY <1>1 DEF Drifted

LEMMA TotalsCurrentStep ==
    ASSUME Control, Control', Locking, Rows, Rows', Projecting, Placing, TotalsCurrent, Next,
           Undisturbed'
    PROVE  TotalsCurrent'
<1>0. /\ TypeOK /\ Undisturbed /\ content' = content /\ faults = 0 /\ Unlost
      /\ \A id \in Ids : \A n : ~ SkewProjection(id, n)
      /\ \A c : CourseLessons(c)' = CourseLessons(c)
  BY UndisturbedBefore DEF Control
<1>1. ASSUME NEW id \in Ids, proj'[id] # NoRow
      PROVE  proj'[id].total = Cardinality(CourseLessons(enr'[id].course))
  <2>0. enr'[id] # NoRow
    BY <1>1 DEF Rows, NoOrphans
  <2>1. CASE proj'[id] = proj[id]
    <3>1. enr[id] # NoRow /\ proj[id] # NoRow
      BY <1>1, <2>1 DEF Rows, NoOrphans
    <3>2. enr'[id].course = enr[id].course
      BY <2>0, <3>1, RowsAppear
    <3> QED BY <2>1, <3>1, <3>2 DEF TotalsCurrent
  <2>2. ASSUME NEW p \in Requests, EnrollCommit(p), arg[p].id = id, wr[p].proj # NoRow,
               proj'[id] = wr[p].proj
        PROVE  proj'[id].total = Cardinality(CourseLessons(enr'[id].course))
    <3>1. pc[p] = "e_commit" /\ pc[p] \in EnrollLabels
      BY <2>2 DEF EnrollCommit, EnrollLabels
    <3>2. wr[p].enr
      BY <1>0, <2>2, <3>1 DEF Projecting, Projected, EnrollProjects
    <3>3. enr'[id].course = arg[p].course
      BY <1>0, <2>2, <3>2 DEF EnrollCommit, TypeOK
    <3> QED BY <2>2, <3>3 DEF TotalsCurrent
  <2>3. ASSUME NEW p \in Requests, CompleteCommit(p), arg[p].id = id, wr[p].proj # NoRow,
               proj'[id] = wr[p].proj
        PROVE  proj'[id].total = Cardinality(CourseLessons(enr'[id].course))
    <3>1. pc[p] \in LockedLabels /\ CompletePlaced(p) /\ RequestControl(p)
      BY <2>3 DEF CompleteCommit, LockedLabels, Placing, Control
    <3>2. arg[p].course = enr[id].course /\ id \in used
      BY <2>3, <3>1 DEF CompletePlaced, RequestControl
    <3>3. enr'[id].course = enr[id].course
      BY <2>0, <3>2, Persists
    <3> QED BY <2>3, <3>2, <3>3 DEF TotalsCurrent
  <2>4. ASSUME NEW q \in Operators, id \in Planned(q) PROVE FALSE
    BY <2>4 DEF TotalsCurrent
  <2> QED BY <1>0, <1>1, <2>1, <2>2, <2>3, <2>4, ProjectionChange
<1>2. ASSUME NEW p \in Requests, pc'[p] \in EnrollLabels
      PROVE  arg'[p].total = Cardinality(CourseLessons(arg'[p].course))
  BY <1>0, <1>2, EnrollFrom DEF TotalsCurrent
<1>3. ASSUME NEW p \in Requests, wr'[p].proj # NoRow
      PROVE  wr'[p].proj.total = Cardinality(CourseLessons(arg'[p].course))
  <2>1. CASE wr'[p].proj = wr[p].proj /\ arg'[p].course = arg[p].course
    BY <1>3, <2>1 DEF TotalsCurrent
  <2>2. ASSUME EnrollProject(p), UNCHANGED arg,
               wr'[p].proj = [done |-> 0, total |-> arg[p].total]
        PROVE  wr'[p].proj.total = Cardinality(CourseLessons(arg'[p].course))
    <3>1. pc[p] \in EnrollLabels
      BY <2>2 DEF EnrollProject, EnrollLabels
    <3> QED BY <2>2, <3>1 DEF TotalsCurrent
  <2>3. ASSUME CompleteProject(p), UNCHANGED arg,
               wr'[p].proj = [done |-> Cardinality(SeenLessons(p)),
                              total |-> Cardinality(CourseLessons(enr[arg[p].id].course))]
        PROVE  wr'[p].proj.total = Cardinality(CourseLessons(arg'[p].course))
    <3>1. arg[p].course = enr[arg[p].id].course
      BY <2>3 DEF CompleteProject, LockedLabels, Placing, CompletePlaced
    <3> QED BY <2>3, <3>1
  <2> QED BY <1>3, <2>1, <2>2, <2>3, WriteChange
<1>4. ASSUME NEW q \in Operators PROVE plan'[q] \in {plan[q], NoPlan}
  BY <1>0, NothingDrifts, PlanChange DEF Projecting
<1>5. ASSUME NEW q \in Operators, NEW id \in Ids PROVE plan'[q][id] = NoRow
  BY <1>4 DEF TotalsCurrent, Planned, NoPlan
<1>6. ASSUME NEW id \in Ids, proj'[id] # NoRow
      PROVE  proj'[id].total = Cardinality(CourseLessons(enr[id].course)')
  BY <1>0, <1>1, <1>6
<1>7. ASSUME NEW p \in Requests
      PROVE  /\ pc'[p] \in EnrollLabels =>
                   arg'[p].total = Cardinality(CourseLessons(arg[p].course)')
             /\ wr'[p].proj # NoRow =>
                   wr'[p].proj.total = Cardinality(CourseLessons(arg[p].course)')
  BY <1>0, <1>2, <1>3
<1> QED BY <1>5, <1>6, <1>7 DEF TotalsCurrent, Planned

LEMMA TotalsStep ==
    ASSUME Control, Control', Locking, Rows, Rows', Projecting, Placing, Totals, Next
    PROVE  Totals'
BY ChecksNeverFireStep, TotalsCurrentStep, UndisturbedBefore DEF Totals

LEMMA TotalsInit ==
    ASSUME Init
    PROVE  Totals
<1>1. ChecksNeverFire
  BY DEF Init, ChecksNeverFire, Planned, NoPlan, NoWrites
<1>2. TotalsCurrent
  BY DEF Init, TotalsCurrent, Planned, NoPlan, NoWrites, EnrollLabels, Procs
<1> QED BY <1>1, <1>2 DEF Totals

LEMMA TotalsStutter ==
    ASSUME Totals, UNCHANGED vars
    PROVE  Totals'
<1>1. ChecksNeverFire'
  BY DEF Totals, ChecksNeverFire, Planned, vars, db, txn
<1>2. Undisturbed => TotalsCurrent
  BY DEF Totals
<1>3. TotalsCurrent => TotalsCurrent'
  BY DEF TotalsCurrent, Planned, vars, db, txn, CourseLessons
<1>4. Undisturbed' => Undisturbed
  BY DEF Undisturbed, vars, db
<1> QED BY <1>1, <1>2, <1>3, <1>4 DEF Totals

----------------------------------------------------------------------------
(* Layer 8: answers *)

ViewRead(p) ==
    LET id == head[p].id
        listed == IF enr[id] = NoRow THEN {} ELSE CourseLessons(enr[id].course)
    IN  [id |-> id, status |-> head[p].status, done |-> head[p].done,
         total |-> head[p].total, lessons |-> listed,
         ticked |-> listed \cap CompletedLessons(id)]

(* How a request gets to where it loads, or has its answer. *)
LEMMA AnsweredFrom ==
    ASSUME Control, Next, NEW p \in Requests
    PROVE  \/ UNCHANGED <<pc[p], arg[p], todo[p], head[p], out[p]>>
           \/ /\ pc'[p] \notin LoadLabels \cup {"replied"} /\ UNCHANGED db
              /\ out'[p] \in {out[p], NoReply}
           \/ /\ pc'[p] = "replied" /\ UNCHANGED <<db, arg>>
              /\ out'[p].kind # "ok" /\ out'[p].views = {}
              /\ arg[p].op = "complete" => pc[p] \in {"load_row", "c_lock"} \cup LockedLabels
           \/ /\ pc'[p] = "load_row" /\ arg' = arg /\ out'[p].views = out[p].views
              /\ \/ arg[p].op # "complete"
                 \/ CompleteCommit(p) /\ pc[p] \in LockedLabels /\ todo'[p] = {arg[p].id}
           \/ /\ pc'[p] \in {"load_row", "replied"} /\ arg'[p].op # "complete" /\ UNCHANGED db
              /\ out'[p].views = out[p].views
           \/ \E id \in todo[p] :
                 /\ pc[p] = "load_row" /\ pc'[p] = "load_lessons" /\ enr[id] # NoRow
                 /\ UNCHANGED <<db, arg, out>> /\ todo'[p] = todo[p] \ {id}
                 /\ head'[p].id = id
                 /\ head'[p].done = IF proj[id] # NoRow THEN proj[id].done ELSE 0
           \/ /\ pc[p] = "load_lessons" /\ UNCHANGED <<db, arg, todo>>
              /\ out'[p].views = out[p].views \cup {ViewRead(p)}
              /\ IF todo[p] = {} THEN pc'[p] = "replied" ELSE pc'[p] = "load_row"
<1>0. /\ TypeOK /\ p \in Procs /\ RequestControl(p) /\ pc \in [Procs -> Labels]
      /\ arg \in [Requests -> Arg] /\ arg[p] \in Arg /\ out \in [Requests -> Reply]
      /\ out[p] \in Reply /\ todo \in [Procs -> SUBSET Ids] /\ head \in [Requests -> OptRow(HeadRow)]
  BY DEF Control, TypeOK, Procs
<1> DEFINE Idle == /\ pc'[p] \notin LoadLabels \cup {"replied"} /\ UNCHANGED db
                   /\ out'[p] \in {out[p], NoReply}
           Refused == /\ pc'[p] = "replied" /\ UNCHANGED <<db, arg>>
                      /\ out'[p].kind # "ok" /\ out'[p].views = {}
           Known == arg[p].op = "complete" => pc[p] \in {"load_row", "c_lock"} \cup LockedLabels
           Committed == /\ pc'[p] = "load_row" /\ arg' = arg /\ out'[p].views = out[p].views
                        /\ \/ arg[p].op # "complete"
                           \/ CompleteCommit(p) /\ pc[p] \in LockedLabels /\ todo'[p] = {arg[p].id}
           Listing == /\ pc'[p] \in {"load_row", "replied"} /\ arg'[p].op # "complete" /\ UNCHANGED db
                      /\ out'[p].views = out[p].views
           Loading == \E id \in todo[p] :
                 /\ pc[p] = "load_row" /\ pc'[p] = "load_lessons" /\ enr[id] # NoRow
                 /\ UNCHANGED <<db, arg, out>> /\ todo'[p] = todo[p] \ {id}
                 /\ head'[p].id = id
                 /\ head'[p].done = IF proj[id] # NoRow THEN proj[id].done ELSE 0
           Loaded == /\ pc[p] = "load_lessons" /\ UNCHANGED <<db, arg, todo>>
                     /\ out'[p].views = out[p].views \cup {ViewRead(p)}
                     /\ IF todo[p] = {} THEN pc'[p] = "replied" ELSE pc'[p] = "load_row"
<1>r. ASSUME NEW kind, kind # "ok", Refuse(p, kind) PROVE Refused
  <2>1. out'[p] = [NoReply EXCEPT !.kind = kind] /\ pc'[p] = "replied" /\ UNCHANGED <<db, arg>>
    BY <1>0, <1>r DEF Refuse, Goto
  <2>2. out'[p].kind = kind /\ out'[p].views = {}
    BY <2>1 DEF NoReply
  <2> QED BY <1>r, <2>1, <2>2
<1>a. ASSUME NEW label, Advance(p, label), label \notin LoadLabels \cup {"replied"} PROVE Idle
  BY <1>0, <1>a, AdvanceLocks DEF Advance
<1>1. ASSUME NEW m \in Members, NEW c \in Courses, EnrollBegin(p, m, c) PROVE Idle \/ (Refused /\ Known)
  <2>1. arg[p].op # "complete"
    BY <1>0, <1>1 DEF EnrollBegin, RequestControl, NoArg
  <2>2. Advance(p, "e_insert") \/ Refuse(p, "not_found")
    BY <1>1 DEF EnrollBegin
  <2> QED BY <1>a, <1>r, <2>1, <2>2 DEF LoadLabels
<1>2. ASSUME NEW m \in Members, NEW id \in Ids, NEW l \in Lessons, CompleteBegin(p, m, id, l) PROVE Idle
  BY <1>2, <1>a DEF CompleteBegin, LoadLabels
<1>3. ASSUME NEW m \in Members, DashboardBegin(p, m) PROVE Listing
  <2>1. arg'[p].op = "dashboard"
    BY <1>0, <1>3 DEF DashboardBegin, NoArg
  <2>2. pc'[p] \in {"load_row", "replied"} /\ UNCHANGED db
    BY <1>0, <1>3 DEF DashboardBegin, Goto
  <2>3. out'[p].views = out[p].views
    BY <1>0, <1>3 DEF DashboardBegin, Reply
  <2> QED BY <2>1, <2>2, <2>3
<1>4. CASE \/ EnrollInsert(p) \/ EnrollProject(p) \/ CompleteInsert(p) \/ CompleteProject(p)
           \/ CompleteStatus(p)
  <2>1. Idle
    BY <1>4, <1>a DEF EnrollInsert, EnrollProject, CompleteInsert, CompleteProject, CompleteStatus,
                      LoadLabels
  <2> QED BY <2>1
<1>5. CASE EnrollSelect(p) \/ EnrollForeignKey(p)
  <2>1. arg[p].op # "complete"
    BY <1>0, <1>5 DEF EnrollSelect, EnrollForeignKey, RequestControl, EnrollLabels
  <2>2. Advance(p, "e_project") \/ Advance(p, "e_commit") \/ Refuse(p, "internal")
    BY <1>5 DEF EnrollSelect, EnrollForeignKey
  <2>3. Idle \/ Refused
    BY <1>a, <1>r, <2>2 DEF LoadLabels
  <2> QED BY <2>1, <2>3
<1>6. CASE CompleteLock(p) \/ CompletePlace(p) \/ CompleteOrder(p)
  <2>1. pc[p] \in {"load_row", "c_lock"} \cup LockedLabels
    BY <1>6 DEF CompleteLock, CompletePlace, CompleteOrder, LockedLabels
  <2>2. \/ Advance(p, "c_place") \/ Advance(p, "c_order") \/ Advance(p, "c_insert")
        \/ \E kind \in {"not_found", "forbidden", "withdrawn", "out_of_order"} : Refuse(p, kind)
    BY <1>6 DEF CompleteLock, CompletePlace, CompleteOrder
  <2>3. Idle \/ Refused
    BY <1>a, <1>r, <2>2 DEF LoadLabels
  <2> QED BY <2>1, <2>3
<1>7. CASE EnrollCommit(p) \/ CompleteCommit(p)
  <2>1. pc'[p] = "load_row" /\ arg' = arg /\ todo'[p] = {arg[p].id}
    BY <1>0, <1>7 DEF EnrollCommit, CompleteCommit, Goto
  <2>2. out'[p].views = out[p].views
    BY <1>0, <1>7 DEF EnrollCommit, CompleteCommit, Reply
  <2>3. EnrollCommit(p) => arg[p].op # "complete"
    BY <1>0 DEF EnrollCommit, RequestControl, EnrollLabels
  <2>4. CompleteCommit(p) => pc[p] \in LockedLabels
    BY DEF CompleteCommit, LockedLabels
  <2>5. Committed
    BY <1>7, <2>1, <2>2, <2>3, <2>4
  <2> QED BY <2>5
<1>8. ASSUME NEW id \in Ids, LoadRow(p, id) PROVE (Refused /\ Known) \/ Loading
  <2>1. pc[p] = "load_row" /\ id \in todo[p]
    BY <1>8 DEF LoadRow
  <2>2. CASE enr[id] = NoRow \/ enr[id].member # arg[p].member
    BY <1>8, <1>r, <2>1, <2>2 DEF LoadRow
  <2>3. CASE ~ (enr[id] = NoRow \/ enr[id].member # arg[p].member)
    <3>1. /\ head' = [head EXCEPT ![p] =
                  IF proj[id] # NoRow
                  THEN [id |-> id, status |-> enr[id].status,
                        done |-> proj[id].done, total |-> proj[id].total]
                  ELSE [id |-> id, status |-> enr[id].status, done |-> 0,
                        total |-> Cardinality(CourseLessons(enr[id].course))]]
          /\ todo' = [todo EXCEPT ![p] = @ \ {id}] /\ pc'[p] = "load_lessons"
          /\ UNCHANGED <<db, arg, out>>
      BY <1>0, <1>8, <2>3 DEF LoadRow, Goto
    <3>2. head'[p].id = id /\ head'[p].done = IF proj[id] # NoRow THEN proj[id].done ELSE 0
      BY <1>0, <3>1
    <3>3. todo'[p] = todo[p] \ {id}
      BY <1>0, <3>1
    <3> QED BY <2>1, <2>3, <3>1, <3>2, <3>3
  <2> QED BY <2>2, <2>3
<1>9. CASE LoadLessons(p)
  <2>1. /\ pc[p] = "load_lessons" /\ UNCHANGED <<db, arg, todo>>
        /\ IF todo[p] = {} THEN pc'[p] = "replied" ELSE pc'[p] = "load_row"
    BY <1>0, <1>9 DEF LoadLessons, Goto
  <2>2. out'[p].views = out[p].views \cup {ViewRead(p)}
    BY <1>0, <1>9 DEF LoadLessons, ViewRead, Reply
  <2>3. Loaded
    BY <2>1, <2>2
  <2> QED BY <2>3
<1>10. CASE Return(p) \/ GiveUp(p)
  <2>1. pc'[p] = "idle" /\ out'[p] = NoReply /\ UNCHANGED db
    BY <1>0, <1>10 DEF Return, GiveUp, Finish, Goto
  <2>2. Idle
    BY <2>1 DEF LoadLabels
  <2> QED BY <2>2
<1>11. CASE UNCHANGED <<pc[p], arg[p], wr[p], held[p], shared[p], todo[p], head[p], out[p]>>
  BY <1>11
<1>12. CASE Call(p)
  BY <1>1, <1>2, <1>3, <1>12 DEF Call
<1> HIDE DEF Refused, Known, Loading
<1>13. CASE \E id \in Ids : LoadRow(p, id)
  <2>1. (Refused /\ Known) \/ Loading
    BY <1>8, <1>13
  <2> QED BY <2>1 DEF Refused, Known, Loading
<1> QED BY <1>0, <1>4, <1>5, <1>6, <1>7, <1>9, <1>10, <1>11, <1>12, <1>13, RequestOwn DEF RequestStep

LEMMA EventsPersist ==
    ASSUME Control, Locking, Rows, Next, NEW id \in used, enr'[id] # NoRow
    PROVE  /\ enr[id] # NoRow /\ CompletedLessons(id) \subseteq CompletedLessons(id)'
           /\ Cardinality(CompletedLessons(id)) \in Nat
           /\ Cardinality(CompletedLessons(id)') \in Nat
           /\ Cardinality(CompletedLessons(id)) <= Cardinality(CompletedLessons(id)')
<1>1. TypeOK /\ enr[id] # NoRow /\ \A l : <<id, l>> \in events => <<id, l>> \in events'
  BY Persists DEF Control
<1>2. CompletedLessons(id) \subseteq CompletedLessons(id)' /\ CompletedLessons(id)' \subseteq Lessons
  BY <1>1 DEF CompletedLessons
<1> QED BY <1>1, <1>2, CountMonotone

LEMMA CompletionLoadsStep ==
    ASSUME Control, Locking, Rows, Next, NEW p \in Requests, CompletionLoads(p)
    PROVE  CompletionLoads(p)'
<1>0. /\ TypeOK /\ used \subseteq used' /\ RequestControl(p) /\ PendingWrites(p)
      /\ arg \in [Requests -> Arg] /\ arg[p] \in Arg
  BY Monotone DEF Control, TypeOK, Rows
<1> SUFFICES ASSUME arg'[p].op = "complete"
             PROVE  /\ pc'[p] \in LoadLabels \cup {"replied"} => arg'[p].id \in used'
                    /\ pc'[p] = "load_row" => todo'[p] = {arg'[p].id}
                    /\ pc'[p] = "load_lessons" => todo'[p] = {} /\ head'[p].id = arg'[p].id
                    /\ pc'[p] \in LoadLabels =>
                          enr'[arg'[p].id] = NoRow \/ arg'[p].lesson \in CompletedLessons(arg[p].id)'
  BY DEF CompletionLoads
<1>1. CASE UNCHANGED <<pc[p], arg[p], todo[p], head[p], out[p]>>
  <2>1. PICK id : id = arg[p].id
    OBVIOUS
  <2>2. ASSUME pc[p] \in LoadLabels, enr'[id] # NoRow
        PROVE  arg[p].lesson \in CompletedLessons(id)'
    <3>1. id \in used /\ (enr[id] = NoRow \/ arg[p].lesson \in CompletedLessons(id))
      BY <1>1, <2>1, <2>2 DEF CompletionLoads
    <3> QED BY <2>2, <3>1, EventsPersist
  <2>3. CompletedLessons(arg[p].id)' = CompletedLessons(id)'
    BY <1>1, <2>1 DEF CompletedLessons
  <2> QED BY <1>0, <1>1, <2>1, <2>2, <2>3 DEF CompletionLoads
<1>2. CASE pc'[p] \notin LoadLabels \cup {"replied"}
  BY <1>2 DEF LoadLabels
<1>3. CASE /\ pc'[p] = "replied" /\ UNCHANGED <<db, arg>>
           /\ arg[p].op = "complete" => pc[p] \in {"load_row", "c_lock"} \cup LockedLabels
  <2>1. arg[p].id \in used
    BY <1>0, <1>3 DEF CompletionLoads, RequestControl, LoadLabels
  <2> QED BY <1>0, <1>3, <2>1 DEF LoadLabels
<1>4. CASE /\ pc'[p] = "load_row" /\ arg' = arg
           /\ CompleteCommit(p) /\ pc[p] \in LockedLabels /\ todo'[p] = {arg[p].id}
  <2>1. arg[p].id \in used /\ arg[p].lesson \in Lessons /\ pc[p] = "c_commit"
    BY <1>0, <1>4 DEF RequestControl, CompleteCommit, TypeOK
  <2>2. <<arg[p].id, arg[p].lesson>> \in events'
    BY <1>0, <1>4, <2>1 DEF CompleteCommit, PendingWrites
  <2> QED BY <1>0, <1>4, <2>1, <2>2 DEF CompletedLessons
<1>5. ASSUME NEW id \in todo[p], pc[p] = "load_row", pc'[p] = "load_lessons",
             UNCHANGED <<db, arg, out>>, todo'[p] = todo[p] \ {id}, head'[p].id = id
      PROVE  /\ arg'[p].id \in used' /\ todo'[p] = {} /\ head'[p].id = arg'[p].id
             /\ enr'[arg'[p].id] = NoRow \/ arg'[p].lesson \in CompletedLessons(arg[p].id)'
  BY <1>0, <1>5 DEF CompletionLoads, LoadLabels, CompletedLessons, db
<1>6. CASE /\ pc[p] = "load_lessons" /\ UNCHANGED <<db, arg, todo>>
           /\ IF todo[p] = {} THEN pc'[p] = "replied" ELSE pc'[p] = "load_row"
  BY <1>0, <1>6 DEF CompletionLoads, LoadLabels
<1>7. ASSUME pc'[p] = "load_lessons",
             /\ arg'[p].id \in used' /\ todo'[p] = {} /\ head'[p].id = arg'[p].id
             /\ enr'[arg'[p].id] = NoRow \/ arg'[p].lesson \in CompletedLessons(arg[p].id)'
      PROVE  /\ pc'[p] \in LoadLabels \cup {"replied"} => arg'[p].id \in used'
             /\ pc'[p] = "load_row" => todo'[p] = {arg'[p].id}
             /\ pc'[p] = "load_lessons" => todo'[p] = {} /\ head'[p].id = arg'[p].id
             /\ pc'[p] \in LoadLabels =>
                   enr'[arg'[p].id] = NoRow \/ arg'[p].lesson \in CompletedLessons(arg[p].id)'
  BY <1>7
<1> QED BY <1>1, <1>2, <1>3, <1>4, <1>5, <1>6, <1>7, AnsweredFrom

LEMMA CountsBehindStep ==
    ASSUME Control, Locking, Rows, Projecting, Next, NEW p \in Requests, CountsBehind(p)
    PROVE  CountsBehind(p)'
<1>0. /\ TypeOK /\ used \subseteq used' /\ RequestControl(p) /\ proj \in [Ids -> OptRow(Projection)]
      /\ head \in [Requests -> OptRow(HeadRow)] /\ todo[p] \subseteq used /\ used \subseteq Ids
  BY Monotone DEF Control, TypeOK, RequestControl
<1>1. ASSUME NEW v \in out'[p].views PROVE v.id \in used'
  <2>1. CASE v \in out[p].views
    BY <1>0, <2>1 DEF CountsBehind
  <2>2. CASE pc[p] = "load_lessons" /\ v = ViewRead(p)
    BY <1>0, <2>2 DEF ViewRead, RequestControl
  <2> QED BY <1>1, <2>1, <2>2, AnsweredFrom DEF NoReply
<1>2. ASSUME pc'[p] = "load_lessons", faults' = 0, enr'[head'[p].id] # NoRow
      PROVE  head'[p].done <= Cardinality(CompletedLessons(head[p].id)')
  <2>0. faults = 0
    BY <1>0, <1>2, UnlostBefore
  <2>1. CASE UNCHANGED <<pc[p], arg[p], todo[p], head[p], out[p]>>
    <3>1. PICK id : id = head[p].id
      OBVIOUS
    <3>2. id \in used /\ enr'[id] # NoRow /\ head[p] \in HeadRow
      BY <1>0, <1>2, <2>1, <3>1 DEF RequestControl
    <3>3. /\ enr[id] # NoRow /\ Cardinality(CompletedLessons(id)) \in Nat
          /\ Cardinality(CompletedLessons(id)') \in Nat
          /\ Cardinality(CompletedLessons(id)) <= Cardinality(CompletedLessons(id)')
      BY <3>2, EventsPersist
    <3>4. head[p].done <= Cardinality(CompletedLessons(id)) /\ head[p].done \in Nat
      BY <1>2, <2>0, <2>1, <3>1, <3>2, <3>3 DEF CountsBehind, HeadRow
    <3>5. head[p].done <= Cardinality(CompletedLessons(id)')
      BY <3>3, <3>4
    <3> QED BY <2>1, <3>1, <3>5 DEF CompletedLessons
  <2>2. ASSUME NEW id \in todo[p], enr[id] # NoRow, UNCHANGED <<db, arg, out>>, head'[p].id = id,
               head'[p].done = IF proj[id] # NoRow THEN proj[id].done ELSE 0
        PROVE  head'[p].done <= Cardinality(CompletedLessons(head[p].id)')
    <3>1. proj[id] # NoRow /\ proj[id].done = Cardinality(CompletedLessons(id))
      BY <1>0, <2>0, <2>2 DEF Projecting, ProjectionFaithful
    <3>2. Cardinality(CompletedLessons(id)) \in Nat
      BY <1>0, CountType
    <3>3. CompletedLessons(head[p].id)' = CompletedLessons(id)
      BY <2>2 DEF CompletedLessons, db
    <3> QED BY <2>2, <3>1, <3>2, <3>3
  <2> QED BY <1>2, <2>1, <2>2, AnsweredFrom DEF LoadLabels
<1> QED BY <1>1, <1>2 DEF CountsBehind

LEMMA CompletionDurableStep ==
    ASSUME Control, Locking, Rows, Placing, Answering, Next
    PROVE  CompletionDurable'
<1> SUFFICES ASSUME NEW p \in Requests, pc'[p] = "replied", arg'[p].op = "complete",
                    out'[p].kind = "ok", enr'[arg'[p].id] # NoRow
             PROVE  /\ arg'[p].lesson \in CompletedLessons(arg[p].id)'
                    /\ \E v \in out'[p].views : arg'[p].lesson \in v.ticked
  BY DEF CompletionDurable
<1>0. CompletionLoads(p)
  BY DEF Answering
<1>1. CASE UNCHANGED <<pc[p], arg[p], todo[p], head[p], out[p]>>
  <2>1. PICK id, l : id = arg[p].id /\ l = arg[p].lesson
    OBVIOUS
  <2>2. id \in used
    BY <1>0, <1>1, <2>1 DEF CompletionLoads
  <2>3. enr'[id] # NoRow
    BY <1>1, <2>1
  <2>4. enr[id] # NoRow /\ CompletedLessons(id) \subseteq CompletedLessons(id)'
    BY <2>2, <2>3, EventsPersist
  <2>5. l \in CompletedLessons(id) /\ \E v \in out[p].views : l \in v.ticked
    BY <1>1, <2>1, <2>4 DEF Answering, CompletionDurable
  <2>6. l \in CompletedLessons(id)'
    BY <2>4, <2>5
  <2>7. CompletedLessons(arg[p].id)' = CompletedLessons(id)'
    BY <1>1, <2>1 DEF CompletedLessons
  <2> QED BY <1>1, <2>1, <2>5, <2>6, <2>7
<1>2. ASSUME pc[p] = "load_lessons", UNCHANGED <<db, arg, todo>>,
             out'[p].views = out[p].views \cup {ViewRead(p)}, todo[p] = {}
      PROVE  /\ arg'[p].lesson \in CompletedLessons(arg[p].id)'
             /\ \E v \in out'[p].views : arg'[p].lesson \in v.ticked
  <2>1. /\ arg[p].id \in used /\ head[p].id = arg[p].id /\ enr[arg[p].id] # NoRow
        /\ arg[p].lesson \in CompletedLessons(arg[p].id)
    BY <1>0, <1>2 DEF CompletionLoads, LoadLabels, db
  <2>2. arg[p].lesson \in CourseLessons(enr[arg[p].id].course)
    BY <2>1 DEF Placing, EventsPlaced, Control, TypeOK
  <2>3. arg[p].lesson \in ViewRead(p).ticked
    BY <2>1, <2>2 DEF ViewRead
  <2> QED BY <1>2, <2>1, <2>3 DEF CompletedLessons, db
<1> QED BY <1>1, <1>2, AnsweredFrom DEF LoadLabels

LEMMA CountNeverAheadStep ==
    ASSUME Control, Locking, Rows, Placing, Answering, Next
    PROVE  CountNeverAhead'
<1> SUFFICES ASSUME faults' = 0, NEW p \in Requests, NEW v \in out'[p].views, enr'[v.id] # NoRow
             PROVE  v.done <= Cardinality(v.ticked)
  BY DEF CountNeverAhead
<1>0. faults = 0 /\ CountsBehind(p) /\ RequestControl(p) /\ used \subseteq Ids
  BY UnlostBefore DEF Answering, Control, TypeOK
<1>1. CASE v \in out[p].views
  <2>1. v.id \in used
    BY <1>0, <1>1 DEF CountsBehind
  <2>2. enr[v.id] # NoRow
    BY <2>1, Persists
  <2> QED BY <1>0, <1>1, <2>2 DEF Answering, CountNeverAhead
<1>2. CASE pc[p] = "load_lessons" /\ v = ViewRead(p)
  <2>1. PICK id : id = head[p].id
    OBVIOUS
  <2>2. v.id = id /\ v.done = head[p].done /\ id \in used
    BY <1>0, <1>2, <2>1 DEF ViewRead, RequestControl
  <2>3. enr[id] # NoRow
    BY <2>2, Persists
  <2>4. v.ticked = CourseLessons(enr[id].course) \cap CompletedLessons(id)
    BY <1>2, <2>1, <2>3 DEF ViewRead
  <2>5. CompletedLessons(id) \subseteq CourseLessons(enr[id].course)
    BY <1>0, <2>2 DEF Placing, EventsPlaced
  <2>6. v.ticked = CompletedLessons(id)
    BY <2>4, <2>5
  <2>7. head[p].done <= Cardinality(CompletedLessons(id))
    BY <1>0, <1>2, <2>1, <2>3 DEF CountsBehind
  <2> QED BY <2>2, <2>6, <2>7
<1> QED BY <1>1, <1>2, AnsweredFrom DEF NoReply

LEMMA AnsweringStep ==
    ASSUME Control, Locking, Rows, Projecting, Placing, Answering, Next
    PROVE  Answering'
<1>1. ASSUME NEW p \in Requests PROVE CompletionLoads(p)' /\ CountsBehind(p)'
  BY CompletionLoadsStep, CountsBehindStep DEF Answering
<1> QED BY <1>1, CompletionDurableStep, CountNeverAheadStep DEF Answering

LEMMA AnsweringInit ==
    ASSUME Init
    PROVE  Answering
<1>1. ASSUME NEW p \in Requests
      PROVE  pc[p] = "idle" /\ arg[p].op # "complete" /\ out[p].views = {} /\ p \in Procs
  BY DEF Init, Procs, NoArg, NoReply
<1>2. \A p \in Requests : CompletionLoads(p) /\ CountsBehind(p)
  BY <1>1 DEF CompletionLoads, CountsBehind
<1> QED BY <1>1, <1>2 DEF Answering, CompletionDurable, CountNeverAhead

LEMMA AnsweringStutter ==
    ASSUME Answering, UNCHANGED vars
    PROVE  Answering'
<1>1. \A id : CompletedLessons(id)' = CompletedLessons(id)
  BY DEF CompletedLessons, vars, db
<1>2. /\ pc' = pc /\ arg' = arg /\ todo' = todo /\ head' = head /\ out' = out
      /\ enr' = enr /\ used' = used /\ faults' = faults /\ events' = events
  BY DEF vars, db
<1>3. CompletionDurable' /\ CountNeverAhead'
  BY <1>2 DEF Answering, CompletionDurable, CountNeverAhead, CompletedLessons
<1>4. ASSUME NEW p \in Requests PROVE CompletionLoads(p)' /\ CountsBehind(p)'
  BY <1>2 DEF Answering, CompletionLoads, CountsBehind, CompletedLessons
<1> QED BY <1>3, <1>4 DEF Answering

----------------------------------------------------------------------------
(* Layer 9: uncommitted inserts of projection rows, and what waits for what *)

LEMMA RebuiltFrom ==
    ASSUME Control, Next, NEW q \in Operators, NEW id \in Rebuilt(q)'
    PROVE  id \in Rebuilt(q) \/ ReconcileRebuild(q, id)
<1>0. /\ TypeOK /\ q \in Procs /\ pc \in [Procs -> Labels] /\ todo \in [Procs -> SUBSET Ids]
      /\ plan \in [Operators -> [Ids -> OptRow(Expectation)]]
      /\ pc'[q] = "r_rebuild" /\ id \in Ids /\ plan'[q][id] # NoRow /\ id \notin todo'[q]
  BY DEF Control, TypeOK, Procs, Rebuilt, Planned
<1>1. ASSUME pc[q] = "r_rebuild", plan'[q] = plan[q], id \notin todo[q] PROVE id \in Rebuilt(q)
  BY <1>0, <1>1 DEF Rebuilt, Planned
<1>2. ASSUME NEW p \in Procs, Frame(p), p # q PROVE id \in Rebuilt(q)
  BY <1>0, <1>1, <1>2 DEF Frame
<1>3. ASSUME Finish(q) PROVE FALSE
  BY <1>0, <1>3 DEF Finish, Goto
<1>4. ASSUME \/ ReconcileDryRun(q) \/ ReconcileBegin(q) \/ ResetBegin(q) \/ ReconcileConflict(q)
             \/ ReconcileCommit(q) \/ ResetCascade(q) \/ ResetCommit(q)
             \/ \E i \in Ids : ReconcileLock(q, i) \/ ResetLock(q, i)
      PROVE  FALSE
  BY <1>0, <1>3, <1>4
     DEF ReconcileDryRun, ReconcileBegin, ResetBegin, ReconcileConflict, GiveUp, ReconcileCommit,
         ResetCascade, ResetCommit, ReconcileLock, ResetLock, Goto
<1>5. ASSUME ReconcileReport(q) PROVE FALSE
  <2>1. plan' = plan /\ (pc'[q] = "r_rebuild" => todo' = [todo EXCEPT ![q] = Planned(q)])
    BY <1>0, <1>5 DEF ReconcileReport, Goto
  <2> QED BY <1>0, <2>1 DEF Planned
<1>6. ASSUME NEW i \in Ids, ReconcileRebuild(q, i) PROVE id \in Rebuilt(q) \/ ReconcileRebuild(q, id)
  <2>1. pc[q] = "r_rebuild" /\ plan' = plan /\ todo'[q] = todo[q] \ {i}
    BY <1>0, <1>6 DEF ReconcileRebuild
  <2> QED BY <1>0, <1>1, <1>6, <2>1
<1>7. CASE ByHand
  BY <1>0, <1>1, <1>7 DEF ByHand, Withdraw, AddLesson, LoseProjection, SkewProjection, Ambient
<1>8. ASSUME NEW p \in Requests, Call(p) \/ RequestStep(p) PROVE Frame(p) /\ p # q /\ p \in Procs
  BY <1>0, <1>8, RequestFrame, BoundAssumption DEF Procs
<1>9. ASSUME NEW p \in Operators \ {q}, Command(p) \/ CommandStep(p) PROVE Frame(p) /\ p \in Procs
  BY <1>0, <1>9, CommandFrame DEF Procs
<1>10. ASSUME NEW p \in Procs, Return(p) \/ GiveUp(p) PROVE Frame(p) /\ Finish(p)
  BY <1>0, <1>10, FinishFrame DEF Return, GiveUp
<1>11. CASE Command(q) \/ CommandStep(q)
  BY <1>4, <1>5, <1>6, <1>11 DEF Command, CommandStep
<1> QED BY <1>2, <1>3, <1>7, <1>8, <1>9, <1>10, <1>11, Movers

LEMMA InsertBegun ==
    ASSUME Control, Rows, NEW p \in Requests, EnrollProject(p),
           proj[arg[p].id] = NoRow, UNCHANGED <<db, arg>>
    PROVE  InsertAlone(p)'
<1>0. TypeOK /\ p \in Procs /\ Frame(p)
  BY RequestFrame DEF Control, RequestStep, Procs
<1> DEFINE id == arg[p].id
<1>1. ProjWriters(id) \ {p} = {}
  BY DEF EnrollProject
<1>2. ASSUME NEW q \in Requests \ {p} PROVE arg[q].id = id => wr'[q].proj = NoRow
  <2>1. wr'[q] = wr[q]
    BY <1>0 DEF Frame
  <2> QED BY <1>1, <2>1 DEF ProjWriters
<1>3. ASSUME NEW q \in Operators PROVE id \notin Rebuilt(q)'
  <2>1. q \in Procs \ {p} /\ q \in Operators \ {p}
    BY BoundAssumption DEF Procs
  <2>2. pc'[q] = pc[q] /\ todo'[q] = todo[q] /\ plan'[q] = plan[q]
    BY <1>0, <2>1 DEF Frame
  <2>3. Rebuilt(q)' = Rebuilt(q)
    BY <2>2 DEF Rebuilt, Planned
  <2> QED BY <1>1, <2>1, <2>3 DEF ProjWriters
<1> QED BY <1>2, <1>3 DEF InsertAlone, db, Rebuilt, Planned

LEMMA InsertAloneStep ==
    ASSUME Control, Locking, Rows, Rows', InsertsAlone, Next, NEW p \in Requests
    PROVE  InsertAlone(p)'
<1>0. TypeOK /\ p \in Procs /\ pc \in [Procs -> Labels] /\ RequestControl(p) /\ PendingWrites(p)
  BY DEF Control, Rows, Procs, TypeOK
<1>1. CASE ~ (pc'[p] \in {"e_fk", "e_commit"} /\ wr'[p].proj # NoRow)
  BY <1>1 DEF InsertAlone
<1>2. CASE EnrollProject(p) /\ UNCHANGED <<db, arg>> /\ proj[arg[p].id] = NoRow
  BY <1>2, InsertBegun
<1>3. ASSUME pc'[p] \in {"e_fk", "e_commit"}, wr'[p].proj # NoRow,
             wr'[p].proj = wr[p].proj, arg'[p].id = arg[p].id
      PROVE  InsertAlone(p)'
  <2>1. pc[p] \in {"e_fk", "e_commit"}
    <3>1. pc'[p] \in EnrollLabels
      BY <1>3 DEF EnrollLabels
    <3>2. pc[p] \in EnrollLabels \/ pc[p] = "idle"
      BY <1>0, <3>1, EnrollFrom
    <3> QED BY <1>0, <1>3, <3>2 DEF PendingWrites, EnrollLabels
  <2>2. PICK id : id = arg[p].id
    OBVIOUS
  <2>3. id \in Ids
    BY <1>0, <2>1, <2>2 DEF RequestControl, TypeOK
  <2>4. /\ proj[id] = NoRow
        /\ \A q \in Requests \ {p} : arg[q].id = id => wr[q].proj = NoRow
        /\ \A q \in Operators : id \notin Rebuilt(q)
    BY <1>3, <2>1, <2>2 DEF InsertsAlone, InsertAlone
  <2>5. p \in ProjWriters(id)
    BY <1>3, <2>2 DEF ProjWriters
  <2>6. proj'[id] = NoRow
    <3>1. ASSUME NEW q \in Requests, EnrollCommit(q) \/ CompleteCommit(q), arg[q].id = id,
                 wr[q].proj # NoRow
          PROVE  FALSE
      <4>1. q = p
        BY <2>4, <3>1
      <4>2. pc'[p] = "load_row"
        BY <1>0, <3>1, <4>1 DEF EnrollCommit, CompleteCommit, Goto
      <4> QED BY <1>3, <4>2
    <3>2. ASSUME NEW q \in Operators, ReconcileCommit(q), id \in Planned(q) PROVE FALSE
      BY <2>4, <3>2 DEF ReconcileCommit, Rebuilt
    <3>3. proj[id] \notin Projection
      BY <2>4, NoRowAssumption
    <3> QED BY <2>3, <2>4, <3>1, <3>2, <3>3, ProjectionChange
  <2>7. ASSUME NEW q \in Requests \ {p}, arg'[q].id = id, wr'[q].proj # NoRow PROVE FALSE
    <3>1. CASE wr'[q].proj = wr[q].proj /\ arg'[q].id = arg[q].id
      BY <2>4, <2>7, <3>1
    <3>2. CASE EnrollProject(q) /\ UNCHANGED <<db, arg>>
      BY <2>5, <2>7, <3>2 DEF EnrollProject
    <3>3. CASE CompleteProject(q) /\ UNCHANGED <<db, arg>>
      <4>1. arg[q].id = id
        BY <2>7, <3>3
      <4>2. wr' = wr
        BY <2>4, <3>3, <4>1 DEF CompleteProject
      <4> QED BY <2>4, <2>7, <4>1, <4>2
    <3> QED BY <2>7, <3>1, <3>2, <3>3, WriteChange
  <2>8. ASSUME NEW q \in Operators, id \in Rebuilt(q)' PROVE FALSE
    <3>1. ReconcileRebuild(q, id)
      BY <2>4, <2>8, RebuiltFrom
    <3> QED BY <2>5, <3>1 DEF ReconcileRebuild
  <2>9. \A q \in Operators : arg'[p].id \notin Rebuilt(q)'
    BY <1>3, <2>2, <2>8
  <2> QED BY <1>3, <2>2, <2>6, <2>7, <2>9 DEF InsertAlone, Rebuilt, Planned
<1>4. CASE CompleteProject(p)
  <2>1. pc'[p] = "c_status"
    BY <1>0, <1>4, AdvanceLocks DEF CompleteProject
  <2> QED BY <2>1 DEF InsertAlone
<1> QED BY <1>1, <1>2, <1>3, <1>4, WriteChange

LEMMA RepairsPlannedStep ==
    ASSUME Control, RepairsPlanned, Next, NEW q \in Operators, pc'[q] = "r_rebuild"
    PROVE  todo'[q] \subseteq Planned(q)'
<1>0. /\ TypeOK /\ q \in Procs /\ pc \in [Procs -> Labels] /\ todo \in [Procs -> SUBSET Ids]
      /\ plan \in [Operators -> [Ids -> OptRow(Expectation)]]
  BY DEF Control, TypeOK, Procs
<1>1. ASSUME pc[q] = "r_rebuild", plan'[q] = plan[q], todo'[q] \subseteq todo[q]
      PROVE  todo'[q] \subseteq Planned(q)'
  BY <1>0, <1>1 DEF RepairsPlanned, Planned
<1>2. ASSUME NEW p \in Procs, Frame(p), p # q PROVE todo'[q] \subseteq Planned(q)'
  <2>1. pc'[q] = pc[q] /\ todo'[q] = todo[q] /\ plan'[q] = plan[q]
    BY <1>0, <1>2 DEF Frame
  <2> QED BY <1>1, <2>1
<1>3. ASSUME Finish(q) PROVE FALSE
  BY <1>0, <1>3 DEF Finish, Goto
<1>4. ASSUME \/ ReconcileDryRun(q) \/ ReconcileBegin(q) \/ ResetBegin(q) \/ ReconcileConflict(q)
             \/ ReconcileCommit(q) \/ ResetCascade(q) \/ ResetCommit(q)
             \/ \E i \in Ids : ReconcileLock(q, i) \/ ResetLock(q, i)
      PROVE  FALSE
  BY <1>0, <1>3, <1>4
     DEF ReconcileDryRun, ReconcileBegin, ResetBegin, ReconcileConflict, GiveUp, ReconcileCommit,
         ResetCascade, ResetCommit, ReconcileLock, ResetLock, Goto
<1>5. ASSUME ReconcileReport(q) PROVE todo'[q] \subseteq Planned(q)'
  <2>1. plan' = plan /\ (pc'[q] = "r_rebuild" => todo' = [todo EXCEPT ![q] = Planned(q)])
    BY <1>0, <1>5 DEF ReconcileReport, Goto
  <2> QED BY <1>0, <2>1 DEF Planned
<1>6. ASSUME NEW i \in Ids, ReconcileRebuild(q, i) PROVE todo'[q] \subseteq Planned(q)'
  <2>1. pc[q] = "r_rebuild" /\ plan' = plan /\ todo'[q] = todo[q] \ {i}
    BY <1>0, <1>6 DEF ReconcileRebuild
  <2> QED BY <1>1, <2>1
<1>7. CASE ByHand
  BY <1>1, <1>7 DEF ByHand, Withdraw, AddLesson, LoseProjection, SkewProjection, Ambient
<1>8. ASSUME NEW p \in Requests, Call(p) \/ RequestStep(p) PROVE Frame(p) /\ p # q /\ p \in Procs
  BY <1>0, <1>8, RequestFrame, BoundAssumption DEF Procs
<1>9. ASSUME NEW p \in Operators \ {q}, Command(p) \/ CommandStep(p) PROVE Frame(p) /\ p \in Procs
  BY <1>0, <1>9, CommandFrame DEF Procs
<1>10. ASSUME NEW p \in Procs, Return(p) \/ GiveUp(p) PROVE Frame(p) /\ Finish(p)
  BY <1>0, <1>10, FinishFrame DEF Return, GiveUp
<1>11. CASE Command(q) \/ CommandStep(q)
  BY <1>4, <1>5, <1>6, <1>11 DEF Command, CommandStep
<1> QED BY <1>2, <1>3, <1>7, <1>8, <1>9, <1>10, <1>11, Movers

LEMMA WaitingStep ==
    ASSUME Control, Locking, Rows, Rows', Waiting, Next
    PROVE  Waiting'
<1>1. InsertsAlone'
  BY InsertAloneStep DEF Waiting, InsertsAlone
<1>2. RepairsPlanned'
  BY RepairsPlannedStep DEF Waiting, RepairsPlanned
<1> QED BY <1>1, <1>2 DEF Waiting

LEMMA WaitingInit ==
    ASSUME Init
    PROVE  Waiting
BY DEF Init, Waiting, InsertsAlone, InsertAlone, RepairsPlanned, Procs

LEMMA WaitingStutter ==
    ASSUME Waiting, UNCHANGED vars
    PROVE  Waiting'
BY DEF Waiting, InsertsAlone, InsertAlone, RepairsPlanned, Rebuilt, Planned, vars, db, txn

(* What each statement of a request waits for, among requests: always one   *)
(* further on in the order insert, projection, row lock, row held.          *)
LEMMA WaitsFurther ==
    ASSUME Control, Locking, Rows, InsertsAlone, NEW p \in Requests,
           NEW q \in Requests, q \in WaitsFor(p)
    PROVE  \/ pc[p] = "e_insert" /\ pc[q] \in {"e_select", "e_project", "e_fk", "e_commit", "c_commit"}
           \/ pc[p] = "e_project" /\ pc[q] \in {"e_fk", "e_commit", "c_status", "c_commit"}
           \/ pc[p] \in {"e_fk", "c_lock"} /\ pc[q] \in LockedLabels \cup {"e_commit"}
<1>0. /\ TypeOK /\ q \notin Operators /\ p \in Procs /\ q \in Procs
      /\ RequestControl(p) /\ RequestControl(q) /\ RequestLocks(p) /\ RequestLocks(q)
      /\ PendingEnroll(q) /\ PendingWrites(q) /\ InsertAlone(q)
  BY BoundAssumption DEF Control, Procs, Locking, Rows, InsertsAlone
<1>1. CASE pc[p] = "e_insert"
  <2>1. WaitsFor(p) = (Inserting(arg[p].member, arg[p].course) \ {p}) \cup
                      UNION {RowWriters(id) : id \in Enrolled(arg[p].member, arg[p].course)}
    BY <1>1 DEF WaitsFor
  <2>2. CASE q \in Inserting(arg[p].member, arg[p].course)
    BY <1>0, <1>1, <2>2 DEF Inserting, PendingEnroll, EnrollLabels
  <2>3. ASSUME NEW id, q \in RowWriters(id) PROVE pc[q] = "c_commit"
    BY <1>0, <2>3 DEF RowWriters, PendingWrites
  <2> QED BY <1>1, <2>1, <2>2, <2>3
<1>2. CASE pc[p] = "e_project"
  <2>1. WaitsFor(p) = ProjWriters(arg[p].id) \ {p}
    BY <1>2 DEF WaitsFor
  <2> QED BY <1>0, <1>2, <2>1 DEF ProjWriters, PendingWrites
<1>3. CASE pc[p] = "e_fk"
  <2>1. WaitsFor(p) = Excluders(p, arg[p].id)
    BY <1>3 DEF WaitsFor
  <2> QED BY <1>0, <1>3, <2>1 DEF Excluders, RequestLocks
<1>4. CASE pc[p] = "c_lock"
  <2>1. WaitsFor(p) = Lockers(p, arg[p].id)
    BY <1>4 DEF WaitsFor
  <2> QED BY <1>0, <1>4, <2>1 DEF Excluders, Lockers, RequestLocks
<1>5. ASSUME pc[p] = "c_project" PROVE FALSE
  <2>1. WaitsFor(p) = IF proj[arg[p].id] = NoRow THEN {} ELSE ProjWriters(arg[p].id) \ {p}
    BY <1>5 DEF WaitsFor
  <2>2. proj[arg[p].id] # NoRow /\ q # p /\ wr[q].proj # NoRow /\ arg[q].id = arg[p].id
    BY <1>0, <2>1 DEF ProjWriters
  <2>3. pc[q] \in {"e_fk", "e_commit", "c_status", "c_commit"}
    BY <1>0, <2>2 DEF PendingWrites
  <2>4. CASE pc[q] \in {"e_fk", "e_commit"}
    BY <1>0, <2>2, <2>4 DEF InsertAlone
  <2>5. CASE pc[q] \in {"c_status", "c_commit"}
    <3>1. held[p] = {arg[p].id} /\ held[q] = {arg[p].id}
      BY <1>0, <1>5, <2>2, <2>5 DEF RequestLocks, LockedLabels
    <3> QED BY <1>0, <2>2, <3>1 DEF Locking, Exclusion
  <2> QED BY <2>3, <2>4, <2>5
<1>6. ASSUME pc[p] = "c_insert" PROVE FALSE
  <2>1. WaitsFor(p) = EventWriters(arg[p].id, arg[p].lesson) \ {p}
    BY <1>6 DEF WaitsFor
  <2>2. q # p /\ wr[q].evt /\ arg[q].id = arg[p].id
    BY <2>1 DEF EventWriters
  <2>3. pc[q] \in {"c_project", "c_status", "c_commit"}
    BY <1>0, <2>2 DEF PendingWrites
  <2>4. held[p] = {arg[p].id} /\ held[q] = {arg[p].id}
    BY <1>0, <1>6, <2>2, <2>3 DEF RequestLocks, LockedLabels
  <2> QED BY <1>0, <2>2, <2>4 DEF Locking, Exclusion
<1>7. ASSUME pc[p] \in RequestLabels \ {"e_insert", "e_project", "e_fk", "c_lock", "c_insert", "c_project"}
      PROVE  FALSE
  <2>1. WaitsFor(p) = {}
    BY <1>7 DEF WaitsFor, RequestLabels, EnrollLabels, LockedLabels, LoadLabels
  <2> QED BY <2>1
<1> QED BY <1>0, <1>1, <1>2, <1>3, <1>4, <1>5, <1>6, <1>7 DEF RequestControl

LEMMA NoRequestCycle ==
    ASSUME Control, Locking, Rows, InsertsAlone
    PROVE  \A ps \in SUBSET Requests : ~ WaitCycle(ps)
<1> SUFFICES ASSUME NEW ps \in SUBSET Requests, WaitCycle(ps) PROVE FALSE
  OBVIOUS
<1>0. ASSUME NEW p \in ps
      PROVE  \E q \in ps : q \in Requests /\ p \in Requests /\ q \in WaitsFor(p)
  BY DEF WaitCycle
<1>1. ASSUME NEW p \in ps PROVE pc[p] \in {"e_insert", "e_project", "e_fk", "c_lock"}
  BY <1>0, WaitsFurther
<1>2. ASSUME NEW p \in ps PROVE pc[p] \notin {"e_fk", "c_lock"}
  <2>1. PICK q \in ps : q \in Requests /\ p \in Requests /\ q \in WaitsFor(p)
    BY <1>0
  <2>2. ASSUME pc[p] \in {"e_fk", "c_lock"} PROVE pc[q] \in LockedLabels \cup {"e_commit"}
    BY <2>1, <2>2, WaitsFurther
  <2>3. pc[q] \notin LockedLabels \cup {"e_commit"}
    BY <1>1 DEF LockedLabels
  <2> QED BY <2>2, <2>3
<1>3. ASSUME NEW p \in ps PROVE pc[p] # "e_project"
  <2>1. PICK q \in ps : q \in Requests /\ p \in Requests /\ q \in WaitsFor(p)
    BY <1>0
  <2>2. ASSUME pc[p] = "e_project" PROVE pc[q] \in {"e_fk", "e_commit", "c_status", "c_commit"}
    BY <2>1, <2>2, WaitsFurther
  <2>3. pc[q] \in {"e_insert", "e_project"}
    BY <1>1, <1>2
  <2> QED BY <2>2, <2>3
<1>4. ASSUME NEW p \in ps PROVE FALSE
  <2>1. PICK q \in ps : q \in Requests /\ p \in Requests /\ q \in WaitsFor(p)
    BY <1>0
  <2>2. pc[p] = "e_insert" /\ pc[q] = "e_insert"
    BY <1>1, <1>2, <1>3
  <2> QED BY <2>1, <2>2, WaitsFurther
<1> QED BY <1>4 DEF WaitCycle

(* The rows an operator has written and not committed are rows it has       *)
(* locked.                                                                  *)
LEMMA WritersHold ==
    ASSUME Locking, NEW z \in Operators, NEW id, id \in Rebuilt(z) \/ z \in ProjWriters(id)
    PROVE  id \in held[z]
<1>1. OperatorLocks(z) /\ z \notin Requests
  BY BoundAssumption DEF Locking
<1>2. id \in Rebuilt(z) \/ (pc[z] = "z_commit" /\ id \in held[z])
  BY <1>1 DEF ProjWriters
<1>3. ASSUME id \in Rebuilt(z) PROVE id \in held[z]
  BY <1>1, <1>3 DEF Rebuilt, OperatorLocks
<1> QED BY <1>2, <1>3

(* A request that has its row lock, or its foreign key checked, waits for   *)
(* nobody.                                                                  *)
LEMMA LockedWaits ==
    ASSUME Control, Locking, Rows, InsertsAlone, NEW p \in Requests,
           pc[p] \in LockedLabels \cup {"e_commit"}
    PROVE  WaitsFor(p) = {}
<1>1. CASE pc[p] = "c_project"
  <2>1. WaitsFor(p) = IF proj[arg[p].id] = NoRow THEN {} ELSE ProjWriters(arg[p].id) \ {p}
    BY <1>1 DEF WaitsFor
  <2>2. held[p] = {arg[p].id} /\ p \in Procs
    BY <1>1 DEF Locking, RequestLocks, LockedLabels, Procs
  <2>3. ASSUME NEW q \in Requests PROVE q \notin WaitsFor(p)
    BY <1>1, <2>3, WaitsFurther
  <2>4. ASSUME NEW q \in Operators PROVE q \notin ProjWriters(arg[p].id)
    <3>1. q # p /\ q \in Procs
      BY BoundAssumption DEF Procs
    <3>2. arg[p].id \notin held[q]
      BY <2>2, <3>1 DEF Locking, Exclusion
    <3> QED BY <3>2, WritersHold
  <2> QED BY <2>1, <2>3, <2>4 DEF ProjWriters
<1>2. CASE pc[p] = "c_insert"
  <2>1. WaitsFor(p) \subseteq Requests
    BY <1>2 DEF WaitsFor, EventWriters
  <2>2. ASSUME NEW q \in Requests PROVE q \notin WaitsFor(p)
    BY <1>2, <2>2, WaitsFurther
  <2> QED BY <2>1, <2>2
<1>3. CASE pc[p] \notin {"c_insert", "c_project"}
  BY <1>3 DEF WaitsFor, LockedLabels
<1> QED BY <1>1, <1>2, <1>3

(* What an operator waits for is another operator, or a request that waits  *)
(* for nobody, or an Enroll inserting the projection of a locked row.       *)
LEMMA OperatorWaits ==
    ASSUME Control, Locking, Rows, Waiting, EnrollmentsProjected,
           NEW z \in Operators, NEW q \in WaitsFor(z)
    PROVE  q # z /\ q \in Procs /\ (q \in Requests => pc[q] \in LockedLabels \cup {"e_commit"})
<1>0. z \notin Requests /\ z \in Procs /\ pc[z] \in OperatorLabels
  BY BoundAssumption DEF Control, OperatorControl, Procs
<1>1. CASE pc[z] \in {"r_lock", "z_lock"}
  <2>1. PICK id : q \in Lockers(z, id)
    BY <1>1 DEF WaitsFor
  <2>2. ASSUME q \in Requests PROVE RequestLocks(q)
    BY <2>2 DEF Locking
  <2> QED BY <1>0, <2>1, <2>2 DEF Lockers, Excluders, RequestLocks, Procs
<1>2. CASE pc[z] = "r_rebuild"
  <2>1. PICK id \in todo[z] : q \in ProjWriters(id)
    BY <1>2 DEF WaitsFor
  <2>2. id \in Planned(z) /\ id \in held[z] /\ enr[id] # NoRow /\ proj[id] # NoRow
    <3>1. id \in Planned(z) /\ id \in held[z]
      BY <1>2, <2>1 DEF Waiting, RepairsPlanned, Locking, OperatorLocks
    <3>2. id \in Ids /\ enr[id] # NoRow
      BY <1>0, <3>1 DEF Locking, LockedRowsExist, Planned
    <3> QED BY <3>1, <3>2 DEF EnrollmentsProjected
  <2>3. q # z
    BY <1>0, <1>2, <2>1 DEF ProjWriters, Rebuilt
  <2>4. ASSUME q \in Requests PROVE pc[q] \in LockedLabels
    <3>1. wr[q].proj # NoRow /\ arg[q].id = id /\ PendingWrites(q) /\ InsertAlone(q)
      BY <2>1, <2>4, BoundAssumption DEF ProjWriters, Rows, Waiting, InsertsAlone
    <3>2. pc[q] \in {"e_fk", "e_commit", "c_status", "c_commit"}
      BY <3>1 DEF PendingWrites
    <3>3. pc[q] \notin {"e_fk", "e_commit"}
      BY <2>2, <3>1 DEF InsertAlone
    <3> QED BY <3>2, <3>3 DEF LockedLabels
  <2>5. q \in Procs
    BY <2>1 DEF ProjWriters, Procs
  <2> QED BY <2>3, <2>4, <2>5
<1>3. CASE pc[z] \in {"idle", "replied", "z_commit"}
  BY <1>3 DEF WaitsFor
<1> QED BY <1>0, <1>1, <1>2, <1>3 DEF OperatorLabels

LEMMA CyclesNeedCommands ==
    ASSUME Control, Locking, Rows, Waiting
    PROVE  DeadlockNeedsCommands
<1> SUFFICES ASSUME NEW ps \in SUBSET Procs, WaitCycle(ps)
             PROVE  /\ ps \cap Operators # {}
                    /\ EnrollmentsProjected => \E p, q \in ps \cap Operators : p # q
  BY DEF DeadlockNeedsCommands, EnrollmentsProjected
<1>1. PICK z \in Operators : z \in ps
  <2>1. ASSUME ps \cap Operators = {} PROVE FALSE
    <3>1. ps \in SUBSET Requests
      BY <2>1 DEF Procs
    <3> QED BY <3>1, NoRequestCycle DEF Waiting
  <2> QED BY <2>1
<1>2. ASSUME EnrollmentsProjected PROVE \E p, q \in ps \cap Operators : p # q
  <2>1. PICK q \in ps : q \in WaitsFor(z)
    BY <1>1 DEF WaitCycle
  <2>2. q # z /\ q \in Procs /\ (q \in Requests => pc[q] \in LockedLabels \cup {"e_commit"})
    BY <1>1, <1>2, <2>1, OperatorWaits
  <2>3. q \notin Requests
    <3>1. WaitsFor(q) # {}
      BY <2>1 DEF WaitCycle
    <3> QED BY <2>2, <3>1, LockedWaits DEF Waiting
  <2>4. q \in Operators
    BY <2>2, <2>3 DEF Procs
  <2> QED BY <1>1, <2>1, <2>2, <2>4
<1> QED BY <1>1, <1>2

----------------------------------------------------------------------------
(* The inductive invariant: its first three layers *)

Core == Control /\ Locking /\ Rows

LEMMA CoreInit ==
    ASSUME Init
    PROVE  Core
<1>1. TypeOK
  <2>1. NoArg \in Arg /\ NoWrites \in Writes /\ NoReply \in Reply
    BY DEF NoArg, Arg, NoWrites, Writes, NoReply, Reply, OptRow
  <2>2. NoPlan \in [Ids -> OptRow(Expectation)]
    BY DEF NoPlan, OptRow
  <2> QED BY <2>1, <2>2, DataAssumption, BoundAssumption DEF Init, TypeOK, OptRow, Labels
<1>2. ASSUME NEW p \in Requests PROVE RequestControl(p) /\ RequestLocks(p)
  <2>1. /\ p \in Procs /\ pc[p] = "idle" /\ arg[p] = NoArg /\ wr[p] = NoWrites
        /\ held[p] = {} /\ todo[p] = {} /\ shared[p] = {}
    BY DEF Init, Procs
  <2> QED BY <2>1 DEF RequestControl, RequestLocks, RequestLabels, EnrollLabels, LockedLabels,
                      NoWrites
<1>3. ASSUME NEW p \in Operators PROVE OperatorControl(p) /\ OperatorLocks(p)
  <2>1. p \in Procs /\ pc[p] = "idle" /\ held[p] = {} /\ todo[p] = {}
    BY DEF Init, Procs
  <2> QED BY <2>1 DEF OperatorControl, OperatorLocks, OperatorLabels
<1>4. Control
  BY <1>1, <1>2, <1>3 DEF Control, Init
<1>5. Exclusion /\ LockedRowsExist
  BY DEF Exclusion, LockedRowsExist, Init, Procs
<1>6. \A p \in Requests : PendingEnroll(p) /\ PendingWrites(p)
  BY DEF Init, PendingEnroll, PendingWrites, NoWrites, Procs
<1>7. OneEnrollment
  BY DEF Init, OneEnrollment, Enrolled, Inserting, NoWrites
<1>8. NoOrphans
  BY DEF Init, NoOrphans, CompletedLessons
<1> QED BY <1>2, <1>3, <1>4, <1>5, <1>6, <1>7, <1>8 DEF Core, Locking, Rows

LEMMA CoreStutter ==
    ASSUME Core, UNCHANGED vars
    PROVE  Core'
<1>1. Control'
  BY ControlStutter DEF Core
<1> USE DEF vars, db, txn
<1>2. ASSUME NEW p \in Requests PROVE RequestLocks(p)' /\ PendingEnroll(p)' /\ PendingWrites(p)'
  <2>1. RequestLocks(p) /\ PendingEnroll(p) /\ PendingWrites(p)
    BY DEF Core, Locking, Rows
  <2> QED BY <2>1 DEF RequestLocks, PendingEnroll, PendingWrites
<1>3. ASSUME NEW p \in Operators PROVE OperatorLocks(p)'
  <2>1. OperatorLocks(p)
    BY DEF Core, Locking
  <2> QED BY <2>1 DEF OperatorLocks, Planned
<1>4. Exclusion' /\ LockedRowsExist'
  BY DEF Core, Locking, Exclusion, LockedRowsExist
<1>5. OneEnrollment' /\ NoOrphans'
  BY DEF Core, Rows, OneEnrollment, NoOrphans, Enrolled, Inserting, CompletedLessons
<1> QED BY <1>1, <1>2, <1>3, <1>4, <1>5 DEF Core, Locking, Rows

LEMMA CoreStep ==
    ASSUME Core, [Next]_vars
    PROVE  Core'
BY CoreStutter, ControlStep, LockingStep, RowsStep DEF Core

----------------------------------------------------------------------------
(* The inductive invariant *)

LEMMA InvInit ==
    ASSUME Init
    PROVE  IInv
<1>1. Core
  BY CoreInit
<1>2. \A p \in Procs : pc[p] = "idle"
  BY DEF Init
<1>3. Withdrawal
  BY <1>2 DEF Withdrawal, CompletesActive, PlanCurrent, LockedNotStale, LockedLabels, Procs
<1>4. Projected
  <2>1. EnrollmentsProjected
    BY DEF Init, EnrollmentsProjected
  <2>2. EnrollProjects /\ CompleteProjects /\ PlanExact
    BY <1>2 DEF EnrollProjects, CompleteProjects, PlanExact, EnrollLabels, Procs
  <2> QED BY <2>1, <2>2 DEF Projected
<1>5. ProjectionFaithful
  BY DEF Init, ProjectionFaithful
<1> QED BY <1>1, <1>3, <1>4, <1>5 DEF IInv, Core, Projecting

LEMMA InvStutter ==
    ASSUME IInv, UNCHANGED vars
    PROVE  IInv'
<1>1. Core'
  BY CoreStutter DEF IInv, Core
<1> USE DEF vars, db, txn
<1>2. Withdrawal'
  BY DEF IInv, Withdrawal, CompletesActive, PlanCurrent, LockedNotStale, Planned, DerivedStatus
<1>3. ProjectionFaithful'
  BY DEF IInv, Projecting, ProjectionFaithful, CompletedLessons, DerivedStatus
<1>4. Projected'
  <2>1. ASSUME Unlost PROVE EnrollmentsProjected' /\ EnrollProjects'
    BY <2>1 DEF IInv, Projecting, Projected, EnrollmentsProjected, EnrollProjects
  <2>2. ASSUME Unlost PROVE CompleteProjects'
    BY <2>2 DEF IInv, Projecting, Projected, CompleteProjects, SeenLessons, CompletedLessons,
                DerivedStatus
  <2>3. ASSUME Unlost PROVE PlanExact'
    BY <2>3 DEF IInv, Projecting, Projected, PlanExact, Planned, CompletedLessons
  <2> QED BY <2>1, <2>2, <2>3 DEF Projected, Unlost
<1> QED BY <1>1, <1>2, <1>3, <1>4 DEF IInv, Core, Projecting

LEMMA InvStep ==
    ASSUME IInv, [Next]_vars
    PROVE  IInv'
<1>1. ASSUME Next PROVE IInv'
  <2>1. Control' /\ Locking' /\ Rows'
    BY <1>1, ControlStep, LockingStep, RowsStep DEF IInv
  <2>2. Withdrawal'
    BY <1>1, <2>1, WithdrawalStep DEF IInv
  <2>3. Projected' /\ ProjectionFaithful'
    BY <1>1, <2>1, ProjectedStep, ProjectionFaithfulStep DEF IInv, Projecting
  <2> QED BY <2>1, <2>2, <2>3 DEF IInv, Projecting
<1> QED BY <1>1, InvStutter

(* The inductive invariant holds: each control point's locks, pending rows  *)
(* and plans are what the code that follows it relies on.                   *)
THEOREM Invariance == Spec => []IInv
BY InvInit, InvStep, PTL DEF Spec

----------------------------------------------------------------------------
(* Layers 6 to 9 rest on the first five *)

LEMMA DerivedInit ==
    ASSUME Init
    PROVE  Derived
BY PlacingInit, TotalsInit, AnsweringInit, WaitingInit DEF Derived

LEMMA DerivedStep ==
    ASSUME IInv, IInv', Derived, [Next]_vars
    PROVE  Derived'
<1>1. CASE UNCHANGED vars
  BY <1>1, PlacingStutter, TotalsStutter, AnsweringStutter, WaitingStutter DEF Derived
<1>2. CASE Next
  <2>1. /\ Control /\ Locking /\ Rows /\ Withdrawal /\ Projecting
        /\ Control' /\ Locking' /\ Rows' /\ Placing /\ Totals /\ Answering /\ Waiting
    BY DEF IInv, Derived
  <2>2. Placing'
    BY <1>2, <2>1, PlacingStep
  <2>3. Totals'
    BY <1>2, <2>1, TotalsStep
  <2>4. Answering'
    BY <1>2, <2>1, AnsweringStep
  <2>5. Waiting'
    BY <1>2, <2>1, WaitingStep
  <2> QED BY <2>2, <2>3, <2>4, <2>5 DEF Derived
<1> QED BY <1>1, <1>2

(* The later layers hold too: completions stay within their course, totals  *)
(* within its lessons, answers behind the events, an insert of a projection *)
(* row is alone, and a repair rewrites what it has locked.                  *)
THEOREM DerivedInvariance == Spec => [](IInv /\ Derived)
<1>1. Init => Derived
  BY DerivedInit
<1>2. IInv /\ IInv' /\ Derived /\ [Next]_vars => Derived'
  BY DerivedStep
<1> QED BY <1>1, <1>2, Invariance, PTL DEF Spec
----------------------------------------------------------------------------
(* What it gives *)

(* Every table, transaction and reply keeps its type, whatever interleaves. *)
THEOREM TypeCorrect == Spec => []TypeOK
<1>1. IInv => TypeOK
  BY DEF IInv, Control
<1> QED BY <1>1, Invariance, PTL

(* A member has at most one enrollment in a course, and at most one Enroll  *)
(* at a time is about to create it.                                         *)
THEOREM EnrollmentUnique == Spec => []OneEnrollment
<1>1. IInv => OneEnrollment
  BY DEF IInv, Rows
<1> QED BY <1>1, Invariance, PTL

(* No event and no projection row outlives the enrollment a Reset deletes.  *)
THEOREM NothingOutlives == Spec => []NoOrphans
<1>1. IInv => NoOrphans
  BY DEF IInv, Rows
<1> QED BY <1>1, Invariance, PTL

(* One caller at most is told that it recorded a completion.                *)
THEOREM CompletionRecordedOnce == Spec => []RecordedOnce
<1>1. ASSUME IInv PROVE RecordedOnce
  <2>1. ASSUME NEW p \in Requests, wr[p].evt
        PROVE  /\ <<arg[p].id, arg[p].lesson>> \notin events
               /\ held[p] = {arg[p].id} /\ p \in Procs
    <3>1. PendingWrites(p) /\ RequestLocks(p)
      BY <1>1 DEF IInv, Rows, Locking
    <3> QED BY <2>1, <3>1 DEF PendingWrites, RequestLocks, LockedLabels, Procs
  <2>2. ASSUME NEW p \in Requests, NEW q \in Requests \ {p}, wr[p].evt, wr[q].evt
        PROVE  arg[q].id # arg[p].id
    <3>1. held[p] \cap held[q] = {}
      BY <1>1, <2>1, <2>2 DEF IInv, Locking, Exclusion
    <3> QED BY <2>1, <2>2, <3>1
  <2> QED BY <2>1, <2>2 DEF RecordedOnce
<1> QED BY <1>1, Invariance, PTL

(* Nobody having touched projection rows by hand, every projection counts   *)
(* its enrollment's events, whatever enrolls, completes, repairs or resets. *)
THEOREM ProjectionCounts == Spec => []ProjectionFaithful
<1>1. IInv => ProjectionFaithful
  BY DEF IInv, Projecting
<1> QED BY <1>1, Invariance, PTL

(* No completion and no reconciliation in flight reactivates a withdrawn    *)
(* enrollment: only a reset ends it.                                        *)
THEOREM WithdrawalKept == Spec => WithdrawnStays
<1>1. ASSUME IInv, [Next]_vars
      PROVE  [\A id \in Ids : enr[id] # NoRow /\ enr[id].status = "withdrawn" =>
                 enr'[id] \in {NoRow, enr[id]}]_vars
  <2>1. ASSUME Next, NEW id \in Ids, enr[id] # NoRow, enr[id].status = "withdrawn"
        PROVE  enr'[id] \in {NoRow, enr[id]}
    BY <1>1, <2>1, WithdrawnKept DEF IInv
  <2> QED BY <1>1, <2>1
<1> QED BY <1>1, Invariance, PTL DEF Spec, WithdrawnStays

LEMMA OnlyCommitReplies ==
    ASSUME Control, Next, NEW q \in Operators, pc[q] = "r_rebuild", pc'[q] = "replied"
    PROVE  ReconcileCommit(q)
<1>0. TypeOK /\ q \in Procs /\ pc \in [Procs -> Labels]
  BY DEF Control, TypeOK, Procs
<1>1. ASSUME NEW p \in Procs, Frame(p), p # q PROVE FALSE
  BY <1>0, <1>1 DEF Frame
<1>2. ASSUME Finish(q) PROVE FALSE
  BY <1>0, <1>2 DEF Finish, Goto
<1>3. ASSUME Command(q) \/ CommandStep(q), ~ ReconcileCommit(q) PROVE FALSE
  BY <1>0, <1>2, <1>3
     DEF Command, CommandStep, ReconcileDryRun, ReconcileBegin, ResetBegin, ReconcileLock,
         ReconcileRebuild, ReconcileConflict, ReconcileReport, ResetLock, ResetCascade,
         ResetCommit, GiveUp
<1>4. CASE ByHand
  BY <1>4 DEF ByHand, Withdraw, AddLesson, LoseProjection, SkewProjection, Ambient
<1>5. ASSUME NEW p \in Requests, Call(p) \/ RequestStep(p) PROVE Frame(p) /\ p # q /\ p \in Procs
  BY <1>0, <1>5, RequestFrame, BoundAssumption DEF Procs
<1>6. ASSUME NEW p \in Operators \ {q}, Command(p) \/ CommandStep(p) PROVE Frame(p) /\ p \in Procs
  BY <1>0, <1>6, CommandFrame DEF Procs
<1>7. ASSUME NEW p \in Procs, Return(p) \/ GiveUp(p) PROVE Frame(p) /\ Finish(p)
  BY <1>0, <1>7, FinishFrame DEF Return, GiveUp
<1> QED BY <1>1, <1>2, <1>3, <1>4, <1>5, <1>6, <1>7, Movers

(* Where no projection row is ever lost by hand, a reconciliation that      *)
(* commits has counted the events of that moment, completions racing it or  *)
(* not.                                                                     *)
THEOREM RepairsAreExact ==
    ASSUME "lose" \notin FaultKinds
    PROVE  Spec => RepairExact
<1> DEFINE Right(p) ==
       pc[p] = "r_rebuild" /\ pc'[p] = "replied" =>
           \A id \in Planned(p) :
               /\ proj'[id].done = Cardinality(CompletedLessons(id))
               /\ enr'[id].status \in {"withdrawn", DerivedStatus(proj'[id])}
<1>1. ASSUME IInv, Next, NEW p \in Operators PROVE Right(p)
  <2> SUFFICES ASSUME pc[p] = "r_rebuild", pc'[p] = "replied", NEW id \in Planned(p)
               PROVE  /\ proj'[id].done = Cardinality(CompletedLessons(id))
                      /\ enr'[id].status \in {"withdrawn", DerivedStatus(proj'[id])}
    OBVIOUS
  <2>1. Control /\ Locking /\ Rows /\ Withdrawal /\ PlanExact /\ id \in Ids
    BY <1>1 DEF IInv, Projecting, Projected, Unlost, Planned
  <2>2. ReconcileCommit(p)
    BY <1>1, <2>1, OnlyCommitReplies
  <2>3. enr[id] # NoRow
    BY <2>1, <2>2, RepairKeeps
  <2>4. Exact(id)' /\ events' = events
    BY <2>1, <2>2, <2>3, ExactReconcile DEF ReconcileCommit
  <2> QED BY <2>4 DEF Exact, CompletedLessons, DerivedStatus
<1>2. ASSUME IInv, [Next]_vars PROVE [\A p \in Operators : Right(p)]_vars
  BY <1>1, <1>2
<1> QED BY <1>2, Invariance, PTL DEF Spec, RepairExact

(* In a sequential course nobody has completed a lesson ahead of one that   *)
(* was there from the start, however completions, resets and new lessons    *)
(* interleave.                                                              *)
THEOREM PrefixesClosed == Spec => []PrefixClosed
<1>1. Derived => PrefixClosed
  BY DEF Derived, Placing
<1> QED BY <1>1, DerivedInvariance, PTL

(* The check constraints of enrollment_progress reject no write of the      *)
(* store and no repair, even one planned before the course grew.            *)
THEOREM ConstraintsNeverFire == Spec => []ChecksNeverFire
<1>1. Derived => ChecksNeverFire
  BY DEF Derived, Totals
<1> QED BY <1>1, DerivedInvariance, PTL

(* What Reconcile reports was caused by a hand on a projection row or by a  *)
(* lesson added to the course, never by traffic alone.                      *)
THEOREM DriftIsReal == Spec => []NoFalseDrift
<1>1. IInv /\ Derived => NoFalseDrift
  <2> SUFFICES ASSUME IInv, Derived, NEW q \in Operators, Planned(q) # {}
               PROVE  faults > 0 \/ content # Original
    BY DEF NoFalseDrift
  <2>1. faults \in Nat /\ ~ Undisturbed
    BY BoundAssumption DEF IInv, Control, TypeOK, Derived, Totals, TotalsCurrent
  <2> QED BY <2>1 DEF Undisturbed
<1> QED BY <1>1, DerivedInvariance, PTL

(* A completion CompleteLesson answered with success is recorded, and in    *)
(* the answer, unless a reset has deleted its enrollment.                   *)
THEOREM CompletionsDurable == Spec => []CompletionDurable
<1>1. Derived => CompletionDurable
  BY DEF Derived, Answering
<1> QED BY <1>1, DerivedInvariance, PTL

(* A count loaded by loadEnrollmentProgress is never ahead of the lessons   *)
(* its second statement lists as completed.                                 *)
THEOREM CountsNeverAhead == Spec => []CountNeverAhead
<1>1. Derived => CountNeverAhead
  BY DEF Derived, Answering
<1> QED BY <1>1, DerivedInvariance, PTL

(* However many requests run, they never wait for each other in a circle,   *)
(* and a command waits for none that waits for it unless Enroll is          *)
(* inserting a projection row that was missing: the statements that wait    *)
(* take their locks and write their rows in one order.                      *)
THEOREM DeadlocksNeedCommands == Spec => []DeadlockNeedsCommands
<1>1. IInv /\ Derived => DeadlockNeedsCommands
  BY CyclesNeedCommands DEF IInv, Derived
<1> QED BY <1>1, DerivedInvariance, PTL

(* The committed tables implement the atomic log: every commit is one step  *)
(* of ProgressLog, and every other statement is none.                       *)
THEOREM LogImplemented == Spec => ImplementsLog
<1>1. Init => Log!LogInit
  BY LogStart
<1>2. IInv /\ Derived /\ [Next]_vars => [Log!LogNext]_<<LogTable, events, content, used>>
  BY LogStep DEF IInv, Derived
<1> QED BY <1>1, <1>2, DerivedInvariance, PTL
        DEF Spec, ImplementsLog, Log!LogSpec, LogTable, Log!logVars
=============================================================================
