------------------------- MODULE LearningStoreTypes -------------------------
(***************************************************************************)
(* Proofs about LearningStore, for every value of its constants.            *)
(***************************************************************************)
EXTENDS LearningStoreInv, FiniteSetTheorems, TLAPS

----------------------------------------------------------------------------
(* Types of the derived data and of the helpers every action is made of *)

(* The counts the SQL computes are numbers: they count lessons, which are   *)
(* finitely many.                                                           *)
LEMMA CountType ==
    ASSUME TypeOK
    PROVE  /\ \A id : Cardinality(CompletedLessons(id)) \in Nat
           /\ \A c : Cardinality(CourseLessons(c)) \in Nat
           /\ \A p : arg[p].lesson \in Lessons => Cardinality(SeenLessons(p)) \in Nat
<1>1. \A S : S \subseteq Lessons => Cardinality(S) \in Nat
  BY FS_Subset, FS_CardinalityType, DataAssumption
<1> QED BY <1>1, DataAssumption DEF TypeOK, CompletedLessons, CourseLessons, SeenLessons

LEMMA GotoType ==
    ASSUME TypeOK, NEW p \in Procs, NEW label \in Labels, Goto(p, label)
    PROVE  pc' \in [Procs -> Labels]
BY DEF TypeOK, Goto

LEMMA ReleaseType ==
    ASSUME TypeOK, NEW p \in Procs, Release(p)
    PROVE  /\ wr' \in [Requests -> Writes]
           /\ held' \in [Procs -> SUBSET Ids]
           /\ shared' \in [Requests -> SUBSET Ids]
<1>1. NoWrites \in Writes
  BY DEF NoWrites, Writes, OptRow
<1> QED BY <1>1 DEF TypeOK, Release

LEMMA TouchType ==
    ASSUME TypeOK, NEW rows \in SUBSET ({"enr", "proj"} \X Ids), Touch(rows)
    PROVE  stale' \in [Operators -> SUBSET ({"enr", "proj"} \X Ids)]
BY DEF TypeOK, Touch

LEMMA AdvanceType ==
    ASSUME TypeOK, NEW p \in Requests, NEW label \in Labels, Advance(p, label),
           arg' \in [Requests -> Arg], wr' \in [Requests -> Writes],
           held' \in [Procs -> SUBSET Ids], shared' \in [Requests -> SUBSET Ids]
    PROVE  TypeOK'
<1>1. p \in Procs /\ Goto(p, label)
  BY DEF Procs, Advance
<1>2. pc' \in [Procs -> Labels]
  BY <1>1, GotoType
<1> QED BY <1>2 DEF TypeOK, Advance, db

ReplyKinds == {"none", "ok", "not_found", "forbidden", "withdrawn",
               "out_of_order", "internal"}

LEMMA RefuseType ==
    ASSUME TypeOK, NEW p \in Requests, NEW kind \in ReplyKinds, Refuse(p, kind)
    PROVE  TypeOK'
<1>1. p \in Procs /\ Goto(p, "replied") /\ "replied" \in Labels /\ Release(p)
  BY DEF Procs, Refuse, Labels
<1>2. pc' \in [Procs -> Labels]
  BY <1>1, GotoType
<1>3. /\ wr' \in [Requests -> Writes]
      /\ held' \in [Procs -> SUBSET Ids] /\ shared' \in [Requests -> SUBSET Ids]
  BY <1>1, ReleaseType
<1>4. [NoReply EXCEPT !.kind = kind] \in Reply
  BY DEF NoReply, Reply, ReplyKinds
<1>5. out' \in [Requests -> Reply]
  BY <1>4 DEF TypeOK, Refuse
<1> QED BY <1>2, <1>3, <1>5 DEF TypeOK, Refuse, db

LEMMA FinishType ==
    ASSUME TypeOK, NEW p \in Procs, Finish(p),
           wr' \in [Requests -> Writes],
           held' \in [Procs -> SUBSET Ids], shared' \in [Requests -> SUBSET Ids]
    PROVE  TypeOK'
<1>1. pc' \in [Procs -> Labels]
  BY GotoType DEF Finish, Labels
<1>2. arg' \in [Requests -> Arg]
  <2>1. NoArg \in Arg
    BY DEF NoArg, Arg, OptRow
  <2> QED BY <2>1 DEF Finish, TypeOK
<1>3. out' \in [Requests -> Reply]
  <2>1. NoReply \in Reply
    BY DEF NoReply, Reply
  <2> QED BY <2>1 DEF Finish, TypeOK
<1>4. head' \in [Requests -> OptRow(HeadRow)]
  BY DEF Finish, TypeOK, OptRow
<1>5. plan' \in [Operators -> [Ids -> OptRow(Expectation)]]
  <2>1. NoPlan \in [Ids -> OptRow(Expectation)]
    BY DEF NoPlan, OptRow
  <2> QED BY <2>1 DEF Finish, TypeOK
<1>6. /\ stale' \in [Operators -> SUBSET ({"enr", "proj"} \X Ids)]
      /\ todo' \in [Procs -> SUBSET Ids]
  BY DEF Finish, TypeOK
<1> QED BY <1>1, <1>2, <1>3, <1>4, <1>5, <1>6 DEF TypeOK, Finish, db

LEMMA GiveUpType ==
    ASSUME TypeOK, NEW p \in Procs, GiveUp(p)
    PROVE  TypeOK'
BY ReleaseType, FinishType DEF GiveUp

(* What expectedSQL returns has the types of its columns. *)
LEMMA ReportType ==
    ASSUME TypeOK
    PROVE  ReportNow \in [Ids -> OptRow(Expectation)]
<1>1. ASSUME NEW id \in Ids, enr[id] # NoRow
      PROVE  Expected(id) \in Expectation
  BY <1>1, CountType DEF Expected, Expectation, DerivedStatus, Statuses
<1> QED BY <1>1 DEF ReportNow, Drifted, OptRow

----------------------------------------------------------------------------
(* Every action keeps the types *)

LEMMA BeginType ==
    ASSUME TypeOK, NEW p \in Requests, Call(p)
    PROVE  TypeOK'
<1>1. ASSUME NEW m \in Members, NEW c \in Courses, EnrollBegin(p, m, c)
      PROVE  TypeOK'
  <2>1. CASE c \in Published
    <3>1. [NoArg EXCEPT !.op = "enroll", !.member = m, !.course = c,
              !.total = Cardinality(CourseLessons(c))] \in Arg
      BY CountType DEF NoArg, Arg, OptRow
    <3>2. arg' \in [Requests -> Arg] /\ Advance(p, "e_insert") /\ UNCHANGED txn
      BY <1>1, <2>1, <3>1 DEF EnrollBegin, TypeOK
    <3> QED BY <3>2, AdvanceType DEF TypeOK, txn, Labels
  <2>2. CASE c \notin Published
    BY <1>1, <2>2, RefuseType DEF EnrollBegin, ReplyKinds
  <2> QED BY <2>1, <2>2
<1>2. ASSUME NEW m \in Members, NEW id \in Ids, NEW l \in Lessons,
             CompleteBegin(p, m, id, l)
      PROVE  TypeOK'
  <2>1. [NoArg EXCEPT !.op = "complete", !.member = m, !.id = id, !.lesson = l] \in Arg
    BY DEF NoArg, Arg, OptRow
  <2>2. arg' \in [Requests -> Arg] /\ Advance(p, "c_lock") /\ UNCHANGED txn
    BY <1>2, <2>1 DEF CompleteBegin, TypeOK
  <2> QED BY <2>2, AdvanceType DEF TypeOK, txn, Labels
<1>3. ASSUME NEW m \in Members, DashboardBegin(p, m)
      PROVE  TypeOK'
  <2>1. p \in Procs /\ pc' \in [Procs -> Labels]
    BY <1>3 DEF DashboardBegin, TypeOK, Goto, Procs, Labels
  <2>2. [NoArg EXCEPT !.op = "dashboard", !.member = m] \in Arg
    BY DEF NoArg, Arg, OptRow
  <2>3. arg' \in [Requests -> Arg]
    BY <1>3, <2>2 DEF DashboardBegin, TypeOK
  <2>4. out' \in [Requests -> Reply]
    <3>1. [out[p] EXCEPT !.kind = "ok"] \in Reply
      BY DEF TypeOK, Reply
    <3> QED BY <1>3, <3>1 DEF DashboardBegin, TypeOK
  <2>5. todo' \in [Procs -> SUBSET Ids]
    BY <1>3, <2>1 DEF DashboardBegin, TypeOK
  <2> QED BY <1>3, <2>1, <2>3, <2>4, <2>5 DEF DashboardBegin, TypeOK, db, txn
<1> QED BY <1>1, <1>2, <1>3 DEF Call

LEMMA EnrollType ==
    ASSUME TypeOK, NEW p \in Requests, RequestControl(p),
           \/ EnrollInsert(p) \/ EnrollSelect(p) \/ EnrollProject(p)
           \/ EnrollForeignKey(p) \/ EnrollCommit(p)
    PROVE  TypeOK'
<1>0. /\ p \in Procs /\ arg[p] \in Arg /\ wr[p] \in Writes
      /\ arg \in [Requests -> Arg] /\ wr \in [Requests -> Writes]
      /\ held \in [Procs -> SUBSET Ids] /\ shared \in [Requests -> SUBSET Ids]
  BY DEF TypeOK, Procs
<1>1. CASE EnrollInsert(p)
  <2>1. arg' \in [Requests -> Arg]
    <3>1. \A id \in Ids : [arg[p] EXCEPT !.id = id] \in Arg
      BY <1>0 DEF Arg, OptRow
    <3> QED BY <1>0, <1>1, <3>1 DEF EnrollInsert
  <2>2. wr' \in [Requests -> Writes]
    <3>1. [wr[p] EXCEPT !.enr = TRUE] \in Writes
      BY <1>0 DEF Writes
    <3> QED BY <1>0, <1>1, <3>1 DEF EnrollInsert
  <2> QED BY <1>0, <1>1, <2>1, <2>2, AdvanceType DEF EnrollInsert, Labels
<1>2. CASE EnrollSelect(p)
  <2>1. CASE Refuse(p, "internal")
    BY <2>1, RefuseType DEF ReplyKinds
  <2>2. CASE ~ Refuse(p, "internal")
    <3>1. PICK id \in Ids : arg' = [arg EXCEPT ![p].id = id]
      BY <1>0, <1>2, <2>2 DEF EnrollSelect, Enrolled, RequestControl
    <3>2. [arg[p] EXCEPT !.id = id] \in Arg
      BY <1>0 DEF Arg, OptRow
    <3>3. Advance(p, "e_project") /\ UNCHANGED txn
      BY <1>2, <2>2 DEF EnrollSelect
    <3> QED BY <1>0, <3>1, <3>2, <3>3, AdvanceType DEF txn, Labels
  <2> QED BY <2>1, <2>2
<1>3. CASE EnrollProject(p)
  <2>1. [wr[p] EXCEPT !.proj = [done |-> 0, total |-> arg[p].total]] \in Writes
    BY <1>0 DEF Writes, Arg, OptRow, Projection
  <2>2. wr' \in [Requests -> Writes]
    BY <1>0, <1>3, <2>1 DEF EnrollProject
  <2> QED BY <1>0, <1>3, <2>2, AdvanceType DEF EnrollProject, Labels
<1>4. CASE EnrollForeignKey(p)
  <2>1. CASE Refuse(p, "internal")
    BY <2>1, RefuseType DEF ReplyKinds
  <2>2. CASE ~ Refuse(p, "internal")
    <3>1. arg[p].id \in Ids
      BY <1>4 DEF EnrollForeignKey, RequestControl, TypeOK
    <3>2. /\ shared' \in [Requests -> SUBSET Ids]
          /\ Advance(p, "e_commit") /\ UNCHANGED <<arg, wr, held>>
      BY <1>0, <1>4, <2>2, <3>1 DEF EnrollForeignKey
    <3> QED BY <1>0, <3>2, AdvanceType DEF Labels
  <2> QED BY <2>1, <2>2
<1>5. CASE EnrollCommit(p)
  <2>1. arg[p].id \in Ids /\ arg[p].member \in Members /\ arg[p].course \in Courses
    BY <1>5, DataAssumption DEF EnrollCommit, RequestControl, EnrollLabels, TypeOK
  <2>2. enr' \in [Ids -> OptRow(Enrollment)]
    <3>1. [member |-> arg[p].member, course |-> arg[p].course, status |-> "active"]
             \in Enrollment
      BY <2>1 DEF Enrollment, Statuses
    <3>2. \/ enr' = enr
          \/ enr' = [enr EXCEPT ![arg[p].id] = [member |-> arg[p].member,
                       course |-> arg[p].course, status |-> "active"]]
      BY <1>5 DEF EnrollCommit
    <3> QED BY <3>1, <3>2 DEF TypeOK, OptRow
  <2>3. used' \subseteq Ids
    BY <1>5, <2>1 DEF EnrollCommit, TypeOK
  <2>4. /\ proj' \in [Ids -> OptRow(Projection)]
        /\ stale' \in [Operators -> SUBSET ({"enr", "proj"} \X Ids)]
    <3>1. CASE wr[p].proj # NoRow
      <4>1. wr[p].proj \in OptRow(Projection)
        BY <1>0 DEF Writes
      <4>2. proj' = [proj EXCEPT ![arg[p].id] = wr[p].proj]
            /\ Touch({<<"proj", arg[p].id>>})
        BY <1>5, <3>1 DEF EnrollCommit
      <4>3. {<<"proj", arg[p].id>>} \in SUBSET ({"enr", "proj"} \X Ids)
        BY <2>1
      <4> QED BY <4>1, <4>2, <4>3, TouchType DEF TypeOK
    <3>2. CASE wr[p].proj = NoRow
      BY <1>5, <3>2 DEF EnrollCommit, TypeOK
    <3> QED BY <3>1, <3>2
  <2>5. out' \in [Requests -> Reply]
    <3>1. [out[p] EXCEPT !.created = wr[p].enr] \in Reply
      BY <1>0 DEF TypeOK, Reply, Writes
    <3> QED BY <1>5, <3>1 DEF EnrollCommit, TypeOK
  <2>6. todo' \in [Procs -> SUBSET Ids] /\ pc' \in [Procs -> Labels]
    BY <1>0, <1>5, <2>1, GotoType DEF EnrollCommit, TypeOK, Labels
  <2>7. /\ wr' \in [Requests -> Writes]
        /\ held' \in [Procs -> SUBSET Ids] /\ shared' \in [Requests -> SUBSET Ids]
    BY <1>0, <1>5, ReleaseType DEF EnrollCommit
  <2> QED BY <1>5, <2>2, <2>3, <2>4, <2>5, <2>6, <2>7 DEF EnrollCommit, TypeOK
<1> QED BY <1>1, <1>2, <1>3, <1>4, <1>5

LEMMA CompleteType ==
    ASSUME TypeOK, NEW p \in Requests, RequestControl(p),
           pc[p] \in LockedLabels => enr[arg[p].id] # NoRow,
           \/ CompleteLock(p) \/ CompletePlace(p) \/ CompleteOrder(p)
           \/ CompleteInsert(p) \/ CompleteProject(p) \/ CompleteStatus(p)
           \/ CompleteCommit(p)
    PROVE  TypeOK'
<1>0. /\ p \in Procs /\ arg[p] \in Arg /\ wr[p] \in Writes
      /\ arg \in [Requests -> Arg] /\ wr \in [Requests -> Writes]
      /\ held \in [Procs -> SUBSET Ids] /\ shared \in [Requests -> SUBSET Ids]
  BY DEF TypeOK, Procs
<1>r. ASSUME NEW kind \in ReplyKinds, Refuse(p, kind) PROVE TypeOK'
  BY <1>r, RefuseType
<1>1. CASE CompleteLock(p)
  <2>1. arg[p].id \in Ids
    BY <1>1 DEF CompleteLock, RequestControl, TypeOK
  <2>2. \/ Refuse(p, "not_found") \/ Refuse(p, "forbidden") \/ Refuse(p, "withdrawn")
        \/ /\ enr[arg[p].id] # NoRow
           /\ held' = [held EXCEPT ![p] = {arg[p].id}]
           /\ arg' = [arg EXCEPT ![p].course = enr[arg[p].id].course]
           /\ Advance(p, "c_place")
           /\ UNCHANGED <<wr, shared>>
    BY <1>1 DEF CompleteLock
  <2>3. CASE /\ enr[arg[p].id] # NoRow
             /\ held' = [held EXCEPT ![p] = {arg[p].id}]
             /\ arg' = [arg EXCEPT ![p].course = enr[arg[p].id].course]
             /\ Advance(p, "c_place")
             /\ UNCHANGED <<wr, shared>>
    <3>1. enr[arg[p].id].course \in Courses
      BY <2>1, <2>3 DEF TypeOK, OptRow, Enrollment
    <3>2. [arg[p] EXCEPT !.course = enr[arg[p].id].course] \in Arg
      BY <1>0, <3>1 DEF Arg, OptRow
    <3>3. arg' \in [Requests -> Arg] /\ held' \in [Procs -> SUBSET Ids]
      BY <1>0, <2>1, <2>3, <3>2
    <3> QED BY <1>0, <2>3, <3>3, AdvanceType DEF Labels
  <2> QED BY <2>2, <2>3, <1>r DEF ReplyKinds
<1>2. CASE CompletePlace(p)
  <2>1. \/ Refuse(p, "not_found")
        \/ UNCHANGED <<arg, txn>> /\ (Advance(p, "c_order") \/ Advance(p, "c_insert"))
    BY <1>2 DEF CompletePlace
  <2> QED BY <1>0, <1>r, <2>1, AdvanceType DEF ReplyKinds, txn, Labels
<1>3. CASE CompleteOrder(p)
  <2>1. \/ Refuse(p, "out_of_order")
        \/ UNCHANGED <<arg, txn>> /\ Advance(p, "c_insert")
    BY <1>3 DEF CompleteOrder
  <2> QED BY <1>0, <1>r, <2>1, AdvanceType DEF ReplyKinds, txn, Labels
<1>4. CASE CompleteInsert(p)
  <2>1. [wr[p] EXCEPT !.evt = <<arg[p].id, arg[p].lesson>> \notin events] \in Writes
    BY <1>0 DEF Writes
  <2>2. wr' \in [Requests -> Writes]
    BY <1>0, <1>4, <2>1 DEF CompleteInsert
  <2> QED BY <1>0, <1>4, <2>2, AdvanceType DEF CompleteInsert, Labels
<1>5. CASE CompleteProject(p)
  <2>1. arg[p].lesson \in Lessons
    BY <1>5 DEF CompleteProject, RequestControl, LockedLabels, TypeOK
  <2>2. [wr[p] EXCEPT !.proj =
           [done |-> Cardinality(SeenLessons(p)),
            total |-> Cardinality(CourseLessons(enr[arg[p].id].course))]] \in Writes
    BY <1>0, <2>1, CountType DEF Writes, Projection, OptRow
  <2>3. wr' \in [Requests -> Writes]
    BY <1>0, <1>5, <2>2 DEF CompleteProject
  <2> QED BY <1>0, <1>5, <2>3, AdvanceType DEF CompleteProject, Labels
<1>6. CASE CompleteStatus(p)
  <2>1. [wr[p] EXCEPT !.status = DerivedStatus(wr[p].proj)] \in Writes
    BY <1>0 DEF Writes, OptRow, DerivedStatus, Statuses
  <2>2. wr' \in [Requests -> Writes]
    BY <1>0, <1>6, <2>1 DEF CompleteStatus
  <2> QED BY <1>0, <1>6, <2>2, AdvanceType DEF CompleteStatus, Labels
<1>7. CASE CompleteCommit(p)
  <2>1. arg[p].id \in Ids /\ arg[p].lesson \in Lessons
    BY <1>7 DEF CompleteCommit, RequestControl, LockedLabels, TypeOK
  <2>2. events' \subseteq Ids \X Lessons
    BY <1>7, <2>1 DEF CompleteCommit, TypeOK
  <2>3. proj' \in [Ids -> OptRow(Projection)]
    BY <1>0, <1>7 DEF CompleteCommit, TypeOK, Writes
  <2>4. enr' \in [Ids -> OptRow(Enrollment)]
    <3>1. CASE wr[p].status = NoRow
      BY <1>7, <3>1 DEF CompleteCommit, TypeOK
    <3>2. CASE wr[p].status # NoRow
      <4>1. wr[p].status \in Statuses
        BY <1>0, <3>2 DEF Writes, OptRow
      <4>2. enr[arg[p].id] \in Enrollment
        BY <1>7, <2>1 DEF CompleteCommit, LockedLabels, TypeOK, OptRow
      <4>3. [enr[arg[p].id] EXCEPT !.status = wr[p].status] \in Enrollment
        BY <4>1, <4>2 DEF Enrollment
      <4> QED BY <1>7, <3>2, <4>3 DEF CompleteCommit, TypeOK, OptRow
    <3> QED BY <3>1, <3>2
  <2>5. stale' \in [Operators -> SUBSET ({"enr", "proj"} \X Ids)]
    <3> DEFINE rows == (IF wr[p].proj # NoRow THEN {<<"proj", arg[p].id>>} ELSE {})
                       \cup (IF wr[p].status # NoRow THEN {<<"enr", arg[p].id>>} ELSE {})
    <3>1. rows \in SUBSET ({"enr", "proj"} \X Ids)
      BY <2>1
    <3>2. Touch(rows)
      BY <1>7 DEF CompleteCommit
    <3> QED BY <3>1, <3>2, TouchType
  <2>6. out' \in [Requests -> Reply]
    <3>1. [out[p] EXCEPT !.created = wr[p].evt] \in Reply
      BY <1>0 DEF TypeOK, Reply, Writes
    <3> QED BY <1>7, <3>1 DEF CompleteCommit, TypeOK
  <2>7. todo' \in [Procs -> SUBSET Ids] /\ pc' \in [Procs -> Labels]
    BY <1>0, <1>7, <2>1, GotoType DEF CompleteCommit, TypeOK, Labels
  <2>8. /\ wr' \in [Requests -> Writes]
        /\ held' \in [Procs -> SUBSET Ids] /\ shared' \in [Requests -> SUBSET Ids]
    BY <1>0, <1>7, ReleaseType DEF CompleteCommit
  <2> QED BY <1>7, <2>2, <2>3, <2>4, <2>5, <2>6, <2>7, <2>8 DEF CompleteCommit, TypeOK
<1> QED BY <1>1, <1>2, <1>3, <1>4, <1>5, <1>6, <1>7

LEMMA LoadType ==
    ASSUME TypeOK, NEW p \in Requests, RequestControl(p),
           LoadLessons(p) \/ \E id \in Ids : LoadRow(p, id)
    PROVE  TypeOK'
<1>0. p \in Procs /\ pc \in [Procs -> Labels] /\ out[p] \in Reply
  BY DEF TypeOK, Procs
<1>1. ASSUME NEW id \in Ids, LoadRow(p, id) PROVE TypeOK'
  <2>1. CASE Refuse(p, "not_found")
    BY <2>1, RefuseType DEF ReplyKinds
  <2>2. CASE ~ Refuse(p, "not_found")
    <3>1. enr[id] \in Enrollment /\ proj[id] \in OptRow(Projection)
      BY <1>1, <2>2 DEF LoadRow, TypeOK, OptRow
    <3> DEFINE row == IF proj[id] # NoRow
                  THEN [id |-> id, status |-> enr[id].status,
                        done |-> proj[id].done, total |-> proj[id].total]
                  ELSE [id |-> id, status |-> enr[id].status, done |-> 0,
                        total |-> Cardinality(CourseLessons(enr[id].course))]
    <3>2. row \in HeadRow
      BY <3>1, CountType DEF HeadRow, Enrollment, Projection, OptRow
    <3>3. /\ head' = [head EXCEPT ![p] = row]
          /\ todo' = [todo EXCEPT ![p] = @ \ {id}]
          /\ Goto(p, "load_lessons")
          /\ UNCHANGED <<db, arg, txn, plan, stale, out>>
      BY <1>1, <2>2 DEF LoadRow
    <3>4. head' \in [Requests -> OptRow(HeadRow)]
      BY <3>2, <3>3 DEF TypeOK, OptRow
    <3>5. todo' \in [Procs -> SUBSET Ids] /\ pc' \in [Procs -> Labels]
      BY <1>0, <3>3 DEF TypeOK, Goto, Labels
    <3> QED BY <3>3, <3>4, <3>5 DEF TypeOK, db, txn
  <2> QED BY <2>1, <2>2
<1>2. CASE LoadLessons(p)
  <2> DEFINE id == head[p].id
             listed == IF enr[id] = NoRow THEN {} ELSE CourseLessons(enr[id].course)
             view == [id |-> id, status |-> head[p].status, done |-> head[p].done,
                      total |-> head[p].total, lessons |-> listed,
                      ticked |-> listed \cap CompletedLessons(id)]
  <2>1. head[p] \in HeadRow
    BY <1>2 DEF LoadLessons, RequestControl
  <2>2. listed \subseteq Lessons
    BY DEF CourseLessons, TypeOK
  <2>3. view \in View
    BY <2>1, <2>2 DEF View, HeadRow
  <2>4. /\ [out[p] EXCEPT !.views = @ \cup {view}] \in Reply
        /\ [out[p] EXCEPT !.views = @ \cup {view}, !.kind = "ok"] \in Reply
    BY <1>0, <2>3 DEF Reply
  <2>5. /\ \/ out' = [out EXCEPT ![p].views = @ \cup {view}] /\ Goto(p, "load_row")
           \/ /\ out' = [out EXCEPT ![p].views = @ \cup {view}, ![p].kind = "ok"]
              /\ Goto(p, "replied")
        /\ head' = [head EXCEPT ![p] = NoRow]
        /\ UNCHANGED <<db, arg, txn, todo, plan, stale>>
    BY <1>2 DEF LoadLessons
  <2> HIDE DEF view
  <2>6. out' \in [Requests -> Reply]
    BY <2>4, <2>5 DEF TypeOK
  <2>7. pc' \in [Procs -> Labels]
    BY <1>0, <2>5 DEF Goto, Labels
  <2>8. head' \in [Requests -> OptRow(HeadRow)]
    BY <2>5 DEF TypeOK, OptRow
  <2> QED BY <2>5, <2>6, <2>7, <2>8 DEF TypeOK, db, txn
<1> QED BY <1>1, <1>2

LEMMA CommandType ==
    ASSUME TypeOK, NEW p \in Operators,
           pc[p] = "r_rebuild" => \A id \in Planned(p) : enr[id] # NoRow,
           Command(p) \/ CommandStep(p)
    PROVE  TypeOK'
<1>0. p \in Procs
  BY DEF Procs
<1>1. CASE ReconcileDryRun(p)
  <2>1. plan' \in [Operators -> [Ids -> OptRow(Expectation)]]
    BY <1>1, ReportType DEF ReconcileDryRun, TypeOK
  <2>2. pc' \in [Procs -> Labels]
    BY <1>0, <1>1, GotoType DEF ReconcileDryRun, Labels
  <2> QED BY <1>1, <2>1, <2>2 DEF ReconcileDryRun, TypeOK, db, OperatorOnly
<1>2. CASE ReconcileBegin(p)
  <2>1. plan' \in [Operators -> [Ids -> OptRow(Expectation)]]
    BY <1>2, ReportType DEF ReconcileBegin, TypeOK
  <2>2. pc' \in [Procs -> Labels]
    BY <1>0, <1>2, GotoType DEF ReconcileBegin, Labels
  <2>3. /\ todo' \in [Procs -> SUBSET Ids]
        /\ stale' \in [Operators -> SUBSET ({"enr", "proj"} \X Ids)]
    BY <1>2 DEF ReconcileBegin, TypeOK
  <2> QED BY <1>2, <2>1, <2>2, <2>3 DEF ReconcileBegin, TypeOK, db, OperatorOnly
<1>3. CASE ResetBegin(p)
  <2>1. pc' \in [Procs -> Labels]
    BY <1>0, <1>3, GotoType DEF ResetBegin, Labels
  <2>2. todo' \in [Procs -> SUBSET Ids]
    BY <1>3 DEF ResetBegin, TypeOK
  <2> QED BY <1>3, <2>1, <2>2 DEF ResetBegin, TypeOK, db, OperatorOnly
<1>4. ASSUME NEW id \in Ids, ReconcileLock(p, id) \/ ResetLock(p, id)
      PROVE  TypeOK'
  <2>0. /\ held' = held \/ held' = [held EXCEPT ![p] = @ \cup {id}]
        /\ todo' = [todo EXCEPT ![p] = @ \ {id}]
    <3>1. CASE ReconcileLock(p, id)
      BY <3>1 DEF ReconcileLock
    <3>2. CASE ResetLock(p, id)
      <4>1. held \in [Procs -> SUBSET Ids]
        BY DEF TypeOK
      <4> QED BY <1>0, <3>2, <4>1 DEF ResetLock
    <3> QED BY <1>4, <3>1, <3>2
  <2>1. held' \in [Procs -> SUBSET Ids] /\ todo' \in [Procs -> SUBSET Ids]
    <3>1. held \in [Procs -> SUBSET Ids] /\ todo \in [Procs -> SUBSET Ids]
      BY DEF TypeOK
    <3>2. held' \in [Procs -> SUBSET Ids]
      BY <2>0, <3>1
    <3>3. todo' \in [Procs -> SUBSET Ids]
      BY <2>0, <3>1
    <3> QED BY <3>2, <3>3
  <2>2. UNCHANGED <<db, pc, plan, stale, OperatorOnly>>
    BY <1>4 DEF ReconcileLock, ResetLock
  <2> QED BY <2>1, <2>2 DEF TypeOK, db, OperatorOnly
<1>5. CASE ReconcileConflict(p)
  BY <1>0, <1>5, GiveUpType DEF ReconcileConflict
<1>6. CASE ReconcileReport(p)
  <2>1. pc' \in [Procs -> Labels]
    BY <1>0, <1>6, GotoType DEF ReconcileReport, Labels
  <2>2. /\ held' = [held EXCEPT ![p] = {}] \/ held' = held
        /\ todo' = todo \/ todo' = [todo EXCEPT ![p] = Planned(p)]
    BY <1>6 DEF ReconcileReport
  <2>3. held' \in [Procs -> SUBSET Ids] /\ todo' \in [Procs -> SUBSET Ids]
    BY <2>2 DEF TypeOK, Planned
  <2> QED BY <1>6, <2>1, <2>3 DEF ReconcileReport, TypeOK, db, OperatorOnly
<1>7. ASSUME NEW id \in Ids, ReconcileRebuild(p, id)
      PROVE  TypeOK'
  <2>1. todo' \in [Procs -> SUBSET Ids]
    BY <1>7 DEF ReconcileRebuild, TypeOK
  <2> QED BY <1>7, <2>1 DEF ReconcileRebuild, TypeOK, db, OperatorOnly
<1>8. CASE ReconcileCommit(p)
  <2>1. ASSUME NEW id \in Planned(p)
        PROVE  id \in Ids /\ plan[p][id] \in Expectation
    BY <2>1 DEF Planned, TypeOK, OptRow
  <2>2. proj' \in [Ids -> OptRow(Projection)]
    <3>1. \A id \in Planned(p) :
             [done |-> plan[p][id].done, total |-> plan[p][id].total] \in Projection
      BY <2>1 DEF Expectation, Projection
    <3> QED BY <1>8, <3>1 DEF ReconcileCommit, TypeOK, OptRow
  <2>3. enr' \in [Ids -> OptRow(Enrollment)]
    <3>1. ASSUME NEW id \in Planned(p)
          PROVE  [enr[id] EXCEPT !.status = plan[p][id].status] \in Enrollment
      <4>1. enr[id] \in Enrollment
        BY <1>8, <2>1 DEF ReconcileCommit, TypeOK, OptRow
      <4>2. plan[p][id].status \in Statuses
        BY <2>1 DEF Expectation
      <4> QED BY <4>1, <4>2 DEF Enrollment
    <3> QED BY <1>8, <3>1 DEF ReconcileCommit, TypeOK, OptRow
  <2>4. stale' \in [Operators -> SUBSET ({"enr", "proj"} \X Ids)]
    BY <1>8, <2>1, TouchType DEF ReconcileCommit
  <2>5. held' \in [Procs -> SUBSET Ids] /\ pc' \in [Procs -> Labels]
    BY <1>0, <1>8, GotoType DEF ReconcileCommit, TypeOK, Labels
  <2> QED BY <1>8, <2>2, <2>3, <2>4, <2>5 DEF ReconcileCommit, TypeOK, OperatorOnly
<1>9. CASE ResetCascade(p)
  <2>1. pc' \in [Procs -> Labels]
    BY <1>0, <1>9, GotoType DEF ResetCascade, Labels
  <2> QED BY <1>9, <2>1 DEF ResetCascade, TypeOK, db, OperatorOnly
<1>10. CASE ResetCommit(p)
  <2>1. enr' \in [Ids -> OptRow(Enrollment)] /\ proj' \in [Ids -> OptRow(Projection)]
    BY <1>10 DEF ResetCommit, TypeOK, OptRow
  <2>2. events' \subseteq Ids \X Lessons
    BY <1>10 DEF ResetCommit, TypeOK
  <2>3. stale' \in [Operators -> SUBSET ({"enr", "proj"} \X Ids)]
    <3>1. {"enr", "proj"} \X held[p] \in SUBSET ({"enr", "proj"} \X Ids)
      BY <1>0 DEF TypeOK
    <3> QED BY <1>10, <3>1, TouchType DEF ResetCommit
  <2>4. held' \in [Procs -> SUBSET Ids] /\ pc' \in [Procs -> Labels]
    BY <1>0, <1>10, GotoType DEF ResetCommit, TypeOK, Labels
  <2> QED BY <1>10, <2>1, <2>2, <2>3, <2>4 DEF ResetCommit, TypeOK, OperatorOnly
<1> QED BY <1>1, <1>2, <1>3, <1>4, <1>5, <1>6, <1>7, <1>8, <1>9, <1>10
        DEF Command, CommandStep

LEMMA ByHandType ==
    ASSUME TypeOK, ByHand
    PROVE  TypeOK'
<1>1. ASSUME NEW id \in Ids, Withdraw(id) PROVE TypeOK'
  <2>1. [enr[id] EXCEPT !.status = "withdrawn"] \in Enrollment
    <3>1. enr[id] \in Enrollment
      BY <1>1 DEF Withdraw, TypeOK, OptRow
    <3> QED BY <3>1 DEF Enrollment, Statuses
  <2>2. enr' \in [Ids -> OptRow(Enrollment)]
    BY <1>1, <2>1 DEF Withdraw, TypeOK, OptRow
  <2>3. stale' \in [Operators -> SUBSET ({"enr", "proj"} \X Ids)]
    BY <1>1, TouchType DEF Withdraw
  <2> QED BY <1>1, <2>2, <2>3 DEF Withdraw, TypeOK, Ambient, txn
<1>2. ASSUME NEW l \in Lessons, AddLesson(l) PROVE TypeOK'
  BY <1>2 DEF AddLesson, TypeOK, Ambient, txn
<1>3. ASSUME NEW id \in Ids, LoseProjection(id) PROVE TypeOK'
  <2>1. proj' \in [Ids -> OptRow(Projection)] /\ faults' \in 0..MaxFaults
    BY <1>3, BoundAssumption DEF LoseProjection, TypeOK, OptRow
  <2>2. stale' \in [Operators -> SUBSET ({"enr", "proj"} \X Ids)]
    BY <1>3, TouchType DEF LoseProjection
  <2> QED BY <1>3, <2>1, <2>2 DEF LoseProjection, TypeOK, Ambient, txn
<1>4. ASSUME NEW id \in Ids, NEW n \in 0..Cardinality(Lessons), SkewProjection(id, n)
      PROVE  TypeOK'
  <2>1. [proj[id] EXCEPT !.done = n] \in Projection
    <3>1. proj[id] \in Projection
      BY <1>4 DEF SkewProjection, TypeOK, OptRow
    <3>2. n \in Nat
      BY <1>4, <3>1 DEF SkewProjection, Projection
    <3> QED BY <3>1, <3>2 DEF Projection
  <2>2. proj' \in [Ids -> OptRow(Projection)] /\ faults' \in 0..MaxFaults
    BY <1>4, <2>1, BoundAssumption DEF SkewProjection, TypeOK, OptRow
  <2>3. stale' \in [Operators -> SUBSET ({"enr", "proj"} \X Ids)]
    BY <1>4, TouchType DEF SkewProjection
  <2> QED BY <1>4, <2>2, <2>3 DEF SkewProjection, TypeOK, Ambient, txn
<1> QED BY <1>1, <1>2, <1>3, <1>4 DEF ByHand

----------------------------------------------------------------------------
(* A step of p leaves what belongs to the other processes alone *)

Frame(p) ==
    /\ \A q \in Procs \ {p} : pc'[q] = pc[q] /\ held'[q] = held[q] /\ todo'[q] = todo[q]
    /\ \A q \in Requests \ {p} :
          /\ arg'[q] = arg[q] /\ wr'[q] = wr[q] /\ shared'[q] = shared[q]
          /\ head'[q] = head[q] /\ out'[q] = out[q]
    /\ \A q \in Operators \ {p} : plan'[q] = plan[q]

LEMMA FinishFrame ==
    ASSUME NEW p \in Procs, Finish(p), Release(p) \/ UNCHANGED txn, TypeOK
    PROVE  Frame(p) /\ UNCHANGED db
<1>1. \A q \in Procs \ {p} : pc'[q] = pc[q] /\ todo'[q] = todo[q]
  BY DEF Finish, Goto, TypeOK
<1>2. \A q \in Procs \ {p} : held'[q] = held[q]
  BY DEF Release, txn, TypeOK
<1>3. \A q \in Requests \ {p} : wr'[q] = wr[q] /\ shared'[q] = shared[q]
  BY DEF Release, txn, TypeOK
<1>4. \A q \in Requests \ {p} : arg'[q] = arg[q] /\ head'[q] = head[q] /\ out'[q] = out[q]
  BY DEF Finish, TypeOK
<1>5. \A q \in Operators \ {p} : plan'[q] = plan[q]
  BY DEF Finish, TypeOK
<1> QED BY <1>1, <1>2, <1>3, <1>4, <1>5 DEF Frame, Finish

LEMMA RefuseFrame ==
    ASSUME NEW p \in Requests, NEW kind, Refuse(p, kind), TypeOK
    PROVE  Frame(p) /\ UNCHANGED db
<1>1. \A q \in Procs \ {p} : pc'[q] = pc[q] /\ held'[q] = held[q] /\ todo'[q] = todo[q]
  BY DEF Refuse, Release, Goto, TypeOK
<1>2. \A q \in Requests \ {p} : wr'[q] = wr[q] /\ shared'[q] = shared[q]
  BY DEF Refuse, Release, TypeOK
<1>3. \A q \in Requests \ {p} : out'[q] = out[q]
  BY DEF Refuse, TypeOK
<1> QED BY <1>1, <1>2, <1>3 DEF Frame, Refuse

LEMMA AdvanceFrame ==
    ASSUME NEW p \in Requests, NEW label, Advance(p, label), TypeOK,
           \A q \in Requests \ {p} : arg'[q] = arg[q] /\ wr'[q] = wr[q]
                                        /\ shared'[q] = shared[q],
           \A q \in Procs \ {p} : held'[q] = held[q]
    PROVE  Frame(p) /\ UNCHANGED db
<1>1. \A q \in Procs \ {p} : pc'[q] = pc[q]
  BY DEF Advance, Goto, TypeOK
<1> QED BY <1>1 DEF Frame, Advance

LEMMA RequestFrame ==
    ASSUME NEW p \in Requests, TypeOK, Call(p) \/ RequestStep(p)
    PROVE  Frame(p)
<1>0. /\ pc \in [Procs -> Labels] /\ arg \in [Requests -> Arg]
      /\ wr \in [Requests -> Writes] /\ held \in [Procs -> SUBSET Ids]
      /\ shared \in [Requests -> SUBSET Ids] /\ todo \in [Procs -> SUBSET Ids]
      /\ head \in [Requests -> OptRow(HeadRow)] /\ out \in [Requests -> Reply]
  BY DEF TypeOK
<1>r. ASSUME NEW kind, Refuse(p, kind) PROVE Frame(p)
  BY <1>r, RefuseFrame
<1>1. ASSUME NEW m \in Members, NEW c \in Courses, EnrollBegin(p, m, c) PROVE Frame(p)
  BY <1>0, <1>1, <1>r, AdvanceFrame DEF EnrollBegin, txn
<1>2. ASSUME NEW m \in Members, NEW id \in Ids, NEW l \in Lessons, CompleteBegin(p, m, id, l)
      PROVE Frame(p)
  BY <1>0, <1>2, AdvanceFrame DEF CompleteBegin, txn
<1>3. ASSUME NEW m \in Members, DashboardBegin(p, m) PROVE Frame(p)
  BY <1>0, <1>3 DEF DashboardBegin, Goto, Frame, txn
<1>4. CASE EnrollInsert(p)
  BY <1>0, <1>4, AdvanceFrame DEF EnrollInsert
<1>5. CASE EnrollSelect(p)
  BY <1>0, <1>5, <1>r, AdvanceFrame DEF EnrollSelect, txn
<1>6. CASE EnrollProject(p)
  BY <1>0, <1>6, AdvanceFrame DEF EnrollProject
<1>7. CASE EnrollForeignKey(p)
  BY <1>0, <1>7, <1>r, AdvanceFrame DEF EnrollForeignKey
<1>8. CASE EnrollCommit(p)
  BY <1>0, <1>8 DEF EnrollCommit, Goto, Release, Frame
<1>9. CASE CompleteLock(p)
  BY <1>0, <1>9, <1>r, AdvanceFrame DEF CompleteLock
<1>10. CASE CompletePlace(p)
  BY <1>0, <1>10, <1>r, AdvanceFrame DEF CompletePlace, txn
<1>11. CASE CompleteOrder(p)
  BY <1>0, <1>11, <1>r, AdvanceFrame DEF CompleteOrder, txn
<1>12. CASE CompleteInsert(p)
  BY <1>0, <1>12, AdvanceFrame DEF CompleteInsert
<1>13. CASE CompleteProject(p)
  BY <1>0, <1>13, AdvanceFrame DEF CompleteProject
<1>14. CASE CompleteStatus(p)
  BY <1>0, <1>14, AdvanceFrame DEF CompleteStatus
<1>15. CASE CompleteCommit(p)
  BY <1>0, <1>15 DEF CompleteCommit, Goto, Release, Frame
<1>16. ASSUME NEW id \in Ids, LoadRow(p, id) PROVE Frame(p)
  BY <1>0, <1>16, <1>r DEF LoadRow, Goto, Frame, txn
<1>17. CASE LoadLessons(p)
  BY <1>0, <1>17 DEF LoadLessons, Goto, Frame, txn
<1> QED BY <1>1, <1>2, <1>3, <1>4, <1>5, <1>6, <1>7, <1>8, <1>9, <1>10, <1>11, <1>12,
           <1>13, <1>14, <1>15, <1>16, <1>17 DEF Call, RequestStep

LEMMA CommandFrame ==
    ASSUME NEW p \in Operators, TypeOK, Command(p) \/ CommandStep(p)
    PROVE  Frame(p)
<1>0. /\ pc \in [Procs -> Labels] /\ held \in [Procs -> SUBSET Ids]
      /\ todo \in [Procs -> SUBSET Ids]
      /\ plan \in [Operators -> [Ids -> OptRow(Expectation)]]
  BY DEF TypeOK
<1>1. CASE ReconcileConflict(p)
  BY <1>1, FinishFrame DEF ReconcileConflict, GiveUp, Procs
<1>2. CASE ReconcileDryRun(p) \/ ReconcileBegin(p) \/ ResetBegin(p)
  BY <1>0, <1>2 DEF ReconcileDryRun, ReconcileBegin, ResetBegin, Goto, Frame, OperatorOnly
<1>3. ASSUME NEW id \in Ids,
             ReconcileLock(p, id) \/ ReconcileRebuild(p, id) \/ ResetLock(p, id)
      PROVE  Frame(p)
  BY <1>0, <1>3 DEF ReconcileLock, ReconcileRebuild, ResetLock, Frame, OperatorOnly
<1>4. CASE ReconcileReport(p)
  BY <1>0, <1>4 DEF ReconcileReport, Goto, Frame, OperatorOnly
<1>5. CASE ReconcileCommit(p)
  BY <1>0, <1>5 DEF ReconcileCommit, Goto, Frame, OperatorOnly
<1>6. CASE ResetCascade(p) \/ ResetCommit(p)
  BY <1>0, <1>6 DEF ResetCascade, ResetCommit, Goto, Frame, OperatorOnly
<1> QED BY <1>1, <1>2, <1>3, <1>4, <1>5, <1>6 DEF Command, CommandStep

----------------------------------------------------------------------------
(* Layer 1: control *)

LEMMA ControlOthers ==
    ASSUME Control, NEW p \in Procs, Frame(p), used \subseteq used', content \subseteq content'
    PROVE  /\ \A q \in Requests \ {p} : RequestControl(q)'
           /\ \A q \in Operators \ {p} : OperatorControl(q)'
<1>1. ASSUME NEW q \in Requests \ {p} PROVE RequestControl(q)'
  <2>1. q \in Procs
    BY DEF Procs
  <2>2. /\ pc'[q] = pc[q] /\ todo'[q] = todo[q] /\ arg'[q] = arg[q]
        /\ wr'[q] = wr[q] /\ head'[q] = head[q]
    BY <2>1 DEF Frame
  <2>3. RequestControl(q)
    BY DEF Control
  <2> QED BY <2>2, <2>3 DEF RequestControl
<1>2. ASSUME NEW q \in Operators \ {p} PROVE OperatorControl(q)'
  <2>1. q \in Procs
    BY DEF Procs
  <2>2. pc'[q] = pc[q] /\ todo'[q] = todo[q]
    BY <2>1 DEF Frame
  <2>3. OperatorControl(q)
    BY DEF Control
  <2> QED BY <2>2, <2>3 DEF OperatorControl
<1> QED BY <1>1, <1>2

LEMMA RefuseControl ==
    ASSUME Control, NEW p \in Requests, NEW kind, Refuse(p, kind)
    PROVE  RequestControl(p)'
<1>1. /\ p \in Procs /\ pc \in [Procs -> Labels] /\ RequestControl(p)
  BY DEF Procs, Control, TypeOK
<1>2. pc'[p] = "replied" /\ wr'[p] = NoWrites /\ todo'[p] = todo[p] /\ used' = used
  BY <1>1 DEF Refuse, Goto, Release, db
<1> QED BY <1>1, <1>2 DEF RequestControl, RequestLabels, EnrollLabels, LockedLabels, NoWrites

LEMMA AdvanceControl ==
    ASSUME Control, NEW p \in Requests, NEW label, Advance(p, label)
    PROVE  /\ pc'[p] = label /\ todo'[p] = todo[p] /\ head'[p] = head[p]
           /\ used' = used /\ content' = content
           /\ RequestControl(p) /\ p \in Procs
<1>1. /\ p \in Procs /\ pc \in [Procs -> Labels] /\ RequestControl(p)
  BY DEF Procs, Control, TypeOK
<1> QED BY <1>1 DEF Advance, Goto, db

LEMMA FinishControl ==
    ASSUME Control, NEW p \in Requests, Finish(p), GiveUp(p) \/ (Return(p) /\ Locking /\ Rows)
    PROVE  RequestControl(p)'
<1>1. /\ p \in Procs /\ pc \in [Procs -> Labels] /\ todo \in [Procs -> SUBSET Ids]
      /\ arg \in [Requests -> Arg] /\ wr \in [Requests -> Writes]
  BY DEF Procs, Control, TypeOK
<1>2. pc'[p] = "idle" /\ todo'[p] = {} /\ arg'[p] = NoArg
  BY <1>1 DEF Finish, Goto
<1>3. ~ wr'[p].enr
  <2>1. CASE GiveUp(p)
    BY <1>1, <2>1 DEF GiveUp, Release, NoWrites
  <2>2. CASE Return(p) /\ Locking /\ Rows
    BY <1>1, <2>2 DEF Return, txn, Rows, PendingEnroll, EnrollLabels
  <2> QED BY <2>1, <2>2
<1> QED BY <1>1, <1>2, <1>3 DEF RequestControl, RequestLabels, EnrollLabels, LockedLabels, NoWrites

(* Outside a transaction, control asks little. *)
LEMMA RestControl ==
    ASSUME NEW p \in Requests, pc'[p] \in {"replied", "load_row"},
           todo'[p] \subseteq used', ~ wr'[p].enr
    PROVE  RequestControl(p)'
BY DEF RequestControl, RequestLabels, EnrollLabels, LockedLabels, LoadLabels

LEMMA CallControl ==
    ASSUME Control, NEW p \in Requests, Call(p), wr[p] = NoWrites
    PROVE  RequestControl(p)' /\ used' = used /\ content' = content
<1>0. /\ p \in Procs /\ pc \in [Procs -> Labels] /\ arg \in [Requests -> Arg]
      /\ todo \in [Procs -> SUBSET Ids] /\ RequestControl(p)
  BY DEF Procs, Control, TypeOK
<1>1. ASSUME NEW m \in Members, NEW c \in Courses, EnrollBegin(p, m, c)
      PROVE RequestControl(p)' /\ used' = used /\ content' = content
  <2>1. CASE c \notin Published
    BY <1>1, <2>1, RefuseControl DEF EnrollBegin, Refuse, db
  <2>2. CASE c \in Published
    <3>1. /\ arg'[p] = [NoArg EXCEPT !.op = "enroll", !.member = m, !.course = c,
                          !.total = Cardinality(CourseLessons(c))]
          /\ wr' = wr /\ Advance(p, "e_insert")
      BY <1>0, <1>1, <2>2 DEF EnrollBegin, txn
    <3>2. arg'[p].op = "enroll" /\ arg'[p].member = m /\ arg'[p].course = c
      BY <3>1 DEF NoArg
    <3> QED BY <2>2, <3>1, <3>2, AdvanceControl
            DEF RequestControl, RequestLabels, EnrollLabels, LockedLabels, NoWrites
  <2> QED BY <2>1, <2>2
<1>2. ASSUME NEW m \in Members, NEW id \in Ids, NEW l \in Lessons, CompleteBegin(p, m, id, l)
      PROVE RequestControl(p)' /\ used' = used /\ content' = content
  <2>1. /\ arg'[p] = [NoArg EXCEPT !.op = "complete", !.member = m, !.id = id, !.lesson = l]
        /\ wr' = wr /\ Advance(p, "c_lock") /\ id \in used /\ l \in content
    BY <1>0, <1>2 DEF CompleteBegin, txn
  <2>2. arg'[p].op = "complete" /\ arg'[p].member = m /\ arg'[p].id = id /\ arg'[p].lesson = l
    BY <2>1 DEF NoArg
  <2> QED BY <2>1, <2>2, AdvanceControl
          DEF RequestControl, RequestLabels, EnrollLabels, LockedLabels, NoWrites
<1>3. ASSUME NEW m \in Members, DashboardBegin(p, m)
      PROVE RequestControl(p)' /\ used' = used /\ content' = content
  <2>1. /\ pc'[p] \in {"replied", "load_row"} /\ wr' = wr /\ used' = used /\ content' = content
        /\ todo'[p] = {id \in Ids : enr[id] # NoRow /\ enr[id].member = m}
    BY <1>0, <1>3 DEF DashboardBegin, Goto, db, txn
  <2>2. todo'[p] \subseteq used
    BY <2>1 DEF Control
  <2>3. ~ wr'[p].enr
    BY <2>1 DEF NoWrites
  <2> QED BY <2>1, <2>2, <2>3, RestControl
<1> QED BY <1>1, <1>2, <1>3 DEF Call

LEMMA EnrollControl ==
    ASSUME Control, NEW p \in Requests,
           \/ EnrollInsert(p) \/ EnrollSelect(p) \/ EnrollProject(p)
           \/ EnrollForeignKey(p) \/ EnrollCommit(p)
    PROVE  RequestControl(p)' /\ used \subseteq used' /\ content' = content
<1>0. /\ p \in Procs /\ pc \in [Procs -> Labels] /\ arg \in [Requests -> Arg]
      /\ wr \in [Requests -> Writes] /\ wr[p] \in Writes
      /\ todo \in [Procs -> SUBSET Ids] /\ RequestControl(p)
  BY DEF Procs, Control, TypeOK
<1> USE DEF RequestControl, RequestLabels, EnrollLabels, LockedLabels
<1>1. CASE EnrollInsert(p)
  <2>1. /\ Advance(p, "e_select") /\ arg'[p].op = arg[p].op
        /\ arg'[p].member = arg[p].member /\ arg'[p].course = arg[p].course
        /\ wr'[p].enr => arg'[p].id \in Ids
    <3>1. CASE UNCHANGED <<arg, wr>>
      BY <1>0, <1>1, <3>1 DEF EnrollInsert
    <3>2. ASSUME NEW id \in Ids, arg' = [arg EXCEPT ![p].id = id]
          PROVE  /\ arg'[p].op = arg[p].op /\ arg'[p].id = id
                 /\ arg'[p].member = arg[p].member /\ arg'[p].course = arg[p].course
      BY <1>0, <3>2 DEF Arg
    <3> QED BY <1>1, <3>1, <3>2 DEF EnrollInsert
  <2>2. pc[p] = "e_insert"
    BY <1>1 DEF EnrollInsert
  <2> QED BY <1>0, <2>1, <2>2, AdvanceControl
<1>2. CASE EnrollSelect(p)
  <2>1. CASE Refuse(p, "internal")
    BY <2>1, RefuseControl DEF Refuse, db
  <2>2. CASE ~ Refuse(p, "internal")
    <3>1. PICK id : /\ id \in IF wr[p].enr THEN {arg[p].id}
                              ELSE Enrolled(arg[p].member, arg[p].course)
                    /\ arg' = [arg EXCEPT ![p].id = id]
      BY <1>2, <2>2 DEF EnrollSelect
    <3>2. id \in Ids /\ (id \in used \/ wr[p].enr)
      BY <1>0, <3>1 DEF Enrolled, Control
    <3>3. /\ arg'[p].op = arg[p].op /\ arg'[p].id = id
          /\ arg'[p].member = arg[p].member /\ arg'[p].course = arg[p].course
      BY <1>0, <3>1 DEF Arg
    <3>4. Advance(p, "e_project") /\ wr' = wr /\ pc[p] = "e_select"
      BY <1>2, <2>2 DEF EnrollSelect, txn
    <3> QED BY <1>0, <3>2, <3>3, <3>4, AdvanceControl
  <2> QED BY <2>1, <2>2
<1>3. CASE EnrollProject(p)
  <2>1. /\ pc[p] = "e_project" /\ arg' = arg /\ wr'[p].enr = wr[p].enr
        /\ Advance(p, "e_fk") \/ Advance(p, "e_commit")
    BY <1>0, <1>3 DEF EnrollProject, Writes
  <2> QED BY <1>0, <2>1, AdvanceControl
<1>4. CASE EnrollForeignKey(p)
  <2>1. CASE Refuse(p, "internal")
    BY <2>1, RefuseControl DEF Refuse, db
  <2>2. CASE ~ Refuse(p, "internal")
    <3>1. pc[p] = "e_fk" /\ UNCHANGED <<arg, wr>> /\ Advance(p, "e_commit")
      BY <1>4, <2>2 DEF EnrollForeignKey
    <3> QED BY <1>0, <3>1, AdvanceControl
  <2> QED BY <2>1, <2>2
<1>5. CASE EnrollCommit(p)
  <2>1. /\ pc[p] = "e_commit" /\ pc'[p] = "load_row" /\ wr'[p] = NoWrites
        /\ todo'[p] = {arg[p].id} /\ content' = content
    BY <1>0, <1>5 DEF EnrollCommit, Release, Goto
  <2>2. used' = IF wr[p].enr THEN used \cup {arg[p].id} ELSE used
    BY <1>5 DEF EnrollCommit
  <2>3. todo'[p] \subseteq used' /\ ~ wr'[p].enr
    BY <1>0, <2>1, <2>2 DEF NoWrites
  <2> QED BY <2>1, <2>2, <2>3, RestControl
<1> QED BY <1>1, <1>2, <1>3, <1>4, <1>5

LEMMA CompleteControl ==
    ASSUME Control, NEW p \in Requests,
           \/ CompleteLock(p) \/ CompletePlace(p) \/ CompleteOrder(p)
           \/ CompleteInsert(p) \/ CompleteProject(p) \/ CompleteStatus(p)
           \/ CompleteCommit(p)
    PROVE  RequestControl(p)' /\ used' = used /\ content' = content
<1>0. /\ p \in Procs /\ pc \in [Procs -> Labels] /\ arg \in [Requests -> Arg]
      /\ wr \in [Requests -> Writes] /\ wr[p] \in Writes /\ arg[p] \in Arg
      /\ todo \in [Procs -> SUBSET Ids] /\ RequestControl(p)
  BY DEF Procs, Control, TypeOK
<1>r. ASSUME NEW kind, Refuse(p, kind)
      PROVE  RequestControl(p)' /\ used' = used /\ content' = content
  BY <1>r, RefuseControl DEF Refuse, db
<1> USE DEF RequestControl, RequestLabels, EnrollLabels, LockedLabels, LoadLabels
<1>1. CASE CompleteLock(p)
  <2>1. CASE \E kind : Refuse(p, kind)
    BY <2>1, <1>r
  <2>2. CASE ~ \E kind : Refuse(p, kind)
    <3>1. /\ pc[p] = "c_lock" /\ Advance(p, "c_place") /\ wr' = wr
          /\ arg' = [arg EXCEPT ![p].course = enr[arg[p].id].course]
      BY <1>1, <2>2 DEF CompleteLock
    <3>2. /\ arg'[p].op = arg[p].op /\ arg'[p].lesson = arg[p].lesson
          /\ arg'[p].member = arg[p].member /\ arg'[p].id = arg[p].id
      BY <1>0, <3>1 DEF Arg
    <3> QED BY <1>0, <3>1, <3>2, AdvanceControl
  <2> QED BY <2>1, <2>2
<1>2. CASE CompletePlace(p)
  <2>1. \/ Refuse(p, "not_found")
        \/ UNCHANGED <<arg, txn>> /\ (Advance(p, "c_order") \/ Advance(p, "c_insert"))
    BY <1>2 DEF CompletePlace
  <2>2. pc[p] = "c_place"
    BY <1>2 DEF CompletePlace
  <2> QED BY <1>0, <1>r, <2>1, <2>2, AdvanceControl DEF txn
<1>3. CASE CompleteOrder(p)
  <2>1. \/ Refuse(p, "out_of_order")
        \/ UNCHANGED <<arg, txn>> /\ Advance(p, "c_insert")
    BY <1>3 DEF CompleteOrder
  <2>2. pc[p] = "c_order"
    BY <1>3 DEF CompleteOrder
  <2> QED BY <1>0, <1>r, <2>1, <2>2, AdvanceControl DEF txn
<1>4. CASE CompleteInsert(p)
  <2>1. /\ pc[p] = "c_insert" /\ arg' = arg /\ wr'[p].enr = wr[p].enr
        /\ Advance(p, "c_project")
    BY <1>0, <1>4 DEF CompleteInsert, Writes
  <2> QED BY <1>0, <2>1, AdvanceControl
<1>5. CASE CompleteProject(p)
  <2>1. /\ pc[p] = "c_project" /\ arg' = arg /\ wr'[p].enr = wr[p].enr
        /\ Advance(p, "c_status")
    BY <1>0, <1>5 DEF CompleteProject, Writes
  <2> QED BY <1>0, <2>1, AdvanceControl
<1>6. CASE CompleteStatus(p)
  <2>1. /\ pc[p] = "c_status" /\ arg' = arg /\ wr'[p].enr = wr[p].enr
        /\ Advance(p, "c_commit")
    BY <1>0, <1>6 DEF CompleteStatus, Writes
  <2> QED BY <1>0, <2>1, AdvanceControl
<1>7. CASE CompleteCommit(p)
  <2>1. /\ pc[p] = "c_commit" /\ pc'[p] = "load_row" /\ wr'[p] = NoWrites
        /\ todo'[p] = {arg[p].id} /\ content' = content /\ used' = used
    BY <1>0, <1>7 DEF CompleteCommit, Release, Goto
  <2>2. todo'[p] \subseteq used' /\ ~ wr'[p].enr
    BY <1>0, <2>1 DEF NoWrites
  <2> QED BY <2>1, <2>2, RestControl
<1> QED BY <1>1, <1>2, <1>3, <1>4, <1>5, <1>6, <1>7

LEMMA LoadControl ==
    ASSUME Control, NEW p \in Requests, LoadLessons(p) \/ \E id \in Ids : LoadRow(p, id)
    PROVE  RequestControl(p)' /\ used' = used /\ content' = content
<1>0. /\ p \in Procs /\ pc \in [Procs -> Labels] /\ head \in [Requests -> OptRow(HeadRow)]
      /\ todo \in [Procs -> SUBSET Ids] /\ RequestControl(p) /\ TypeOK
  BY DEF Procs, Control, TypeOK
<1>1. ASSUME NEW id \in Ids, LoadRow(p, id)
      PROVE RequestControl(p)' /\ used' = used /\ content' = content
  <2>1. CASE Refuse(p, "not_found")
    BY <2>1, RefuseControl DEF Refuse, db
  <2>2. CASE ~ Refuse(p, "not_found")
    <3>1. enr[id] \in Enrollment /\ proj[id] \in OptRow(Projection) /\ id \in used
      BY <1>0, <1>1, <2>2 DEF LoadRow, TypeOK, OptRow, RequestControl
    <3>2. head'[p] \in HeadRow /\ head'[p].id = id
      BY <1>0, <1>1, <2>2, <3>1, CountType
         DEF LoadRow, HeadRow, Enrollment, Projection, OptRow
    <3>3. /\ pc[p] = "load_row" /\ pc'[p] = "load_lessons" /\ todo'[p] \subseteq todo[p]
          /\ UNCHANGED <<used, content, arg, wr>>
      BY <1>0, <1>1, <2>2 DEF LoadRow, Goto, db, txn
    <3> QED BY <1>0, <3>1, <3>2, <3>3
            DEF RequestControl, RequestLabels, EnrollLabels, LockedLabels, LoadLabels
  <2> QED BY <2>1, <2>2
<1>2. CASE LoadLessons(p)
  <2>1. /\ pc[p] = "load_lessons" /\ pc'[p] \in {"replied", "load_row"}
        /\ UNCHANGED <<used, content, todo, wr, arg>>
    BY <1>0, <1>2 DEF LoadLessons, Goto, db, txn
  <2> QED BY <1>0, <2>1
          DEF RequestControl, RequestLabels, EnrollLabels, LockedLabels, LoadLabels
<1> QED BY <1>1, <1>2

LEMMA CommandControl ==
    ASSUME Control, Locking, NEW p \in Operators, Command(p) \/ CommandStep(p)
    PROVE  OperatorControl(p)' /\ used' = used /\ content' = content
<1>0. /\ p \in Procs /\ pc \in [Procs -> Labels] /\ todo \in [Procs -> SUBSET Ids]
      /\ OperatorControl(p) /\ \A id \in Ids : enr[id] # NoRow => id \in used
  BY DEF Procs, Control, TypeOK
<1> USE DEF OperatorControl, OperatorLabels
<1>1. CASE ReconcileConflict(p)
  BY <1>0, <1>1 DEF ReconcileConflict, GiveUp, Finish, Goto, db
<1>2. CASE ReconcileDryRun(p)
  BY <1>0, <1>2 DEF ReconcileDryRun, Goto, db
<1>3. CASE ReconcileBegin(p) \/ ResetBegin(p)
  <2>1. /\ pc'[p] \in {"r_lock", "z_lock"} /\ used' = used /\ content' = content
        /\ \A id \in todo'[p] : id \in Ids /\ enr[id] # NoRow
    BY <1>0, <1>3 DEF ReconcileBegin, ResetBegin, Goto, db
  <2> QED BY <1>0, <2>1
<1>4. ASSUME NEW id \in Ids,
             ReconcileLock(p, id) \/ ReconcileRebuild(p, id) \/ ResetLock(p, id)
      PROVE  OperatorControl(p)' /\ used' = used /\ content' = content
  BY <1>0, <1>4 DEF ReconcileLock, ReconcileRebuild, ResetLock, db
<1>5. CASE ReconcileReport(p) \/ ResetCascade(p)
  <2>1. /\ pc'[p] \in OperatorLabels /\ used' = used /\ content' = content
        /\ \/ todo'[p] = todo[p]
           \/ todo'[p] = Planned(p) /\ pc[p] = "r_lock" /\ todo[p] = {}
    BY <1>0, <1>5 DEF ReconcileReport, ResetCascade, Goto, db
  <2>2. pc[p] = "r_lock" /\ todo[p] = {} => Planned(p) \subseteq held[p]
    BY DEF Locking, OperatorLocks
  <2>3. \A id \in Planned(p) : id \in held[p] => id \in used
    BY <1>0 DEF Locking, LockedRowsExist, Planned
  <2> QED BY <1>0, <2>1, <2>2, <2>3
<1>6. CASE ReconcileCommit(p) \/ ResetCommit(p)
  BY <1>0, <1>6 DEF ReconcileCommit, ResetCommit, Goto
<1> QED BY <1>1, <1>2, <1>3, <1>4, <1>5, <1>6 DEF Command, CommandStep

(* The tables change only in the four commits and in statements by hand. *)
LEMMA TableSteps ==
    ASSUME TypeOK, Next
    PROVE  \/ UNCHANGED db
           \/ \E p \in Requests : EnrollCommit(p) \/ CompleteCommit(p)
           \/ \E p \in Operators : ReconcileCommit(p) \/ ResetCommit(p)
           \/ ByHand
<1>1. ASSUME NEW p \in Requests, Call(p) PROVE UNCHANGED db
  BY <1>1 DEF Call, EnrollBegin, CompleteBegin, DashboardBegin, Refuse, Advance
<1>2. ASSUME NEW p \in Requests, RequestStep(p), ~ EnrollCommit(p), ~ CompleteCommit(p)
      PROVE  UNCHANGED db
  <2>1. ASSUME NEW id \in Ids, LoadRow(p, id) PROVE UNCHANGED db
    BY <2>1 DEF LoadRow, Refuse
  <2>2. CASE EnrollInsert(p) \/ EnrollSelect(p) \/ EnrollProject(p) \/ EnrollForeignKey(p)
    BY <2>2 DEF EnrollInsert, EnrollSelect, EnrollProject, EnrollForeignKey, Refuse, Advance
  <2>3. CASE \/ CompleteLock(p) \/ CompletePlace(p) \/ CompleteOrder(p)
             \/ CompleteInsert(p) \/ CompleteProject(p) \/ CompleteStatus(p)
    BY <2>3 DEF CompleteLock, CompletePlace, CompleteOrder, CompleteInsert,
                CompleteProject, CompleteStatus, Refuse, Advance
  <2>4. CASE LoadLessons(p)
    BY <2>4 DEF LoadLessons
  <2> QED BY <1>2, <2>1, <2>2, <2>3, <2>4 DEF RequestStep
<1>3. ASSUME NEW p \in Operators, Command(p) PROVE UNCHANGED db
  BY <1>3 DEF Command, ReconcileDryRun, ReconcileBegin, ResetBegin
<1>4. ASSUME NEW p \in Operators, CommandStep(p), ~ ReconcileCommit(p), ~ ResetCommit(p)
      PROVE  UNCHANGED db
  BY <1>4 DEF CommandStep, ReconcileLock, ReconcileRebuild, ReconcileConflict,
              ReconcileReport, ResetLock, ResetCascade, GiveUp, Finish
<1>5. ASSUME NEW p \in Procs, Return(p) \/ Abort(p) \/ DeadlockVictim(p)
      PROVE  UNCHANGED db
  BY <1>5 DEF Return, Abort, DeadlockVictim, GiveUp, Finish
<1> QED BY <1>1, <1>2, <1>3, <1>4, <1>5 DEF Next

(* Only the commit of an Enroll brings an enrollment into being, and no     *)
(* step changes whose it is or which course it is in.                       *)
LEMMA RowsAppear ==
    ASSUME Control, Locking, Rows, Next, NEW id \in Ids
    PROVE  /\ enr'[id] # NoRow /\ enr[id] = NoRow =>
                \E p \in Requests : EnrollCommit(p) /\ wr[p].enr /\ arg[p].id = id
           /\ enr'[id] # NoRow /\ enr[id] # NoRow =>
                enr'[id].member = enr[id].member /\ enr'[id].course = enr[id].course
<1> DEFINE Goal == /\ enr'[id] # NoRow /\ enr[id] = NoRow =>
                         \E p \in Requests : EnrollCommit(p) /\ wr[p].enr /\ arg[p].id = id
                   /\ enr'[id] # NoRow /\ enr[id] # NoRow =>
                         enr'[id].member = enr[id].member /\ enr'[id].course = enr[id].course
<1>0. enr \in [Ids -> OptRow(Enrollment)] /\ TypeOK
  BY DEF Control, TypeOK
<1>1. ASSUME UNCHANGED db PROVE Goal
  BY <1>1 DEF db
<1>2. ASSUME NEW p \in Requests, EnrollCommit(p) PROVE Goal
  <2>1. \/ enr' = enr
        \/ wr[p].enr /\ enr' = [enr EXCEPT ![arg[p].id] = [member |-> arg[p].member,
                                   course |-> arg[p].course, status |-> "active"]]
    BY <1>2 DEF EnrollCommit
  <2>2. wr[p].enr /\ arg[p].id = id => enr[id] = NoRow
    BY DEF Rows, PendingEnroll, Control
  <2> QED BY <1>0, <1>2, <2>1, <2>2
<1>3. ASSUME NEW p \in Requests, CompleteCommit(p) PROVE Goal
  <2>1. \/ enr' = enr
        \/ enr' = [enr EXCEPT ![arg[p].id].status = wr[p].status]
    BY <1>3 DEF CompleteCommit
  <2>2. enr[arg[p].id] # NoRow
    <3>1. pc[p] \in LockedLabels /\ p \in Procs
      BY <1>3 DEF CompleteCommit, LockedLabels, Procs
    <3>2. held[p] = {arg[p].id}
      BY <3>1 DEF Locking, RequestLocks
    <3> QED BY <3>1, <3>2 DEF Locking, LockedRowsExist
  <2>3. enr[id] # NoRow =>
           /\ [enr[id] EXCEPT !.status = wr[p].status].member = enr[id].member
           /\ [enr[id] EXCEPT !.status = wr[p].status].course = enr[id].course
    BY <1>0 DEF OptRow, Enrollment
  <2> QED BY <1>0, <2>1, <2>2, <2>3
<1>4. ASSUME NEW p \in Operators, ReconcileCommit(p) PROVE Goal
  <2>1. enr'[id] = IF id \in Planned(p)
                   THEN [enr[id] EXCEPT !.status = plan[p][id].status] ELSE enr[id]
    BY <1>4 DEF ReconcileCommit
  <2>2. id \in Planned(p) => enr[id] \in Enrollment
    BY <1>0, <1>4 DEF ReconcileCommit, Locking, OperatorLocks, LockedRowsExist, Procs, OptRow
  <2>3. enr[id] \in Enrollment =>
           /\ [enr[id] EXCEPT !.status = plan[p][id].status].member = enr[id].member
           /\ [enr[id] EXCEPT !.status = plan[p][id].status].course = enr[id].course
    BY DEF Enrollment
  <2> QED BY <2>1, <2>2, <2>3, NoRowAssumption
<1>5. ASSUME NEW p \in Operators, ResetCommit(p) PROVE Goal
  BY <1>5 DEF ResetCommit
<1>6. CASE ByHand
  <2>1. ASSUME NEW i \in Ids, Withdraw(i) PROVE Goal
    <3>1. enr[i] \in Enrollment /\ enr' = [enr EXCEPT ![i].status = "withdrawn"]
      BY <1>0, <2>1 DEF Withdraw, OptRow
    <3>2. /\ [enr[i] EXCEPT !.status = "withdrawn"].member = enr[i].member
          /\ [enr[i] EXCEPT !.status = "withdrawn"].course = enr[i].course
      BY <3>1 DEF Enrollment
    <3> QED BY <1>0, <3>1, <3>2, NoRowAssumption
  <2>2. ASSUME enr' = enr PROVE Goal
    BY <2>2
  <2> QED BY <1>6, <2>1, <2>2 DEF ByHand, AddLesson, LoseProjection, SkewProjection
<1> QED BY <1>0, <1>1, <1>2, <1>3, <1>4, <1>5, <1>6, TableSteps

(* Who moves in a step. *)
LEMMA Movers ==
    ASSUME Next
    PROVE  \/ \E p \in Requests : Call(p) \/ RequestStep(p)
           \/ \E p \in Operators : Command(p) \/ CommandStep(p)
           \/ \E p \in Procs : Return(p) \/ GiveUp(p)
           \/ ByHand
BY DEF Next, Abort, DeadlockVictim

LEMMA ControlStutter ==
    ASSUME Control, UNCHANGED vars
    PROVE  Control'
<1> USE DEF vars, db, txn
<1>1. TypeOK'
  BY DEF Control, TypeOK
<1>2. ASSUME NEW p \in Requests PROVE RequestControl(p)'
  <2>1. RequestControl(p)
    BY DEF Control
  <2> QED BY <2>1 DEF RequestControl
<1>3. ASSUME NEW p \in Operators PROVE OperatorControl(p)'
  <2>1. OperatorControl(p)
    BY DEF Control
  <2> QED BY <2>1 DEF OperatorControl
<1> QED BY <1>1, <1>2, <1>3 DEF Control

(* Outside a transaction nothing is pending. *)
LEMMA NothingPending ==
    ASSUME TypeOK, Rows, NEW p \in Requests,
           pc[p] \in {"idle", "replied", "e_insert", "c_lock", "c_place", "c_order", "c_insert",
                     "load_row", "load_lessons"}
    PROVE  wr[p] = NoWrites
<1>1. wr[p] \in Writes
  BY DEF TypeOK
<1>2. PendingEnroll(p) /\ PendingWrites(p)
  BY DEF Rows
<1> QED BY <1>1, <1>2 DEF PendingEnroll, PendingWrites, EnrollLabels, Writes, NoWrites

(* Ids are spent for good, and lessons stay. *)
LEMMA Monotone ==
    ASSUME Next
    PROVE  used \subseteq used' /\ content \subseteq content'
<1>1. ASSUME NEW p \in Requests, Call(p) \/ RequestStep(p) PROVE used \subseteq used' /\ content \subseteq content'
  <2>1. ASSUME Call(p) PROVE UNCHANGED <<used, content>>
    BY <2>1 DEF Call, EnrollBegin, CompleteBegin, DashboardBegin, Refuse, Advance, db
  <2>2. ASSUME NEW id \in Ids, LoadRow(p, id) PROVE UNCHANGED <<used, content>>
    BY <2>2 DEF LoadRow, Refuse, db
  <2>3. CASE EnrollInsert(p) \/ EnrollSelect(p) \/ EnrollProject(p) \/ EnrollForeignKey(p)
    BY <2>3 DEF EnrollInsert, EnrollSelect, EnrollProject, EnrollForeignKey, Refuse, Advance, db
  <2>4. CASE \/ CompleteLock(p) \/ CompletePlace(p) \/ CompleteOrder(p)
             \/ CompleteInsert(p) \/ CompleteProject(p) \/ CompleteStatus(p)
    BY <2>4 DEF CompleteLock, CompletePlace, CompleteOrder, CompleteInsert,
                CompleteProject, CompleteStatus, Refuse, Advance, db
  <2>5. CASE EnrollCommit(p) \/ CompleteCommit(p) \/ LoadLessons(p)
    BY <2>5 DEF EnrollCommit, CompleteCommit, LoadLessons, db
  <2> QED BY <1>1, <2>1, <2>2, <2>3, <2>4, <2>5 DEF RequestStep
<1>2. ASSUME NEW p \in Operators, Command(p) \/ CommandStep(p)
      PROVE  UNCHANGED <<used, content>>
  BY <1>2 DEF Command, CommandStep, ReconcileDryRun, ReconcileBegin, ResetBegin,
              ReconcileLock, ReconcileRebuild, ReconcileConflict, ReconcileReport,
              ReconcileCommit, ResetLock, ResetCascade, ResetCommit, GiveUp, Finish, db
<1>3. ASSUME NEW p \in Procs, Return(p) \/ GiveUp(p) PROVE UNCHANGED <<used, content>>
  BY <1>3 DEF Return, GiveUp, Finish, db
<1>4. CASE ByHand
  BY <1>4 DEF ByHand, Withdraw, AddLesson, LoseProjection, SkewProjection
<1> QED BY <1>1, <1>2, <1>3, <1>4, Movers

(* The first layer is preserved. *)
LEMMA ControlStep ==
    ASSUME Control, Locking, Rows, Next
    PROVE  Control'
<1>0. TypeOK /\ used \subseteq used' /\ content \subseteq content'
  BY Monotone DEF Control
<1>1. \A id \in Ids : enr'[id] # NoRow => id \in used'
  <2>1. ASSUME NEW id \in Ids, enr'[id] # NoRow, enr[id] = NoRow PROVE id \in used'
    <3>1. PICK p \in Requests : EnrollCommit(p) /\ wr[p].enr /\ arg[p].id = id
      BY <2>1, RowsAppear
    <3> QED BY <3>1 DEF EnrollCommit
  <2> QED BY <1>0, <2>1 DEF Control
<1>2. ASSUME NEW p \in Requests, Call(p) \/ RequestStep(p) PROVE Control'
  <2>1. RequestControl(p) /\ Frame(p) /\ p \in Procs
    BY <1>0, <1>2, RequestFrame DEF Control, Procs
  <2>2. pc[p] \in LockedLabels => enr[arg[p].id] # NoRow
    BY <2>1 DEF Locking, RequestLocks, LockedRowsExist
  <2>3. TypeOK'
    BY <1>0, <1>2, <2>1, <2>2, BeginType, EnrollType, CompleteType, LoadType DEF RequestStep
  <2>4. Call(p) => wr[p] = NoWrites
    BY <1>0, NothingPending DEF Call, EnrollBegin, CompleteBegin, DashboardBegin
  <2>5. RequestControl(p)'
    BY <1>2, <2>4, CallControl, EnrollControl, CompleteControl, LoadControl DEF RequestStep
  <2> QED BY <1>0, <1>1, <2>1, <2>3, <2>5, ControlOthers, BoundAssumption DEF Control
<1>3. ASSUME NEW p \in Operators, Command(p) \/ CommandStep(p) PROVE Control'
  <2>1. Frame(p) /\ p \in Procs
    BY <1>0, <1>3, CommandFrame DEF Procs
  <2>2. pc[p] = "r_rebuild" => \A id \in Planned(p) : enr[id] # NoRow
    BY <2>1 DEF Locking, OperatorLocks, LockedRowsExist
  <2>3. TypeOK'
    BY <1>0, <1>3, <2>2, CommandType
  <2>4. OperatorControl(p)'
    BY <1>3, CommandControl
  <2> QED BY <1>0, <1>1, <2>1, <2>3, <2>4, ControlOthers, BoundAssumption DEF Control
<1>4. ASSUME NEW p \in Procs, Return(p) \/ GiveUp(p) PROVE Control'
  <2>1. Finish(p) /\ (Release(p) \/ UNCHANGED txn)
    BY <1>4 DEF Return, GiveUp
  <2>2. Frame(p)
    BY <1>0, <2>1, FinishFrame
  <2>3. TypeOK'
    <3>1. /\ wr' \in [Requests -> Writes]
          /\ held' \in [Procs -> SUBSET Ids] /\ shared' \in [Requests -> SUBSET Ids]
      BY <1>0, <2>1, ReleaseType DEF txn, TypeOK
    <3> QED BY <1>0, <2>1, <3>1, FinishType
  <2>4. p \in Requests => RequestControl(p)'
    BY <1>4, <2>1, FinishControl
  <2>5. p \in Operators => OperatorControl(p)'
    BY <1>0, <2>1 DEF Finish, Goto, OperatorControl, OperatorLabels, TypeOK
  <2> QED BY <1>0, <1>1, <2>2, <2>3, <2>4, <2>5, ControlOthers DEF Control
<1>5. CASE ByHand
  <2>1. TypeOK' /\ UNCHANGED <<pc, arg, wr, todo, head>>
    BY <1>0, <1>5, ByHandType
       DEF ByHand, Withdraw, AddLesson, LoseProjection, SkewProjection, Ambient, txn
  <2>2. ASSUME NEW p \in Requests PROVE RequestControl(p)'
    <3>1. RequestControl(p)
      BY DEF Control
    <3> QED BY <1>0, <2>1, <3>1 DEF RequestControl
  <2>3. ASSUME NEW p \in Operators PROVE OperatorControl(p)'
    <3>1. OperatorControl(p)
      BY DEF Control
    <3> QED BY <1>0, <2>1, <3>1 DEF OperatorControl
  <2> QED BY <1>1, <2>1, <2>2, <2>3 DEF Control
<1> QED BY <1>2, <1>3, <1>4, <1>5, Movers

=============================================================================
