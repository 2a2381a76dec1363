-------------------------- MODULE LearningStoreInv --------------------------
(***************************************************************************)
(* The inductive invariant behind the theorems of LearningStoreTheorems, in *)
(* layers: what each statement's control point says of the call's           *)
(* arguments, the discipline of row locks, the rows and pending writes,     *)
(* withdrawal and the projection (IInv); on these rest the lessons of a     *)
(* course, totals, answers and waiting (Derived).                           *)
(***************************************************************************)
EXTENDS LearningStoreProps

EnrollLabels == {"e_insert", "e_select", "e_project", "e_fk", "e_commit"}
LockedLabels == {"c_place", "c_order", "c_insert", "c_project", "c_status", "c_commit"}
LoadLabels == {"load_row", "load_lessons"}
OperatorLabels == {"idle", "replied", "r_lock", "r_rebuild", "z_lock", "z_commit"}
RequestLabels == {"idle", "replied", "c_lock"} \cup EnrollLabels \cup LockedLabels
                     \cup LoadLabels

----------------------------------------------------------------------------
(* Layer 1: control *)

RequestControl(p) ==
    /\ pc[p] \in RequestLabels
    /\ pc[p] \in EnrollLabels =>
          /\ arg[p].op = "enroll" /\ arg[p].member \in Members
          /\ arg[p].course \in Published
    /\ pc[p] \in {"e_project", "e_fk", "e_commit"} => arg[p].id \in used \/ wr[p].enr
    /\ pc[p] \in {"c_lock"} \cup LockedLabels =>
          /\ arg[p].op = "complete" /\ arg[p].lesson \in content
          /\ arg[p].member \in Members /\ arg[p].id \in used
    /\ pc[p] = "load_lessons" => head[p] \in HeadRow /\ head[p].id \in used
    /\ todo[p] \subseteq used
    /\ wr[p].enr => arg[p].id \in Ids
    /\ pc[p] # "idle" \/ arg[p] = NoArg

OperatorControl(p) ==
    /\ pc[p] \in OperatorLabels
    /\ todo[p] \subseteq used

Control ==
    /\ TypeOK
    /\ \A p \in Requests : RequestControl(p)
    /\ \A p \in Operators : OperatorControl(p)
    /\ \A id \in Ids : enr[id] # NoRow => id \in used

----------------------------------------------------------------------------
(* Layer 2: locks *)

(* Which rows a process may hold locks on at each point. *)
RequestLocks(p) ==
    /\ held[p] = IF pc[p] \in LockedLabels THEN {arg[p].id} ELSE {}
    /\ shared[p] = IF pc[p] = "e_commit" /\ wr[p].proj # NoRow THEN {arg[p].id} ELSE {}
    /\ pc[p] = "e_fk" => wr[p].proj # NoRow

OperatorLocks(p) ==
    /\ pc[p] \in {"idle", "replied"} => held[p] = {}
    /\ pc[p] = "r_lock" =>
          /\ Planned(p) \subseteq held[p] \cup todo[p]
          /\ \A id \in todo[p] : enr[id] # NoRow \/ <<"enr", id>> \in stale[p]
    /\ pc[p] = "r_rebuild" => Planned(p) \subseteq held[p]

(* A row lock excludes every other lock on the row. *)
Exclusion ==
    /\ \A p, q \in Procs : p # q => held[p] \cap held[q] = {}
    /\ \A p \in Procs, q \in Requests : p # q => held[p] \cap shared[q] = {}

(* A locked row is committed, or the locker's own insert. *)
LockedRowsExist ==
    /\ \A p \in Procs : \A id \in held[p] : enr[id] # NoRow
    /\ \A p \in Requests : \A id \in shared[p] : enr[id] # NoRow \/ wr[p].enr

Locking ==
    /\ \A p \in Requests : RequestLocks(p)
    /\ \A p \in Operators : OperatorLocks(p)
    /\ Exclusion
    /\ LockedRowsExist

----------------------------------------------------------------------------
(* Layer 3: rows and pending writes *)

PendingEnroll(p) ==
    wr[p].enr =>
        /\ pc[p] \in EnrollLabels \ {"e_insert"}
        /\ arg[p].id \notin used
        /\ \A q \in Requests \ {p} : arg[q].id # arg[p].id
        /\ pc[p] \in {"e_fk", "e_commit"} => wr[p].proj # NoRow

PendingWrites(p) ==
    /\ wr[p].evt =>
          /\ pc[p] \in {"c_project", "c_status", "c_commit"}
          /\ <<arg[p].id, arg[p].lesson>> \notin events
    /\ wr[p].proj # NoRow => pc[p] \in {"e_fk", "e_commit", "c_status", "c_commit"}
    /\ wr[p].status # NoRow => pc[p] = "c_commit"
    /\ pc[p] \in {"c_project", "c_status", "c_commit"} /\ ~ wr[p].evt =>
          <<arg[p].id, arg[p].lesson>> \in events

Rows ==
    /\ OneEnrollment
    /\ NoOrphans
    /\ \A p \in Requests : PendingEnroll(p) /\ PendingWrites(p)

----------------------------------------------------------------------------
(* Layer 4: withdrawal and reconciliation *)

(* A completion past its checks works on an enrollment not withdrawn. *)
CompletesActive ==
    \A p \in Requests : pc[p] \in LockedLabels =>
        enr[arg[p].id].status # "withdrawn"

(* The report still holds for rows nobody has changed since the snapshot:   *)
(* a planned status is withdrawn exactly when the row is.                   *)
PlanCurrent ==
    \A p \in Operators : pc[p] \in {"r_lock", "r_rebuild"} =>
        \A id \in Planned(p) : <<"enr", id>> \notin stale[p] =>
            /\ enr[id] # NoRow
            /\ (plan[p][id].status = "withdrawn") <=> (enr[id].status = "withdrawn")
            /\ plan[p][id].status \in {"withdrawn", DerivedStatus(plan[p][id])}

(* Locked rows do not go stale. *)
LockedNotStale ==
    \A p \in Operators : pc[p] \in {"r_lock", "r_rebuild"} =>
        \A id \in held[p] : <<"enr", id>> \notin stale[p]

Withdrawal == CompletesActive /\ PlanCurrent /\ LockedNotStale

----------------------------------------------------------------------------
(* Layer 5: the projection, while no row of it has been lost by hand *)

Unlost == faults = 0 \/ "lose" \notin FaultKinds

EnrollmentsProjected ==
    \A id \in Ids : enr[id] # NoRow => proj[id] # NoRow

(* What Enroll may still insert without having created the enrollment is    *)
(* the projection of an enrollment that is gone, and the foreign key        *)
(* refuses it.                                                              *)
EnrollProjects ==
    \A p \in Requests : pc[p] \in EnrollLabels /\ wr[p].proj # NoRow =>
        /\ wr[p].proj.done = 0
        /\ wr[p].enr \/ (enr[arg[p].id] = NoRow /\ pc[p] = "e_fk")

CompleteProjects ==
    \A p \in Requests :
        /\ pc[p] \in {"c_status", "c_commit"} =>
              wr[p].proj # NoRow /\ wr[p].proj.done = Cardinality(SeenLessons(p))
        /\ pc[p] = "c_commit" => wr[p].status = DerivedStatus(wr[p].proj)

PlanExact ==
    \A p \in Operators : pc[p] \in {"r_lock", "r_rebuild"} =>
        \A id \in Planned(p) : <<"enr", id>> \notin stale[p] =>
            plan[p][id].done = Cardinality(CompletedLessons(id))

Projected ==
    Unlost => EnrollmentsProjected /\ EnrollProjects /\ CompleteProjects /\ PlanExact

Projecting == Projected /\ ProjectionFaithful

IInv == Control /\ Locking /\ Rows /\ Withdrawal /\ Projecting

----------------------------------------------------------------------------
(* Layer 6: the lessons of a course, and what the commits tell the log *)

OrderedLabels == {"c_insert", "c_project", "c_status", "c_commit"}

(* Only lessons of the enrollment's own course are completed. *)
EventsPlaced ==
    \A id \in Ids : \A l \in CompletedLessons(id) : l \in CourseLessons(enr[id].course)

(* What the checks of CompleteLesson found still holds at its commit. *)
CompletePlaced(p) ==
    /\ pc[p] \in LockedLabels => arg[p].course = enr[arg[p].id].course
    /\ pc[p] \in {"c_order"} \cup OrderedLabels => CourseOf[arg[p].lesson] = arg[p].course
    /\ pc[p] \in OrderedLabels /\ arg[p].course \in Sequential =>
          \A k \in Original : Earlier(k, arg[p].lesson) => <<arg[p].id, k>> \in events
    /\ wr[p].status # "withdrawn"

(* A reset locks rows of the demo association only. *)
ResetPlaced(p) ==
    pc[p] \in {"z_lock", "z_commit"} =>
        \A id \in held[p] \cup todo[p] : enr[id] # NoRow => enr[id].member \in DemoMembers

Placing ==
    /\ Original \subseteq content
    /\ EventsPlaced /\ PrefixClosed
    /\ \A p \in Requests : CompletePlaced(p)
    /\ \A p \in Operators : ResetPlaced(p)

----------------------------------------------------------------------------
(* Layer 7: totals.  While the course is the one it was and no hand touched *)
(* a projection row, every total is the number of its lessons.              *)

Undisturbed == faults = 0 /\ content = Original

TotalsCurrent ==
    /\ \A id \in Ids : proj[id] # NoRow =>
          proj[id].total = Cardinality(CourseLessons(enr[id].course))
    /\ \A p \in Requests :
          /\ pc[p] \in EnrollLabels => arg[p].total = Cardinality(CourseLessons(arg[p].course))
          /\ wr[p].proj # NoRow =>
                wr[p].proj.total = Cardinality(CourseLessons(arg[p].course))
    /\ \A p \in Operators : Planned(p) = {}

Totals == ChecksNeverFire /\ (Undisturbed => TotalsCurrent)

----------------------------------------------------------------------------
(* Layer 8: answers *)

(* A committed completion is loaded, and nothing else is. *)
CompletionLoads(p) ==
    arg[p].op = "complete" =>
        /\ pc[p] \in LoadLabels \cup {"replied"} => arg[p].id \in used
        /\ pc[p] = "load_row" => todo[p] = {arg[p].id}
        /\ pc[p] = "load_lessons" => todo[p] = {} /\ head[p].id = arg[p].id
        /\ pc[p] \in LoadLabels =>
              enr[arg[p].id] = NoRow \/ arg[p].lesson \in CompletedLessons(arg[p].id)

(* While no hand touched a projection row, a count read is one the events   *)
(* had reached, and they only grow until the enrollment is deleted.         *)
CountsBehind(p) ==
    /\ pc[p] = "load_lessons" /\ faults = 0 /\ enr[head[p].id] # NoRow =>
          head[p].done <= Cardinality(CompletedLessons(head[p].id))
    /\ \A v \in out[p].views : v.id \in used

Answering ==
    /\ \A p \in Requests : CompletionLoads(p) /\ CountsBehind(p)
    /\ CompletionDurable /\ CountNeverAhead

----------------------------------------------------------------------------
(* Layer 9: what waits for what *)

(* Until it commits, an insert of a projection row is the only write of it: *)
(* the row is not there, and nobody else is writing it.                     *)
InsertAlone(p) ==
    pc[p] \in {"e_fk", "e_commit"} /\ wr[p].proj # NoRow =>
        /\ proj[arg[p].id] = NoRow
        /\ \A q \in Requests \ {p} : arg[q].id = arg[p].id => wr[q].proj = NoRow
        /\ \A q \in Operators : arg[p].id \notin Rebuilt(q)

InsertsAlone == \A p \in Requests : InsertAlone(p)

(* A repair rewrites the rows of its report, which it has locked, and no    *)
(* others.                                                                  *)
RepairsPlanned ==
    \A p \in Operators : pc[p] = "r_rebuild" => todo[p] \subseteq Planned(p)

Waiting == InsertsAlone /\ RepairsPlanned

Derived == Placing /\ Totals /\ Answering /\ Waiting

=============================================================================
