------------------------- MODULE LearningStoreProps -------------------------
(***************************************************************************)
(* The properties of LearningStore: what its runs check and its proofs      *)
(* establish.                                                               *)
(***************************************************************************)
EXTENDS LearningStore

OptRow(S) == S \cup {NoRow}

Labels == {"idle", "replied",
           "e_insert", "e_select", "e_project", "e_fk", "e_commit",
           "c_lock", "c_place", "c_order", "c_insert", "c_project", "c_status",
           "c_commit", "load_row", "load_lessons",
           "r_lock", "r_rebuild", "z_lock", "z_commit"}

HeadRow == [id : Ids, status : Statuses, done : Nat, total : Nat]
View == [id : Ids, status : Statuses, done : Nat, total : Nat,
         lessons : SUBSET Lessons, ticked : SUBSET Lessons]
Arg == [op : {"none", "enroll", "complete", "dashboard"},
        member : OptRow(Members), course : OptRow(Courses),
        id : OptRow(Ids), lesson : OptRow(Lessons), total : Nat]
Writes == [enr : BOOLEAN, evt : BOOLEAN, proj : OptRow(Projection),
           status : OptRow(Statuses)]
Reply == [kind : {"none", "ok", "not_found", "forbidden", "withdrawn",
                  "out_of_order", "internal"},
          created : BOOLEAN, views : SUBSET View]

(* Every table holds rows of its columns' types, every transaction and      *)
(* reply the values the Go variables can hold.                              *)
TypeOK ==
    /\ enr \in [Ids -> OptRow(Enrollment)]
    /\ proj \in [Ids -> OptRow(Projection)]
    /\ events \subseteq Ids \X Lessons
    /\ content \subseteq Lessons /\ used \subseteq Ids /\ faults \in 0..MaxFaults
    /\ pc \in [Procs -> Labels]
    /\ arg \in [Requests -> Arg]
    /\ wr \in [Requests -> Writes]
    /\ held \in [Procs -> SUBSET Ids] /\ todo \in [Procs -> SUBSET Ids]
    /\ shared \in [Requests -> SUBSET Ids]
    /\ plan \in [Operators -> [Ids -> OptRow(Expectation)]]
    /\ stale \in [Operators -> SUBSET ({"enr", "proj"} \X Ids)]
    /\ head \in [Requests -> OptRow(HeadRow)]
    /\ out \in [Requests -> Reply]

----------------------------------------------------------------------------
(* Safety *)

(* Enroll may be retried and raced: a member has at most one enrollment in  *)
(* a course, and a transaction about to create one is the only one and      *)
(* finds none, so at most one caller is ever told it created it.            *)
OneEnrollment ==
    \A m \in Members, c \in Courses :
        /\ \A i, j \in Enrolled(m, c) : i = j
        /\ \A p, q \in Inserting(m, c) : p = q
        /\ Inserting(m, c) # {} => Enrolled(m, c) = {}

(* The deletes of Reset cascade: no event or projection row outlives its    *)
(* enrollment, whatever requests were in flight.                            *)
NoOrphans ==
    \A id \in Ids : enr[id] = NoRow =>
        proj[id] = NoRow /\ CompletedLessons(id) = {}

(* While nobody has touched projection rows by hand, the projection of every *)
(* enrollment counts exactly its events, and the status follows from it      *)
(* unless the enrollment was withdrawn: no interleaving of Enroll,           *)
(* CompleteLesson, Reset and Reconcile loses an update.                      *)
ProjectionFaithful ==
    faults = 0 =>
        \A id \in Ids : enr[id] # NoRow =>
            /\ proj[id] # NoRow
            /\ proj[id].done = Cardinality(CompletedLessons(id))
            /\ enr[id].status \in {"withdrawn", DerivedStatus(proj[id])}

(* The check constraints of enrollment_progress never reject a write of the  *)
(* store or of the reconciliation: completed counts never exceed totals, in  *)
(* the table, in a write about to commit and in a planned repair.            *)
ChecksNeverFire ==
    /\ \A id \in Ids : proj[id] # NoRow => proj[id].done <= proj[id].total
    /\ \A p \in Requests : wr[p].proj # NoRow => wr[p].proj.done <= wr[p].proj.total
    /\ \A p \in Operators : \A id \in Planned(p) :
            plan[p][id].done <= plan[p][id].total

(* In a sequential course nobody has completed a lesson without all the     *)
(* lessons before it (by module, then lesson), for the lessons that were    *)
(* there from the start; two racing completions cannot leapfrog.            *)
PrefixClosed ==
    \A id \in Ids : \A l \in CompletedLessons(id) :
        CourseOf[l] \in Sequential =>
            \A k \in Original : Earlier(k, l) => k \in CompletedLessons(id)

(* An answer that reports a completion is never lost: the event is there,   *)
(* and the answer lists the lesson as completed, unless a reset has deleted *)
(* the enrollment meanwhile.                                                *)
CompletionDurable ==
    \A p \in Requests :
        pc[p] = "replied" /\ arg[p].op = "complete" /\ out[p].kind = "ok" =>
            \/ enr[arg[p].id] = NoRow
            \/ /\ arg[p].lesson \in CompletedLessons(arg[p].id)
               /\ \E v \in out[p].views : arg[p].lesson \in v.ticked

(* The two statements of loadEnrollmentProgress may straddle a commit, but  *)
(* the count a caller sees is never ahead of the lessons it sees completed, *)
(* unless a reset deleted the enrollment between them.                      *)
CountNeverAhead ==
    faults = 0 =>
        \A p \in Requests : \A v \in out[p].views :
            enr[v.id] # NoRow => v.done <= Cardinality(v.ticked)

(* A completion counted as new (recorded=true, HTTP 201) is new: its event  *)
(* is in no committed state and in no other transaction.                    *)
RecordedOnce ==
    \A p \in Requests : wr[p].evt =>
        /\ <<arg[p].id, arg[p].lesson>> \notin events
        /\ \A q \in Requests \ {p} :
             wr[q].evt => <<arg[q].id, arg[q].lesson>> # <<arg[p].id, arg[p].lesson>>

(* Reconcile never reports drift that no hand and no change of the course   *)
(* caused: concurrent traffic alone never looks like drift.                 *)
NoFalseDrift ==
    \A p \in Operators :
        Planned(p) # {} => faults > 0 \/ content # Original

(* Requests never deadlock among themselves: a circle of waiting            *)
(* transactions has an operator command in it, and two of them unless a     *)
(* projection row is missing, which is what an Enroll inserts.              *)
DeadlockNeedsCommands ==
    \A ps \in SUBSET Procs : WaitCycle(ps) =>
        /\ ps \cap Operators # {}
        /\ (\A id \in Ids : enr[id] # NoRow => proj[id] # NoRow) =>
              \E p, q \in ps \cap Operators : p # q

----------------------------------------------------------------------------
(* What a step may never do *)

(* Withdrawal is an explicit decision: no completion and no reconciliation  *)
(* in flight ever reactivates the enrollment.                               *)
WithdrawnStays ==
    [][\A id \in Ids :
          enr[id] # NoRow /\ enr[id].status = "withdrawn" =>
              enr'[id] \in {NoRow, enr[id]}]_vars

(* A repair is exact when it commits: every row Reconcile rewrites counts   *)
(* the events committed at that moment, and so does the status.             *)
RepairExact ==
    [][\A p \in Operators :
          pc[p] = "r_rebuild" /\ pc'[p] = "replied" =>
              \A id \in Planned(p) :
                  /\ proj'[id].done = Cardinality(CompletedLessons(id))
                  /\ enr'[id].status \in {"withdrawn", DerivedStatus(proj'[id])}]_vars

(* Readers never see drift: in what a caller gets, the count is the number  *)
(* of lessons shown as completed.                                           *)
ReadersNeverSeeDrift ==
    faults = 0 =>
        \A p \in Requests : \A v \in out[p].views : v.done = Cardinality(v.ticked)

----------------------------------------------------------------------------
(* Liveness *)

(* A process whose statement can run keeps running it, a process PostgreSQL *)
(* queues for a row lock gets its turn (strong fairness), and the deadlock  *)
(* detector runs after deadlock_timeout.  Nobody is obliged to call, to     *)
(* abort, or to issue statements by hand.                                   *)
Progress(p) ==
    \/ p \in Requests /\ RequestStep(p)
    \/ p \in Operators /\ CommandStep(p)
    \/ Return(p)

FairSpec ==
    /\ Spec
    /\ \A p \in Procs : SF_vars(Progress(p)) /\ WF_vars(DeadlockVictim(p))

(* Every request and every command comes back. *)
EveryCallReturns == \A p \in Procs : pc[p] # "idle" ~> pc[p] = "idle"

----------------------------------------------------------------------------
(* Refinement: the committed tables, without the projection, implement the  *)
(* atomic log.                                                              *)
ASSUME LogRowAssumption ==
    NoRow \notin [member : Members, course : Courses, withdrawn : BOOLEAN]

LogRow(id) ==
    IF enr[id] = NoRow THEN NoRow
    ELSE [member |-> enr[id].member, course |-> enr[id].course,
          withdrawn |-> enr[id].status = "withdrawn"]

Log == INSTANCE ProgressLog WITH
    enrolled <- [id \in Ids |-> LogRow(id)],
    done <- events, known <- content, spent <- used

(* Every step of the store is one atomic step of the log, or none. *)
ImplementsLog == Log!LogSpec

=============================================================================
