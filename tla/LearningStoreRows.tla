-------------------------- MODULE LearningStoreRows --------------------------
(***************************************************************************)
(* The second layer of the inductive invariant: row locks exclude each      *)
(* other and are held on rows that exist. The third: uncommitted writes fit *)
(* the committed rows, a pair has one enrollment, and nothing outlives it.  *)
(* The fourth: withdrawal is never undone. The fifth: projections and       *)
(* repairs count the events.                                                *)
(***************************************************************************)
EXTENDS LearningStoreTypes

(* Every lock p holds after a step it held before, or nobody stood in its   *)
(* way and the row was there.                                               *)
Granted(p) ==
    /\ \A id \in held'[p] \ held[p] : Lockers(p, id) = {} /\ enr[id] # NoRow
    /\ p \in Requests => \A id \in shared'[p] :
          \/ id \in shared[p] /\ wr'[p].enr = wr[p].enr
          \/ Excluders(p, id) = {} /\ (enr[id] # NoRow \/ wr'[p].enr)

LEMMA GrantedOthers ==
    ASSUME NEW p \in Procs, Frame(p), NEW q \in Procs, q # p
    PROVE  Granted(q)
BY DEF Frame, Granted

LEMMA ExclusionStep ==
    ASSUME Exclusion, NEW p \in Procs, Frame(p), Granted(p)
    PROVE  Exclusion'
<1>1. ASSUME NEW q \in Procs, q # p PROVE held'[p] \cap held'[q] = {}
  <2>1. held'[q] = held[q] /\ held[p] \cap held[q] = {}
    BY <1>1 DEF Frame, Exclusion
  <2> QED BY <1>1, <2>1 DEF Granted, Lockers, Excluders
<1>2. ASSUME NEW q \in Requests, q # p PROVE held'[p] \cap shared'[q] = {}
  <2>1. shared'[q] = shared[q] /\ held[p] \cap shared[q] = {}
    BY <1>2 DEF Frame, Exclusion
  <2> QED BY <1>2, <2>1 DEF Granted, Lockers
<1>3. ASSUME NEW q \in Procs, q # p, p \in Requests PROVE held'[q] \cap shared'[p] = {}
  <2>1. held'[q] = held[q] /\ held[q] \cap shared[p] = {}
    BY <1>3 DEF Frame, Exclusion
  <2> QED BY <1>3, <2>1 DEF Granted, Excluders
<1>4. ASSUME NEW q \in Procs, NEW r \in Procs, q # r PROVE held'[q] \cap held'[r] = {}
  <2>1. CASE q = p \/ r = p
    BY <1>1, <1>4, <2>1
  <2>2. CASE q # p /\ r # p
    BY <1>4, <2>2 DEF Frame, Exclusion
  <2> QED BY <2>1, <2>2
<1>5. ASSUME NEW q \in Procs, NEW r \in Requests, q # r PROVE held'[q] \cap shared'[r] = {}
  <2>1. CASE q = p \/ r = p
    BY <1>2, <1>3, <1>5, <2>1
  <2>2. CASE q # p /\ r # p
    BY <1>5, <2>2 DEF Frame, Exclusion
  <2> QED BY <2>1, <2>2
<1> QED BY <1>4, <1>5 DEF Exclusion

(* Only the commit of a Reset deletes an enrollment, one it has locked.     *)
LEMMA RowsVanish ==
    ASSUME Control, Locking, Next, NEW id \in Ids, enr[id] # NoRow, enr'[id] = NoRow
    PROVE  \E p \in Operators : ResetCommit(p) /\ id \in held[p]
<1>0. enr \in [Ids -> OptRow(Enrollment)] /\ TypeOK /\ enr[id] \in Enrollment
  BY DEF Control, TypeOK, OptRow
<1>s. \A row \in Enrollment, s \in Statuses : [row EXCEPT !.status = s] # NoRow
  BY NoRowAssumption DEF Enrollment
<1>1. CASE UNCHANGED db
  BY <1>1 DEF db
<1>2. ASSUME NEW p \in Requests, EnrollCommit(p) PROVE FALSE
  <2>1. [member |-> arg[p].member, course |-> arg[p].course, status |-> "active"] \in Enrollment
    <3>1. RequestControl(p) /\ pc[p] \in EnrollLabels
      BY <1>2 DEF Control, EnrollCommit, EnrollLabels
    <3> QED BY <3>1, DataAssumption DEF RequestControl, Enrollment, Statuses
  <2>2. \/ enr' = enr
        \/ enr' = [enr EXCEPT ![arg[p].id] = [member |-> arg[p].member,
                                   course |-> arg[p].course, status |-> "active"]]
    BY <1>2 DEF EnrollCommit
  <2> QED BY <1>0, <2>1, <2>2, NoRowAssumption
<1>3. ASSUME NEW p \in Requests, CompleteCommit(p) PROVE FALSE
  <2>1. \/ enr' = enr
        \/ wr[p].status # NoRow /\ enr' = [enr EXCEPT ![arg[p].id].status = wr[p].status]
    BY <1>3 DEF CompleteCommit
  <2>2. wr[p].status # NoRow => wr[p].status \in Statuses
    BY <1>0 DEF TypeOK, Writes, OptRow
  <2>3. enr' = enr \/ enr'[id] \in {enr[id], [enr[id] EXCEPT !.status = wr[p].status]}
    BY <1>0, <2>1
  <2> QED BY <1>0, <1>s, <2>1, <2>2, <2>3
<1>4. ASSUME NEW p \in Operators, ReconcileCommit(p) PROVE FALSE
  <2>1. enr'[id] = IF id \in Planned(p)
                   THEN [enr[id] EXCEPT !.status = plan[p][id].status] ELSE enr[id]
    BY <1>4 DEF ReconcileCommit
  <2>2. id \in Planned(p) => plan[p][id].status \in Statuses
    <3>1. plan[p] \in [Ids -> OptRow(Expectation)]
      BY <1>0 DEF TypeOK
    <3> QED BY <3>1 DEF Planned, OptRow, Expectation
  <2> QED BY <1>0, <1>s, <2>1, <2>2
<1>5. ASSUME NEW p \in Operators, ResetCommit(p) PROVE id \in held[p]
  BY <1>5 DEF ResetCommit
<1>6. CASE ByHand
  <2>1. ASSUME NEW i \in Ids, Withdraw(i) PROVE FALSE
    <3>1. enr' = [enr EXCEPT ![i].status = "withdrawn"]
      BY <2>1 DEF Withdraw
    <3>2. enr'[id] \in {enr[id], [enr[id] EXCEPT !.status = "withdrawn"]}
      BY <1>0, <3>1
    <3> QED BY <1>0, <1>s, <3>2 DEF Statuses
  <2>2. ASSUME enr' = enr PROVE FALSE
    BY <2>2
  <2> QED BY <1>6, <2>1, <2>2 DEF ByHand, AddLesson, LoseProjection, SkewProjection
<1> QED BY <1>0, <1>1, <1>2, <1>3, <1>4, <1>5, <1>6, TableSteps

LEMMA LockedRowsStep ==
    ASSUME Control, Control', Locking, Next, \A q \in Procs : Granted(q)
    PROVE  LockedRowsExist'
<1>1. ASSUME NEW q \in Procs, NEW id \in Ids, enr[id] # NoRow,
             id \in held'[q] \/ (q \in Requests /\ id \in shared'[q])
      PROVE  enr'[id] # NoRow
  <2>1. SUFFICES ASSUME enr'[id] = NoRow PROVE FALSE
    OBVIOUS
  <2>2. PICK r \in Operators : ResetCommit(r) /\ id \in held[r]
    BY <1>1, <2>1, RowsVanish
  <2>3. r \in Procs /\ Frame(r) /\ TypeOK
    BY <2>2, CommandFrame DEF CommandStep, Procs, Control
  <2>4. q # r
    BY <1>1, <2>2, <2>3, BoundAssumption DEF ResetCommit, TypeOK
  <2>5. held'[q] = held[q] /\ (q \in Requests => shared'[q] = shared[q])
    BY <2>3, <2>4 DEF Frame
  <2> QED BY <1>1, <2>2, <2>3, <2>4, <2>5 DEF Locking, Exclusion
<1>2. ASSUME NEW q \in Procs, NEW id \in held'[q] PROVE enr'[id] # NoRow
  <2>1. id \in Ids
    BY DEF Control, TypeOK
  <2>2. enr[id] # NoRow
    BY DEF Granted, Locking, LockedRowsExist
  <2> QED BY <1>1, <2>1, <2>2
<1>3. ASSUME NEW q \in Requests, NEW id \in shared'[q] PROVE enr'[id] # NoRow \/ wr'[q].enr
  <2>1. id \in Ids /\ q \in Procs
    BY DEF Control, TypeOK, Procs
  <2>2. enr[id] # NoRow \/ wr'[q].enr
    BY <2>1 DEF Granted, Locking, LockedRowsExist
  <2> QED BY <1>1, <2>1, <2>2
<1> QED BY <1>2, <1>3 DEF LockedRowsExist

(* Requests: which locks each statement takes and releases. *)
LEMMA RefuseLocks ==
    ASSUME TypeOK, NEW p \in Requests, NEW kind, Refuse(p, kind)
    PROVE  RequestLocks(p)' /\ Granted(p)
<1>1. p \in Procs /\ pc'[p] = "replied" /\ held'[p] = {} /\ shared'[p] = {}
  BY DEF Refuse, Goto, Release, TypeOK, Procs
<1> QED BY <1>1 DEF RequestLocks, LockedLabels, Granted

LEMMA AdvanceLocks ==
    ASSUME TypeOK, NEW p \in Requests, NEW label, Advance(p, label)
    PROVE  p \in Procs /\ pc'[p] = label
BY DEF Advance, Goto, TypeOK, Procs

LEMMA CallLocks ==
    ASSUME Control, Locking, NEW p \in Requests, Call(p)
    PROVE  RequestLocks(p)' /\ Granted(p)
<1>0. TypeOK /\ RequestLocks(p) /\ p \in Procs /\ pc \in [Procs -> Labels]
  BY DEF Control, Locking, Procs, TypeOK
<1>1. \/ \E kind : Refuse(p, kind)
      \/ /\ pc[p] = "idle" /\ UNCHANGED txn
         /\ pc'[p] \in {"e_insert", "c_lock", "replied", "load_row"}
  BY <1>0, AdvanceLocks
     DEF Call, EnrollBegin, CompleteBegin, DashboardBegin, Goto
<1>2. pc[p] # "idle" \/ (held[p] = {} /\ shared[p] = {})
  BY <1>0 DEF RequestLocks, LockedLabels
<1> QED BY <1>0, <1>1, <1>2, RefuseLocks DEF RequestLocks, LockedLabels, Granted, txn

LEMMA EnrollLocks ==
    ASSUME Control, Locking, Rows, NEW p \in Requests,
           \/ EnrollInsert(p) \/ EnrollSelect(p) \/ EnrollProject(p)
           \/ EnrollForeignKey(p) \/ EnrollCommit(p)
    PROVE  RequestLocks(p)' /\ Granted(p)
<1>0. /\ TypeOK /\ RequestLocks(p) /\ p \in Procs /\ PendingWrites(p)
      /\ pc \in [Procs -> Labels] /\ held \in [Procs -> SUBSET Ids]
      /\ shared \in [Requests -> SUBSET Ids] /\ wr \in [Requests -> Writes]
      /\ wr[p] \in Writes
  BY DEF Control, Locking, Rows, Procs, TypeOK
<1>r. ASSUME NEW kind, Refuse(p, kind) PROVE RequestLocks(p)' /\ Granted(p)
  BY <1>0, <1>r, RefuseLocks
<1>1. CASE EnrollInsert(p) \/ EnrollSelect(p)
  <2>1. \/ \E kind : Refuse(p, kind)
        \/ /\ pc[p] \in {"e_insert", "e_select"} /\ UNCHANGED <<held, shared>>
           /\ pc'[p] \in {"e_select", "e_project"}
    BY <1>0, <1>1, AdvanceLocks DEF EnrollInsert, EnrollSelect, txn
  <2>2. pc[p] \in {"e_insert", "e_select"} => held[p] = {} /\ shared[p] = {}
    BY <1>0 DEF RequestLocks, LockedLabels
  <2> QED BY <1>r, <2>1, <2>2 DEF RequestLocks, LockedLabels, Granted
<1>2. CASE EnrollProject(p)
  <2>1. held'[p] = {} /\ shared'[p] = {}
    BY <1>0, <1>2 DEF EnrollProject, RequestLocks, LockedLabels
  <2>2. \/ pc'[p] = "e_commit" /\ wr'[p] = wr[p]
        \/ pc'[p] = "e_fk" /\ wr'[p].proj = [done |-> 0, total |-> arg[p].total]
    BY <1>0, <1>2, AdvanceLocks DEF EnrollProject, Writes
  <2>3. wr[p].proj = NoRow
    BY <1>0, <1>2 DEF EnrollProject, PendingWrites
  <2>4. [done |-> 0, total |-> arg[p].total] # NoRow
    <3>1. arg[p].total \in Nat
      BY <1>0 DEF TypeOK, Arg
    <3> QED BY <3>1, NoRowAssumption DEF Projection
  <2> QED BY <2>1, <2>2, <2>3, <2>4 DEF RequestLocks, LockedLabels, Granted
<1>3. CASE EnrollForeignKey(p)
  <2>1. CASE \E kind : Refuse(p, kind)
    BY <1>r, <2>1
  <2>2. CASE ~ \E kind : Refuse(p, kind)
    <3>1. /\ pc[p] = "e_fk" /\ pc'[p] = "e_commit" /\ shared'[p] = {arg[p].id}
          /\ UNCHANGED <<arg, wr, held>> /\ Excluders(p, arg[p].id) = {}
          /\ wr[p].enr \/ enr[arg[p].id] # NoRow
      BY <1>0, <1>3, <2>2, AdvanceLocks DEF EnrollForeignKey
    <3> QED BY <1>0, <3>1 DEF RequestLocks, LockedLabels, Granted
  <2> QED BY <2>1, <2>2
<1>4. CASE EnrollCommit(p)
  <2>1. pc'[p] = "load_row" /\ held'[p] = {} /\ shared'[p] = {}
    BY <1>0, <1>4 DEF EnrollCommit, Goto, Release
  <2> QED BY <2>1 DEF RequestLocks, LockedLabels, Granted
<1> QED BY <1>1, <1>2, <1>3, <1>4

LEMMA CompleteLocks ==
    ASSUME Control, Locking, NEW p \in Requests,
           \/ CompleteLock(p) \/ CompletePlace(p) \/ CompleteOrder(p)
           \/ CompleteInsert(p) \/ CompleteProject(p) \/ CompleteStatus(p)
           \/ CompleteCommit(p)
    PROVE  RequestLocks(p)' /\ Granted(p)
<1>0. /\ TypeOK /\ RequestLocks(p) /\ p \in Procs /\ pc \in [Procs -> Labels]
      /\ held \in [Procs -> SUBSET Ids] /\ arg \in [Requests -> Arg] /\ arg[p] \in Arg
  BY DEF Control, Locking, Procs, TypeOK
<1>r. ASSUME NEW kind, Refuse(p, kind) PROVE RequestLocks(p)' /\ Granted(p)
  BY <1>0, <1>r, RefuseLocks
<1>1. CASE CompleteLock(p)
  <2>1. CASE \E kind : Refuse(p, kind)
    BY <1>r, <2>1
  <2>2. CASE ~ \E kind : Refuse(p, kind)
    <3>1. /\ pc[p] = "c_lock" /\ pc'[p] = "c_place" /\ held'[p] = {arg[p].id}
          /\ arg' = [arg EXCEPT ![p].course = enr[arg[p].id].course]
          /\ UNCHANGED <<wr, shared>> /\ Lockers(p, arg[p].id) = {}
          /\ enr[arg[p].id] # NoRow
      BY <1>0, <1>1, <2>2, AdvanceLocks DEF CompleteLock
    <3>2. arg'[p].id = arg[p].id
      BY <1>0, <3>1 DEF Arg
    <3>3. shared[p] = {}
      BY <1>0, <3>1 DEF RequestLocks
    <3> QED BY <1>0, <3>1, <3>2, <3>3 DEF RequestLocks, LockedLabels, Granted
  <2> QED BY <2>1, <2>2
<1>2. CASE CompletePlace(p) \/ CompleteOrder(p) \/ CompleteInsert(p) \/ CompleteProject(p)
              \/ CompleteStatus(p)
  <2>1. \/ \E kind : Refuse(p, kind)
        \/ /\ pc[p] \in LockedLabels /\ pc'[p] \in LockedLabels
           /\ UNCHANGED <<arg, held, shared>>
    BY <1>0, <1>2, AdvanceLocks
       DEF CompletePlace, CompleteOrder, CompleteInsert, CompleteProject, CompleteStatus,
           LockedLabels, txn
  <2>2. pc[p] \in LockedLabels => shared[p] = {}
    BY <1>0 DEF RequestLocks, LockedLabels
  <2> QED BY <1>0, <1>r, <2>1, <2>2 DEF RequestLocks, LockedLabels, Granted
<1>3. CASE CompleteCommit(p)
  <2>1. pc'[p] = "load_row" /\ held'[p] = {} /\ shared'[p] = {}
    BY <1>0, <1>3 DEF CompleteCommit, Goto, Release
  <2> QED BY <2>1 DEF RequestLocks, LockedLabels, Granted
<1> QED BY <1>1, <1>2, <1>3

LEMMA LoadLocks ==
    ASSUME Control, Locking, NEW p \in Requests, LoadLessons(p) \/ \E id \in Ids : LoadRow(p, id)
    PROVE  RequestLocks(p)' /\ Granted(p)
<1>0. TypeOK /\ RequestLocks(p) /\ p \in Procs /\ pc \in [Procs -> Labels]
  BY DEF Control, Locking, Procs, TypeOK
<1>1. \/ \E kind : Refuse(p, kind)
      \/ /\ pc[p] \in LoadLabels /\ UNCHANGED txn
         /\ pc'[p] \in {"load_row", "load_lessons", "replied"}
  BY <1>0 DEF LoadRow, LoadLessons, Goto, LoadLabels
<1>2. pc[p] \in LoadLabels => held[p] = {} /\ shared[p] = {}
  BY <1>0 DEF RequestLocks, LockedLabels, LoadLabels
<1> QED BY <1>0, <1>1, <1>2, RefuseLocks DEF RequestLocks, LockedLabels, Granted, txn

(* Operator commands. *)
LEMMA CommandLocks ==
    ASSUME Control, Locking, NEW p \in Operators, Command(p) \/ CommandStep(p)
    PROVE  OperatorLocks(p)' /\ Granted(p)
<1>0. /\ TypeOK /\ OperatorLocks(p) /\ p \in Procs /\ p \notin Requests
      /\ pc \in [Procs -> Labels] /\ held \in [Procs -> SUBSET Ids]
      /\ todo \in [Procs -> SUBSET Ids]
      /\ plan \in [Operators -> [Ids -> OptRow(Expectation)]]
  BY BoundAssumption DEF Control, Locking, Procs, TypeOK
<1>1. CASE ReconcileConflict(p)
  <2>1. pc'[p] = "idle" /\ held'[p] = {}
    BY <1>0, <1>1 DEF ReconcileConflict, GiveUp, Finish, Goto, Release
  <2> QED BY <1>0, <2>1 DEF OperatorLocks, Granted
<1>2. CASE ReconcileDryRun(p)
  <2>1. pc'[p] = "replied" /\ held'[p] = held[p] /\ pc[p] = "idle"
    BY <1>0, <1>2 DEF ReconcileDryRun, Goto
  <2> QED BY <1>0, <2>1 DEF OperatorLocks, Granted
<1>3. CASE ReconcileBegin(p)
  <2>1. /\ pc'[p] = "r_lock" /\ held' = held /\ enr' = enr /\ plan'[p] = ReportNow
        /\ todo'[p] = {id \in Ids : enr[id] # NoRow}
    BY <1>0, <1>3 DEF ReconcileBegin, Goto, db
  <2>2. Planned(p)' \subseteq todo'[p]
    BY <2>1 DEF Planned, ReportNow, Drifted
  <2> QED BY <1>0, <2>1, <2>2 DEF OperatorLocks, Granted
<1>4. ASSUME NEW id \in Ids, ReconcileLock(p, id)
      PROVE  OperatorLocks(p)' /\ Granted(p)
  <2>1. /\ pc[p] = "r_lock" /\ id \in todo[p] /\ <<"enr", id>> \notin stale[p]
        /\ Lockers(p, id) = {} /\ held'[p] = held[p] \cup {id} /\ todo'[p] = todo[p] \ {id}
        /\ UNCHANGED <<pc, plan, stale, enr>>
    BY <1>0, <1>4 DEF ReconcileLock, db
  <2>2. enr[id] # NoRow
    BY <1>0, <2>1 DEF OperatorLocks
  <2> QED BY <1>0, <2>1, <2>2 DEF OperatorLocks, Granted, Planned
<1>5. CASE ReconcileReport(p)
  <2>1. /\ pc[p] = "r_lock" /\ todo[p] = {} /\ plan' = plan
        /\ \/ pc'[p] = "replied" /\ held'[p] = {}
           \/ pc'[p] = "r_rebuild" /\ held'[p] = held[p]
    BY <1>0, <1>5 DEF ReconcileReport, Goto
  <2> QED BY <1>0, <2>1 DEF OperatorLocks, Granted, Planned
<1>6. ASSUME NEW id \in Ids, ReconcileRebuild(p, id)
      PROVE  OperatorLocks(p)' /\ Granted(p)
  <2>1. pc[p] = "r_rebuild" /\ UNCHANGED <<pc, held, plan>>
    BY <1>6 DEF ReconcileRebuild
  <2> QED BY <1>0, <2>1 DEF OperatorLocks, Granted, Planned
<1>7. CASE ReconcileCommit(p) \/ ResetCommit(p)
  <2>1. pc'[p] = "replied" /\ held'[p] = {}
    BY <1>0, <1>7 DEF ReconcileCommit, ResetCommit, Goto
  <2> QED BY <1>0, <2>1 DEF OperatorLocks, Granted
<1>8. CASE ResetBegin(p) \/ ResetCascade(p)
  <2>1. pc'[p] \in {"z_lock", "z_commit"} /\ held'[p] = held[p]
    BY <1>0, <1>8 DEF ResetBegin, ResetCascade, Goto
  <2> QED BY <1>0, <2>1 DEF OperatorLocks, Granted
<1>9. ASSUME NEW id \in Ids, ResetLock(p, id)
      PROVE  OperatorLocks(p)' /\ Granted(p)
  <2>1. /\ pc[p] = "z_lock" /\ pc' = pc /\ Lockers(p, id) = {}
        /\ held'[p] = IF enr[id] = NoRow THEN held[p] ELSE held[p] \cup {id}
    BY <1>0, <1>9 DEF ResetLock
  <2> QED BY <1>0, <2>1 DEF OperatorLocks, Granted
<1> QED BY <1>1, <1>2, <1>3, <1>4, <1>5, <1>6, <1>7, <1>8, <1>9 DEF Command, CommandStep

(* What a reconciliation has seen change stays changed. *)
LEMMA StaleGrows ==
    ASSUME TypeOK, Next, NEW q \in Operators, pc[q] \in {"r_lock", "r_rebuild"},
           pc'[q] \in {"r_lock", "r_rebuild"}
    PROVE  stale[q] \subseteq stale'[q]
<1>0. pc \in [Procs -> Labels] /\ q \in Procs
  BY DEF TypeOK, Procs
<1>1. ASSUME NEW rows, Touch(rows) PROVE stale[q] \subseteq stale'[q]
  BY <1>1 DEF Touch
<1>2. ASSUME NEW p \in Procs, Finish(p) PROVE stale[q] \subseteq stale'[q]
  BY <1>0, <1>2 DEF Finish, Goto
<1>3. ASSUME NEW p \in Requests, Call(p) PROVE stale' = stale
  BY <1>3 DEF Call, EnrollBegin, CompleteBegin, DashboardBegin, Refuse, Advance
<1>4. ASSUME NEW p \in Requests, NEW id \in Ids, LoadRow(p, id) PROVE stale' = stale
  BY <1>4 DEF LoadRow, Refuse
<1>5. ASSUME NEW p \in Requests,
             \/ EnrollInsert(p) \/ EnrollSelect(p) \/ EnrollProject(p) \/ EnrollForeignKey(p)
             \/ CompleteLock(p) \/ CompletePlace(p) \/ CompleteOrder(p)
             \/ CompleteInsert(p) \/ CompleteProject(p) \/ CompleteStatus(p) \/ LoadLessons(p)
      PROVE  stale' = stale
  BY <1>5 DEF EnrollInsert, EnrollSelect, EnrollProject, EnrollForeignKey, Refuse, Advance,
              CompleteLock, CompletePlace, CompleteOrder, CompleteInsert, CompleteProject,
              CompleteStatus, LoadLessons
<1>6. ASSUME NEW p \in Requests, EnrollCommit(p) \/ CompleteCommit(p)
      PROVE  stale[q] \subseteq stale'[q]
  BY <1>1, <1>6 DEF EnrollCommit, CompleteCommit
<1>7. ASSUME NEW p \in Operators, Command(p) PROVE stale[q] \subseteq stale'[q]
  <2>1. CASE ReconcileBegin(p)
    <3>1. q # p
      BY <2>1 DEF ReconcileBegin
    <3> QED BY <2>1, <3>1 DEF ReconcileBegin, TypeOK
  <2> QED BY <1>7, <2>1 DEF Command, ReconcileDryRun, ResetBegin
<1>8. ASSUME NEW p \in Operators, CommandStep(p) PROVE stale[q] \subseteq stale'[q]
  <2>1. CASE ReconcileConflict(p)
    BY <1>2, <2>1 DEF ReconcileConflict, GiveUp, Procs
  <2>2. CASE ReconcileCommit(p) \/ ResetCommit(p)
    BY <1>1, <2>2 DEF ReconcileCommit, ResetCommit
  <2> QED BY <1>8, <2>1, <2>2
          DEF CommandStep, ReconcileLock, ReconcileRebuild, ReconcileReport, ResetLock, ResetCascade
<1>9. CASE ByHand
  BY <1>1, <1>9 DEF ByHand, Withdraw, AddLesson, LoseProjection, SkewProjection
<1>10. ASSUME NEW p \in Procs, Return(p) \/ GiveUp(p) PROVE stale[q] \subseteq stale'[q]
  BY <1>2, <1>10 DEF Return, GiveUp
<1> QED BY <1>3, <1>4, <1>5, <1>6, <1>7, <1>8, <1>9, <1>10, Movers DEF RequestStep

LEMMA OperatorLocksOthers ==
    ASSUME Control, Locking, Next, NEW q \in Operators, OperatorLocks(q),
           UNCHANGED <<pc[q], held[q], todo[q], plan[q]>>
    PROVE  OperatorLocks(q)'
<1>1. Planned(q)' = Planned(q)
  BY DEF Planned
<1>2. ASSUME pc[q] = "r_lock", NEW id \in todo[q]
      PROVE  enr'[id] # NoRow \/ <<"enr", id>> \in stale'[q]
  <2>1. stale[q] \subseteq stale'[q]
    BY <1>2, StaleGrows DEF Control
  <2>2. id \in Ids /\ (enr[id] # NoRow \/ <<"enr", id>> \in stale[q])
    <3>1. todo[q] \in SUBSET Ids
      BY DEF Control, TypeOK, Procs
    <3> QED BY <1>2, <3>1 DEF OperatorLocks
  <2>3. CASE enr[id] # NoRow /\ enr'[id] = NoRow
    <3>1. PICK r \in Operators : ResetCommit(r) /\ id \in held[r]
      BY <2>2, <2>3, RowsVanish
    <3>2. stale'[q] = stale[q] \cup ({"enr", "proj"} \X held[r])
      BY <1>2, <3>1 DEF ResetCommit, Touch
    <3> QED BY <3>1, <3>2
  <2> QED BY <2>1, <2>2, <2>3
<1> QED BY <1>1, <1>2 DEF OperatorLocks

(* The second layer is preserved. *)
LEMMA LockingStep ==
    ASSUME Control, Control', Locking, Rows, Next
    PROVE  Locking'
<1>0. TypeOK
  BY DEF Control
<1>1. ASSUME NEW p \in Procs, Frame(p), Granted(p),
             p \in Requests => RequestLocks(p)', p \in Operators => OperatorLocks(p)'
      PROVE  Locking'
  <2>1. ASSUME NEW q \in Requests \ {p} PROVE RequestLocks(q)'
    <3>1. q \in Procs /\ RequestLocks(q)
      BY DEF Locking, Procs
    <3> QED BY <1>1, <3>1 DEF Frame, RequestLocks
  <2>2. ASSUME NEW q \in Operators \ {p} PROVE OperatorLocks(q)'
    <3>1. q \in Procs /\ OperatorLocks(q)
      BY DEF Locking, Procs
    <3>2. UNCHANGED <<pc[q], held[q], todo[q], plan[q]>>
      BY <1>1, <3>1 DEF Frame
    <3> QED BY <3>1, <3>2, OperatorLocksOthers
  <2>3. Exclusion'
    BY <1>1, ExclusionStep DEF Locking
  <2>4. \A q \in Procs : Granted(q)
    BY <1>1, GrantedOthers
  <2> QED BY <1>1, <2>1, <2>2, <2>3, <2>4, LockedRowsStep DEF Locking
<1>2. ASSUME NEW p \in Requests, Call(p) \/ RequestStep(p) PROVE Locking'
  <2>1. Frame(p) /\ p \in Procs /\ p \notin Operators
    BY <1>0, <1>2, RequestFrame, BoundAssumption DEF Procs
  <2>2. RequestLocks(p)' /\ Granted(p)
    BY <1>2, CallLocks, EnrollLocks, CompleteLocks, LoadLocks DEF RequestStep
  <2> QED BY <1>1, <2>1, <2>2
<1>3. ASSUME NEW p \in Operators, Command(p) \/ CommandStep(p) PROVE Locking'
  <2>1. Frame(p) /\ p \in Procs /\ p \notin Requests
    BY <1>0, <1>3, CommandFrame, BoundAssumption DEF Procs
  <2>2. OperatorLocks(p)' /\ Granted(p)
    BY <1>3, CommandLocks
  <2> QED BY <1>1, <2>1, <2>2
<1>4. ASSUME NEW p \in Procs, Return(p) \/ GiveUp(p) PROVE Locking'
  <2>1. Finish(p) /\ (Release(p) \/ (UNCHANGED txn /\ pc[p] = "replied"))
    BY <1>4 DEF Return, GiveUp
  <2>2. Frame(p) /\ pc'[p] = "idle"
    BY <1>0, <2>1, FinishFrame DEF Finish, Goto, TypeOK
  <2>3. held'[p] = {} /\ (p \in Requests => shared'[p] = {})
    <3>1. CASE Release(p)
      BY <1>0, <3>1 DEF Release, TypeOK
    <3>2. CASE UNCHANGED txn /\ pc[p] = "replied"
      BY <3>2 DEF Locking, RequestLocks, OperatorLocks, LockedLabels, Procs, txn
    <3> QED BY <2>1, <3>1, <3>2
  <2>4. Granted(p)
    BY <2>3 DEF Granted
  <2>5. p \in Requests => RequestLocks(p)'
    BY <2>2, <2>3 DEF RequestLocks, LockedLabels
  <2>6. p \in Operators => OperatorLocks(p)'
    BY <2>2, <2>3 DEF OperatorLocks
  <2> QED BY <1>1, <2>2, <2>4, <2>5, <2>6
<1>5. CASE ByHand
  <2>1. UNCHANGED <<pc, arg, wr, held, shared, todo, plan>>
    BY <1>5 DEF ByHand, Withdraw, AddLesson, LoseProjection, SkewProjection, Ambient, txn
  <2>2. ASSUME NEW q \in Requests PROVE RequestLocks(q)'
    <3>1. RequestLocks(q)
      BY DEF Locking
    <3> QED BY <2>1, <3>1 DEF RequestLocks
  <2>3. ASSUME NEW q \in Operators PROVE OperatorLocks(q)'
    BY <2>1, OperatorLocksOthers DEF Locking
  <2>4. Exclusion'
    BY <2>1 DEF Locking, Exclusion
  <2>5. \A q \in Procs : Granted(q)
    BY <2>1 DEF Granted
  <2> QED BY <2>2, <2>3, <2>4, <2>5, LockedRowsStep DEF Locking
<1> QED BY <1>2, <1>3, <1>4, <1>5, Movers

-----------------------------------------------------------------------------
(* The third layer. *)

(* The events of a locked enrollment are changed by its locker alone. *)
LEMMA EventsStep ==
    ASSUME Control, Locking, Next, NEW q \in Requests,
           pc[q] \in LockedLabels, pc'[q] \in LockedLabels, NEW l
    PROVE  <<arg[q].id, l>> \in events' <=> <<arg[q].id, l>> \in events
<1>0. /\ TypeOK /\ q \in Procs /\ held[q] = {arg[q].id}
      /\ pc \in [Procs -> Labels] /\ held \in [Procs -> SUBSET Ids]
  BY DEF Control, Locking, RequestLocks, Procs, TypeOK
<1>1. ASSUME NEW p \in Requests, CompleteCommit(p) PROVE arg[p].id # arg[q].id
  <2>1. p \in Procs /\ pc[p] = "c_commit" /\ pc'[p] = "load_row"
    BY <1>0, <1>1 DEF CompleteCommit, Goto, Procs
  <2>2. p # q /\ held[p] = {arg[p].id}
    BY <2>1 DEF LockedLabels, Locking, RequestLocks
  <2> QED BY <1>0, <2>1, <2>2 DEF Locking, Exclusion
<1>2. ASSUME NEW p \in Operators, ResetCommit(p) PROVE arg[q].id \notin held[p]
  BY <1>0, BoundAssumption DEF Locking, Exclusion, Procs
<1>3. ASSUME NEW p \in Requests, EnrollCommit(p) PROVE events' = events
  BY <1>3 DEF EnrollCommit
<1>4. ASSUME NEW p \in Operators, ReconcileCommit(p) PROVE events' = events
  BY <1>4 DEF ReconcileCommit
<1>5. CASE ByHand
  BY <1>5 DEF ByHand, Withdraw, AddLesson, LoseProjection, SkewProjection
<1>6. ASSUME NEW p \in Requests, CompleteCommit(p)
      PROVE  <<arg[q].id, l>> \in events' <=> <<arg[q].id, l>> \in events
  <2>1. \/ events' = events
        \/ events' = events \cup {<<arg[p].id, arg[p].lesson>>}
    BY <1>6 DEF CompleteCommit
  <2> QED BY <1>1, <1>6, <2>1
<1>7. ASSUME NEW p \in Operators, ResetCommit(p)
      PROVE  <<arg[q].id, l>> \in events' <=> <<arg[q].id, l>> \in events
  <2>1. events' = {e \in events : e[1] \notin held[p]}
    BY <1>7 DEF ResetCommit
  <2> QED BY <1>2, <1>7, <2>1
<1> QED BY <1>0, <1>3, <1>4, <1>5, <1>6, <1>7, TableSteps DEF db

(* An id about to be used is nobody else's. *)
LEMMA UsedStep ==
    ASSUME Control, Rows, Next, NEW q \in Requests, wr[q].enr, pc'[q] # "load_row"
    PROVE  arg[q].id \notin used'
<1>0. TypeOK /\ PendingEnroll(q) /\ arg[q].id \in Ids /\ q \in Procs
  BY DEF Control, Rows, RequestControl, Procs
<1>1. ASSUME NEW p \in Requests, EnrollCommit(p) PROVE arg[q].id \notin used'
  <2>1. p # q
    BY <1>0, <1>1 DEF EnrollCommit, Goto, TypeOK
  <2>2. arg[p].id # arg[q].id
    BY <1>0, <2>1 DEF PendingEnroll
  <2> QED BY <1>0, <1>1, <2>2 DEF EnrollCommit, PendingEnroll
<1>2. CASE used' = used
  BY <1>0, <1>2 DEF PendingEnroll
<1>3. ASSUME NEW p \in Operators, ReconcileCommit(p) \/ ResetCommit(p) PROVE used' = used
  BY <1>3 DEF ReconcileCommit, ResetCommit
<1>4. ASSUME NEW p \in Requests, CompleteCommit(p) PROVE used' = used
  BY <1>4 DEF CompleteCommit
<1>5. CASE ByHand
  BY <1>2, <1>5 DEF ByHand, Withdraw, AddLesson, LoseProjection, SkewProjection
<1> QED BY <1>0, <1>1, <1>2, <1>3, <1>4, <1>5, TableSteps DEF db

LEMMA ArgStep ==
    ASSUME Control, Rows, NEW p \in Requests, NEW q \in Requests \ {p}, wr[q].enr,
           Call(p) \/ RequestStep(p) \/ Return(p) \/ GiveUp(p)
    PROVE  arg'[p].id # arg[q].id
<1>0. /\ TypeOK /\ arg \in [Requests -> Arg] /\ arg[p] \in Arg /\ arg[q].id \in Ids
      /\ arg[q].id \notin used /\ arg[q].id # arg[p].id
  BY DEF Control, Rows, PendingEnroll, RequestControl, TypeOK
<1>1. ASSUME arg' = arg PROVE arg'[p].id # arg[q].id
  BY <1>0, <1>1
<1>2. ASSUME NEW kind, Refuse(p, kind) PROVE arg' = arg
  BY <1>2 DEF Refuse
<1>3. NoArg.id # arg[q].id
  BY <1>0, NoRowAssumption DEF NoArg
<1>4. ASSUME Call(p) PROVE arg'[p].id # arg[q].id
  <2>1. ASSUME NEW m \in Members, NEW c \in Courses, EnrollBegin(p, m, c), arg' # arg
        PROVE  arg'[p].id = NoArg.id
    BY <1>0, <1>2, <2>1 DEF EnrollBegin, NoArg
  <2>2. ASSUME NEW m \in Members, NEW id \in Ids, NEW l \in Lessons, CompleteBegin(p, m, id, l)
        PROVE  arg'[p].id \in used
    BY <1>0, <2>2 DEF CompleteBegin, NoArg
  <2>3. ASSUME NEW m \in Members, DashboardBegin(p, m) PROVE arg'[p].id = NoArg.id
    BY <1>0, <2>3 DEF DashboardBegin, NoArg
  <2> QED BY <1>0, <1>1, <1>3, <1>4, <2>1, <2>2, <2>3 DEF Call
<1>5. CASE EnrollInsert(p)
  <2>1. ASSUME NEW id \in Ids, Fresh(id), arg' = [arg EXCEPT ![p].id = id]
        PROVE  arg'[p].id # arg[q].id
    <3>1. arg'[p].id = id
      BY <1>0, <2>1 DEF Arg
    <3> QED BY <2>1, <3>1 DEF Fresh
  <2> QED BY <1>1, <1>5, <2>1 DEF EnrollInsert
<1>6. CASE EnrollSelect(p)
  <2>1. ASSUME NEW id, id = arg[p].id \/ id \in Enrolled(arg[p].member, arg[p].course),
               arg' = [arg EXCEPT ![p].id = id]
        PROVE  arg'[p].id # arg[q].id
    <3>1. arg'[p].id = id
      BY <1>0, <2>1 DEF Arg
    <3> QED BY <1>0, <2>1, <3>1 DEF Enrolled, Control
  <2> QED BY <1>1, <1>2, <1>6, <2>1 DEF EnrollSelect
<1>7. CASE CompleteLock(p)
  <2>1. ASSUME arg' = [arg EXCEPT ![p].course = enr[arg[p].id].course]
        PROVE  arg'[p].id = arg[p].id
    BY <1>0, <2>1 DEF Arg
  <2> QED BY <1>0, <1>1, <1>2, <1>7, <2>1 DEF CompleteLock
<1>8. CASE EnrollProject(p) \/ EnrollForeignKey(p) \/ EnrollCommit(p)
  BY <1>1, <1>2, <1>8 DEF EnrollProject, EnrollForeignKey, EnrollCommit
<1>9. CASE \/ CompletePlace(p) \/ CompleteOrder(p) \/ CompleteInsert(p)
           \/ CompleteProject(p) \/ CompleteStatus(p) \/ CompleteCommit(p)
  BY <1>1, <1>2, <1>9 DEF CompletePlace, CompleteOrder, CompleteInsert, CompleteProject,
                          CompleteStatus, CompleteCommit
<1>10. CASE LoadLessons(p) \/ \E id \in Ids : LoadRow(p, id)
  BY <1>1, <1>2, <1>10 DEF LoadLessons, LoadRow
<1>11. CASE Return(p) \/ GiveUp(p)
  <2>1. arg'[p] = NoArg
    BY <1>11 DEF Return, GiveUp, Finish
  <2> QED BY <1>3, <2>1
<1> QED BY <1>4, <1>5, <1>6, <1>7, <1>8, <1>9, <1>10, <1>11 DEF RequestStep

(* Nothing pending is in order at any point before the first write.         *)
LEMMA PendingRest ==
    ASSUME NEW p \in Requests, wr'[p] = NoWrites,
           pc'[p] \notin {"c_project", "c_status", "c_commit"}
    PROVE  PendingEnroll(p)' /\ PendingWrites(p)'
BY DEF PendingEnroll, PendingWrites, NoWrites

LEMMA PendingRefuse ==
    ASSUME TypeOK, NEW p \in Requests, NEW kind, Refuse(p, kind)
    PROVE  PendingEnroll(p)' /\ PendingWrites(p)'
<1>1. wr'[p] = NoWrites /\ pc'[p] = "replied"
  BY DEF Refuse, Release, Goto, TypeOK, Procs
<1> QED BY <1>1, PendingRest

LEMMA PendingFinish ==
    ASSUME TypeOK, Rows, NEW p \in Requests, Return(p) \/ GiveUp(p)
    PROVE  PendingEnroll(p)' /\ PendingWrites(p)'
<1>1. pc'[p] = "idle"
  BY DEF Return, GiveUp, Finish, Goto, TypeOK, Procs
<1>2. wr'[p] = NoWrites
  BY NothingPending DEF Return, GiveUp, Release, txn
<1> QED BY <1>1, <1>2, PendingRest

LEMMA PendingCall ==
    ASSUME TypeOK, Rows, NEW p \in Requests, Call(p)
    PROVE  PendingEnroll(p)' /\ PendingWrites(p)'
<1>1. \/ \E kind : Refuse(p, kind)
      \/ /\ pc[p] = "idle" /\ UNCHANGED txn
         /\ pc'[p] \in {"e_insert", "c_lock", "replied", "load_row"}
  BY AdvanceLocks DEF Call, EnrollBegin, CompleteBegin, DashboardBegin, Goto, TypeOK, Procs
<1> QED BY <1>1, NothingPending, PendingRefuse, PendingRest DEF txn

LEMMA PendingEnrolling ==
    ASSUME Control, Locking, Rows, NEW p \in Requests, Frame(p),
           \/ EnrollInsert(p) \/ EnrollSelect(p) \/ EnrollProject(p)
           \/ EnrollForeignKey(p) \/ EnrollCommit(p)
    PROVE  PendingEnroll(p)' /\ PendingWrites(p)'
<1>0. /\ TypeOK /\ PendingEnroll(p) /\ PendingWrites(p) /\ RequestControl(p)
      /\ arg \in [Requests -> Arg] /\ arg[p] \in Arg
      /\ wr \in [Requests -> Writes] /\ wr[p] \in Writes
      /\ \A q \in Requests \ {p} : arg'[q] = arg[q]
  BY DEF Control, Rows, TypeOK, Frame
<1>r. ASSUME NEW kind, Refuse(p, kind) PROVE PendingEnroll(p)' /\ PendingWrites(p)'
  BY <1>0, <1>r, PendingRefuse
<1>1. CASE EnrollInsert(p)
  <2>1. wr[p] = NoWrites /\ pc'[p] = "e_select" /\ used' = used
    BY <1>0, <1>1, NothingPending, AdvanceLocks DEF EnrollInsert, Advance, db
  <2>2. CASE wr' = wr
    BY <2>1, <2>2, PendingRest
  <2>3. CASE wr' # wr
    <3>1. PICK id \in Ids : /\ Fresh(id) /\ arg' = [arg EXCEPT ![p].id = id]
                            /\ wr' = [wr EXCEPT ![p].enr = TRUE]
      BY <1>1, <2>3 DEF EnrollInsert
    <3>2. arg'[p].id = id /\ wr'[p] = [NoWrites EXCEPT !.enr = TRUE]
      BY <1>0, <2>1, <3>1 DEF Arg
    <3>3. /\ ~ wr'[p].evt /\ wr'[p].proj = NoRow /\ wr'[p].status = NoRow
      BY <3>2 DEF NoWrites
    <3>4. PendingEnroll(p)'
      BY <1>0, <2>1, <3>1, <3>2 DEF PendingEnroll, EnrollLabels, Fresh
    <3>5. PendingWrites(p)'
      BY <2>1, <3>3 DEF PendingWrites
    <3> QED BY <3>4, <3>5
  <2> QED BY <2>2, <2>3
<1>2. CASE EnrollSelect(p)
  <2>1. CASE \E kind : Refuse(p, kind)
    BY <1>r, <2>1
  <2>2. CASE ~ \E kind : Refuse(p, kind)
    <3>1. PICK id : /\ id \in IF wr[p].enr THEN {arg[p].id}
                              ELSE Enrolled(arg[p].member, arg[p].course)
                    /\ arg' = [arg EXCEPT ![p].id = id]
      BY <1>2, <2>2 DEF EnrollSelect
    <3>2. arg'[p].id = id
      BY <1>0, <3>1 DEF Arg
    <3>3. wr' = wr /\ used' = used /\ pc'[p] = "e_project" /\ pc[p] = "e_select"
      BY <1>0, <1>2, <2>2, AdvanceLocks DEF EnrollSelect, Advance, db, txn
    <3>4. PendingEnroll(p)'
      BY <1>0, <3>1, <3>2, <3>3 DEF PendingEnroll, EnrollLabels
    <3>5. PendingWrites(p)'
      BY <1>0, <3>3 DEF PendingWrites
    <3> QED BY <3>4, <3>5
  <2> QED BY <2>1, <2>2
<1>3. CASE EnrollProject(p)
  <2>1. /\ pc[p] = "e_project" /\ pc'[p] \in {"e_fk", "e_commit"}
        /\ UNCHANGED <<arg, used, events>>
        /\ wr'[p].enr = wr[p].enr /\ wr'[p].evt = wr[p].evt /\ wr'[p].status = wr[p].status
    BY <1>0, <1>3, AdvanceLocks DEF EnrollProject, Advance, db, Writes
  <2>2. wr[p].enr => wr'[p].proj # NoRow
    <3>1. ASSUME wr[p].enr PROVE proj[arg[p].id] = NoRow
      <4>1. arg[p].id \in Ids /\ arg[p].id \notin used
        BY <1>0, <3>1 DEF RequestControl, PendingEnroll
      <4> QED BY <4>1 DEF Rows, NoOrphans, Control
    <3>2. ASSUME wr[p].enr
          PROVE  wr'[p].proj = [done |-> 0, total |-> arg[p].total]
      BY <1>0, <1>3, <3>1, <3>2 DEF EnrollProject, Writes
    <3>3. [done |-> 0, total |-> arg[p].total] # NoRow
      BY <1>0, NoRowAssumption DEF Projection, Arg
    <3> QED BY <3>2, <3>3
  <2>3. PendingEnroll(p)'
    BY <1>0, <2>1, <2>2 DEF PendingEnroll, EnrollLabels
  <2>4. PendingWrites(p)'
    BY <1>0, <2>1 DEF PendingWrites
  <2> QED BY <2>3, <2>4
<1>4. CASE EnrollForeignKey(p)
  <2>1. CASE \E kind : Refuse(p, kind)
    BY <1>r, <2>1
  <2>2. CASE ~ \E kind : Refuse(p, kind)
    <3>1. /\ pc[p] = "e_fk" /\ pc'[p] = "e_commit"
          /\ UNCHANGED <<arg, wr, used, events>>
      BY <1>0, <1>4, <2>2, AdvanceLocks DEF EnrollForeignKey, Advance, db
    <3>2. PendingEnroll(p)'
      BY <1>0, <3>1 DEF PendingEnroll, EnrollLabels
    <3>3. PendingWrites(p)'
      BY <1>0, <3>1 DEF PendingWrites
    <3> QED BY <3>2, <3>3
  <2> QED BY <2>1, <2>2
<1>5. CASE EnrollCommit(p)
  <2>1. wr'[p] = NoWrites /\ pc'[p] = "load_row"
    BY <1>0, <1>5 DEF EnrollCommit, Release, Goto, TypeOK, Procs
  <2> QED BY <2>1, PendingRest
<1> QED BY <1>1, <1>2, <1>3, <1>4, <1>5

LEMMA PendingCompleting ==
    ASSUME Control, Rows, NEW p \in Requests,
           \/ CompleteLock(p) \/ CompletePlace(p) \/ CompleteOrder(p)
           \/ CompleteInsert(p) \/ CompleteProject(p) \/ CompleteStatus(p)
           \/ CompleteCommit(p)
    PROVE  PendingEnroll(p)' /\ PendingWrites(p)'
<1>0. /\ TypeOK /\ PendingEnroll(p) /\ PendingWrites(p)
      /\ wr \in [Requests -> Writes] /\ wr[p] \in Writes
  BY DEF Control, Rows, TypeOK
<1>r. ASSUME NEW kind, Refuse(p, kind) PROVE PendingEnroll(p)' /\ PendingWrites(p)'
  BY <1>0, <1>r, PendingRefuse
<1>1. CASE CompleteLock(p) \/ CompletePlace(p) \/ CompleteOrder(p)
  <2>1. \/ \E kind : Refuse(p, kind)
        \/ /\ pc[p] \in {"c_lock", "c_place", "c_order"} /\ wr' = wr
           /\ pc'[p] \in {"c_place", "c_order", "c_insert"}
    BY <1>0, <1>1, AdvanceLocks DEF CompleteLock, CompletePlace, CompleteOrder, txn
  <2> QED BY <1>0, <1>r, <2>1, NothingPending, PendingRest
<1>2. CASE CompleteInsert(p)
  <2>1. /\ wr[p] = NoWrites /\ pc'[p] = "c_project" /\ UNCHANGED <<arg, events>>
        /\ wr'[p] = [NoWrites EXCEPT !.evt = <<arg[p].id, arg[p].lesson>> \notin events]
    BY <1>0, <1>2, NothingPending, AdvanceLocks DEF CompleteInsert, Advance, db
  <2>2. /\ wr'[p].evt <=> <<arg[p].id, arg[p].lesson>> \notin events
        /\ ~ wr'[p].enr /\ wr'[p].proj = NoRow /\ wr'[p].status = NoRow
    BY <2>1 DEF NoWrites
  <2> QED BY <2>1, <2>2 DEF PendingEnroll, PendingWrites
<1>3. CASE CompleteProject(p)
  <2>1. /\ pc[p] = "c_project" /\ pc'[p] = "c_status" /\ UNCHANGED <<arg, events>>
        /\ wr'[p].enr = wr[p].enr /\ wr'[p].evt = wr[p].evt /\ wr'[p].status = wr[p].status
    BY <1>0, <1>3, AdvanceLocks DEF CompleteProject, Advance, db, Writes
  <2> QED BY <1>0, <2>1 DEF PendingEnroll, PendingWrites, EnrollLabels
<1>4. CASE CompleteStatus(p)
  <2>1. /\ pc[p] = "c_status" /\ pc'[p] = "c_commit" /\ UNCHANGED <<arg, events>>
        /\ wr'[p].enr = wr[p].enr /\ wr'[p].evt = wr[p].evt
    BY <1>0, <1>4, AdvanceLocks DEF CompleteStatus, Advance, db, Writes
  <2> QED BY <1>0, <2>1 DEF PendingEnroll, PendingWrites, EnrollLabels
<1>5. CASE CompleteCommit(p)
  <2>1. wr'[p] = NoWrites /\ pc'[p] = "load_row"
    BY <1>0, <1>5 DEF CompleteCommit, Release, Goto, TypeOK, Procs
  <2> QED BY <2>1, PendingRest
<1> QED BY <1>1, <1>2, <1>3, <1>4, <1>5

LEMMA PendingLoading ==
    ASSUME TypeOK, Rows, NEW p \in Requests, LoadLessons(p) \/ \E id \in Ids : LoadRow(p, id)
    PROVE  PendingEnroll(p)' /\ PendingWrites(p)'
<1>1. \/ \E kind : Refuse(p, kind)
      \/ /\ pc[p] \in {"load_row", "load_lessons"} /\ wr' = wr
         /\ pc'[p] \in {"load_row", "load_lessons", "replied"}
  BY DEF LoadRow, LoadLessons, Goto, TypeOK, Procs, txn
<1> QED BY <1>1, NothingPending, PendingRefuse, PendingRest

(* The other requests' pending writes stay in order. *)
LEMMA PendingOthers ==
    ASSUME Control, Locking, Rows, Next, NEW q \in Requests,
           UNCHANGED <<pc[q], arg[q], wr[q]>>,
           wr[q].enr => \A p \in Requests \ {q} : arg'[p].id # arg[q].id
    PROVE  PendingEnroll(q)' /\ PendingWrites(q)'
<1>0. PendingEnroll(q) /\ PendingWrites(q)
  BY DEF Rows
<1>1. ASSUME wr[q].enr PROVE arg[q].id \notin used'
  <2>1. pc'[q] # "load_row"
    BY <1>0, <1>1 DEF PendingEnroll, EnrollLabels
  <2> QED BY <1>1, <2>1, UsedStep
<1>2. PendingEnroll(q)'
  BY <1>0, <1>1 DEF PendingEnroll
<1>3. pc[q] \in {"c_project", "c_status", "c_commit"} =>
         (<<arg[q].id, arg[q].lesson>> \in events' <=> <<arg[q].id, arg[q].lesson>> \in events)
  BY EventsStep DEF LockedLabels
<1>4. PendingWrites(q)'
  BY <1>0, <1>3 DEF PendingWrites
<1> QED BY <1>2, <1>4

(* Pending writes are preserved. *)
LEMMA PendingStep ==
    ASSUME Control, Locking, Rows, Next
    PROVE  \A q \in Requests : PendingEnroll(q)' /\ PendingWrites(q)'
<1>0. TypeOK
  BY DEF Control
<1>1. ASSUME NEW p \in Requests, Call(p) \/ RequestStep(p) \/ Return(p) \/ GiveUp(p)
      PROVE  \A q \in Requests : PendingEnroll(q)' /\ PendingWrites(q)'
  <2>1. p \in Procs /\ Frame(p)
    BY <1>0, <1>1, RequestFrame, FinishFrame DEF Procs, Return, GiveUp
  <2>2. PendingEnroll(p)' /\ PendingWrites(p)'
    BY <1>0, <1>1, <2>1, PendingCall, PendingEnrolling, PendingCompleting, PendingLoading,
       PendingFinish DEF RequestStep
  <2>3. ASSUME NEW q \in Requests \ {p} PROVE PendingEnroll(q)' /\ PendingWrites(q)'
    <3>1. UNCHANGED <<pc[q], arg[q], wr[q]>>
      BY <2>1 DEF Frame, Procs
    <3>2. ASSUME wr[q].enr, NEW r \in Requests \ {q} PROVE arg'[r].id # arg[q].id
      <4>1. CASE r = p
        BY <1>1, <3>2, <4>1, ArgStep
      <4>2. CASE r # p
        BY <2>1, <3>2, <4>2 DEF Frame, Rows, PendingEnroll
      <4> QED BY <4>1, <4>2
    <3> QED BY <3>1, <3>2, PendingOthers
  <2> QED BY <2>2, <2>3
<1>2. ASSUME UNCHANGED <<arg, wr>>, \A q \in Requests : pc'[q] = pc[q]
      PROVE  \A q \in Requests : PendingEnroll(q)' /\ PendingWrites(q)'
  BY <1>2, PendingOthers DEF Rows, PendingEnroll
<1>3. ASSUME NEW p \in Operators, Command(p) \/ CommandStep(p) \/ Return(p) \/ GiveUp(p)
      PROVE  \A q \in Requests : PendingEnroll(q)' /\ PendingWrites(q)'
  <2>1. p \in Procs /\ Frame(p) /\ p \notin Requests
    BY <1>0, <1>3, CommandFrame, FinishFrame, BoundAssumption DEF Procs, Return, GiveUp
  <2>2. \A q \in Requests : UNCHANGED <<pc[q], arg[q], wr[q]>>
    BY <2>1 DEF Frame, Procs
  <2> QED BY <2>2, PendingOthers DEF Rows, PendingEnroll
<1>4. CASE ByHand
  <2>1. UNCHANGED <<pc, arg, wr>>
    BY <1>4 DEF ByHand, Withdraw, AddLesson, LoseProjection, SkewProjection, Ambient, txn
  <2> QED BY <1>2, <2>1
<1> QED BY <1>1, <1>3, <1>4, Movers DEF Procs

(* No event and no projection row outlives its enrollment. *)
LEMMA NoOrphansStep ==
    ASSUME Control, Locking, Rows, Next
    PROVE  NoOrphans'
<1> DEFINE Clean(id) == proj[id] = NoRow /\ \A l : <<id, l>> \notin events
<1>0. /\ TypeOK /\ enr \in [Ids -> OptRow(Enrollment)] /\ proj \in [Ids -> OptRow(Projection)]
      /\ events \subseteq Ids \X Lessons
  BY DEF Control, TypeOK
<1>1. ASSUME NEW id \in Ids, enr[id] = NoRow PROVE Clean(id)
  <2>1. proj[id] = NoRow /\ CompletedLessons(id) = {}
    BY <1>1 DEF Rows, NoOrphans
  <2> QED BY <1>0, <2>1 DEF CompletedLessons
<1>2. ASSUME NEW id \in Ids, enr'[id] = NoRow PROVE Clean(id)'
  <2>1. CASE enr[id] # NoRow
    <3>1. PICK p \in Operators : ResetCommit(p) /\ id \in held[p]
      BY <1>2, <2>1, RowsVanish
    <3> QED BY <1>2, <3>1 DEF ResetCommit
  <2>2. CASE enr[id] = NoRow
    <3>0. Clean(id)
      BY <1>1, <2>2
    <3>1. CASE UNCHANGED db
      BY <3>0, <3>1 DEF db
    <3>2. ASSUME NEW p \in Requests, EnrollCommit(p) PROVE Clean(id)'
      <4>1. events' = events
        BY <3>2 DEF EnrollCommit
      <4>2. CASE wr[p].proj = NoRow \/ arg[p].id # id
        BY <1>0, <3>0, <3>2, <4>1, <4>2 DEF EnrollCommit
      <4>3. CASE wr[p].proj # NoRow /\ arg[p].id = id
        <5>1. pc[p] = "e_commit" /\ id \in shared[p]
          BY <3>2, <4>3 DEF EnrollCommit, Locking, RequestLocks
        <5>2. wr[p].enr
          BY <2>2, <5>1 DEF Locking, LockedRowsExist
        <5>3. arg[p].member \in Members /\ arg[p].course \in Courses
          BY <5>1, DataAssumption DEF Control, RequestControl, EnrollLabels
        <5>4. enr'[id] = [member |-> arg[p].member, course |-> arg[p].course, status |-> "active"]
          BY <1>0, <3>2, <4>3, <5>2 DEF EnrollCommit
        <5>5. enr'[id] \in Enrollment
          BY <5>3, <5>4 DEF Enrollment, Statuses
        <5> QED BY <1>2, <5>5, NoRowAssumption
      <4> QED BY <4>2, <4>3
    <3>3. ASSUME NEW p \in Requests, CompleteCommit(p) PROVE Clean(id)'
      <4>1. p \in Procs /\ pc[p] \in LockedLabels
        BY <3>3 DEF CompleteCommit, LockedLabels, Procs
      <4>2. arg[p].id # id
        BY <2>2, <4>1 DEF Locking, RequestLocks, LockedRowsExist
      <4>3. \/ events' = events
            \/ events' = events \cup {<<arg[p].id, arg[p].lesson>>}
        BY <3>3 DEF CompleteCommit
      <4>4. proj'[id] = proj[id]
        BY <1>0, <3>3, <4>2 DEF CompleteCommit
      <4> QED BY <3>0, <4>2, <4>3, <4>4
    <3>4. ASSUME NEW p \in Operators, ReconcileCommit(p) PROVE Clean(id)'
      <4>1. p \in Procs /\ pc[p] = "r_rebuild"
        BY <3>4 DEF ReconcileCommit, Procs
      <4>2. id \notin Planned(p)
        BY <2>2, <4>1 DEF Locking, OperatorLocks, LockedRowsExist
      <4> QED BY <3>0, <3>4, <4>2 DEF ReconcileCommit
    <3>5. ASSUME NEW p \in Operators, ResetCommit(p) PROVE Clean(id)'
      BY <3>0, <3>5 DEF ResetCommit
    <3>6. CASE ByHand
      <4>1. ASSUME NEW i \in Ids, LoseProjection(i) PROVE Clean(id)'
        BY <1>0, <3>0, <4>1 DEF LoseProjection
      <4>2. ASSUME NEW i \in Ids, NEW n, SkewProjection(i, n) PROVE Clean(id)'
        BY <1>0, <3>0, <4>2 DEF SkewProjection
      <4> QED BY <3>0, <3>6, <4>1, <4>2 DEF ByHand, Withdraw, AddLesson
    <3> QED BY <1>0, <3>1, <3>2, <3>3, <3>4, <3>5, <3>6, TableSteps
  <2> QED BY <2>1, <2>2
<1> QED BY <1>2 DEF NoOrphans, CompletedLessons

(* Who is inserting an enrollment: at most the process that just found none *)
(* and nobody else at it.                                                   *)
LEMMA InsertingStep ==
    ASSUME Control, Rows, NEW p \in Procs, Frame(p), NEW m, NEW c, p \in Requests =>
              Call(p) \/ RequestStep(p) \/ Return(p) \/ GiveUp(p)
    PROVE  \/ Inserting(m, c)' \subseteq Inserting(m, c)
           \/ /\ Inserting(m, c)' = {p} /\ Inserting(m, c) \subseteq {p}
              /\ Enrolled(m, c) = {} /\ EnrollInsert(p)
<1>0. TypeOK
  BY DEF Control
<1>1. \A q \in Requests \ {p} : q \in Inserting(m, c)' <=> q \in Inserting(m, c)
  BY DEF Frame, Inserting
<1>2. CASE p \notin Requests \/ (p \in Requests /\ ~ wr'[p].enr)
  BY <1>1, <1>2 DEF Inserting
<1>3. CASE p \in Requests /\ wr'[p].enr /\ ~ wr[p].enr
  <2>1. EnrollInsert(p)
    <3>1. ASSUME wr'[p] \in {NoWrites, wr[p]} PROVE FALSE
      BY <1>3, <3>1 DEF NoWrites
    <3>2. ASSUME NEW kind, Refuse(p, kind) PROVE wr'[p] = NoWrites
      BY <1>3, <3>2 DEF Refuse, Release
    <3>3. ASSUME Call(p) PROVE FALSE
      BY <3>1, <3>2, <3>3 DEF Call, EnrollBegin, CompleteBegin, DashboardBegin, txn
    <3>4. CASE EnrollSelect(p) \/ EnrollForeignKey(p) \/ EnrollCommit(p)
      BY <1>3, <3>1, <3>2, <3>4 DEF EnrollSelect, EnrollForeignKey, EnrollCommit, Release, txn
    <3>5. CASE EnrollProject(p) \/ CompleteInsert(p) \/ CompleteProject(p) \/ CompleteStatus(p)
      <4>1. wr[p] \in Writes /\ wr \in [Requests -> Writes]
        BY <1>0, <1>3 DEF TypeOK
      <4> QED BY <1>3, <3>1, <3>5, <4>1
              DEF EnrollProject, CompleteInsert, CompleteProject, CompleteStatus, Writes
    <3>6. CASE \/ CompleteLock(p) \/ CompletePlace(p) \/ CompleteOrder(p) \/ CompleteCommit(p)
               \/ LoadLessons(p) \/ \E id \in Ids : LoadRow(p, id)
      BY <1>3, <3>1, <3>2, <3>6 DEF CompleteLock, CompletePlace, CompleteOrder, CompleteCommit,
                              LoadLessons, LoadRow, Release, txn
    <3>7. CASE Return(p) \/ GiveUp(p)
      BY <1>3, <3>1, <3>7 DEF Return, GiveUp, Release, txn
    <3> QED BY <1>3, <3>3, <3>4, <3>5, <3>6, <3>7 DEF RequestStep
  <2>2. CASE p \notin Inserting(m, c)'
    BY <1>1, <2>2 DEF Inserting
  <2>3. CASE p \in Inserting(m, c)'
    <3>1. arg'[p].member = arg[p].member /\ arg'[p].course = arg[p].course
      <4>1. arg \in [Requests -> Arg] /\ arg[p] \in Arg
        BY <1>0, <1>3 DEF TypeOK
      <4> QED BY <1>3, <2>1, <4>1 DEF EnrollInsert, Arg
    <3>2. arg[p].member = m /\ arg[p].course = c
      BY <2>3, <3>1 DEF Inserting
    <3>3. Enrolled(m, c) = {} /\ Inserting(m, c) \subseteq {p}
      BY <1>3, <2>1, <3>2 DEF EnrollInsert
    <3> QED BY <1>1, <2>1, <2>3, <3>3 DEF Inserting
  <2> QED BY <2>2, <2>3
<1>4. CASE p \in Requests /\ wr'[p].enr /\ wr[p].enr
  <2>1. arg'[p].member = arg[p].member /\ arg'[p].course = arg[p].course
    <3>0. /\ arg \in [Requests -> Arg] /\ arg[p] \in Arg /\ wr[p] # NoWrites
          /\ pc[p] \in EnrollLabels \ {"e_insert"}
      BY <1>0, <1>4 DEF TypeOK, NoWrites, Rows, PendingEnroll
    <3>1. ASSUME arg' = arg PROVE arg'[p].member = arg[p].member /\ arg'[p].course = arg[p].course
      BY <3>1
    <3>2. CASE Call(p) \/ Return(p)
      BY <3>0, <3>2 DEF Call, EnrollBegin, CompleteBegin, DashboardBegin, Return, EnrollLabels
    <3>3. CASE GiveUp(p)
      BY <1>4, <3>3 DEF GiveUp, Release, NoWrites
    <3>4. CASE EnrollSelect(p)
      BY <3>0, <3>1, <3>4 DEF EnrollSelect, Refuse, Arg
    <3>5. CASE EnrollProject(p) \/ EnrollForeignKey(p) \/ EnrollCommit(p)
      BY <3>1, <3>5 DEF EnrollProject, EnrollForeignKey, EnrollCommit, Refuse
    <3>6. CASE \/ EnrollInsert(p) \/ CompleteLock(p) \/ CompletePlace(p) \/ CompleteOrder(p)
               \/ CompleteInsert(p) \/ CompleteProject(p) \/ CompleteStatus(p) \/ CompleteCommit(p)
               \/ LoadLessons(p) \/ \E id \in Ids : LoadRow(p, id)
      BY <3>0, <3>6 DEF EnrollInsert, CompleteLock, CompletePlace, CompleteOrder, CompleteInsert,
                 CompleteProject, CompleteStatus, CompleteCommit, LoadLessons, LoadRow, EnrollLabels
    <3> QED BY <1>4, <3>2, <3>3, <3>4, <3>5, <3>6 DEF RequestStep
  <2> QED BY <1>1, <1>4, <2>1 DEF Inserting
<1> QED BY <1>2, <1>3, <1>4

LEMMA EnrolledStep ==
    ASSUME Control, Locking, Rows, Next, NEW m, NEW c
    PROVE  \/ Enrolled(m, c)' \subseteq Enrolled(m, c)
           \/ \E p \in Requests : /\ EnrollCommit(p) /\ p \in Inserting(m, c)
                                 /\ Enrolled(m, c)' \subseteq Enrolled(m, c) \cup {arg[p].id}
<1>1. SUFFICES ASSUME NEW id \in Enrolled(m, c)', id \notin Enrolled(m, c)
               PROVE  \E p \in Requests : /\ EnrollCommit(p) /\ p \in Inserting(m, c)
                                 /\ Enrolled(m, c)' \subseteq Enrolled(m, c) \cup {arg[p].id}
  OBVIOUS
<1>2. id \in Ids /\ enr'[id] # NoRow /\ enr'[id].member = m /\ enr'[id].course = c
  BY <1>1 DEF Enrolled
<1>3. enr[id] = NoRow
  BY <1>1, <1>2, RowsAppear DEF Enrolled
<1>4. PICK p \in Requests : EnrollCommit(p) /\ wr[p].enr /\ arg[p].id = id
  BY <1>2, <1>3, RowsAppear
<1>5. enr' = [enr EXCEPT ![id] = [member |-> arg[p].member, course |-> arg[p].course,
                                  status |-> "active"]]
  BY <1>4 DEF EnrollCommit
<1>6. enr \in [Ids -> OptRow(Enrollment)]
  BY DEF Control, TypeOK
<1>7. arg[p].member = m /\ arg[p].course = c
  BY <1>2, <1>5, <1>6
<1>8. Enrolled(m, c)' \subseteq Enrolled(m, c) \cup {id}
  BY <1>5, <1>6 DEF Enrolled
<1> QED BY <1>4, <1>7, <1>8 DEF Inserting

LEMMA OneEnrollmentStep ==
    ASSUME Control, Locking, Rows, Next
    PROVE  OneEnrollment'
<1>0. TypeOK
  BY DEF Control
<1> SUFFICES ASSUME NEW m \in Members, NEW c \in Courses
             PROVE  /\ \A i, j \in Enrolled(m, c)' : i = j
                    /\ \A p, q \in Inserting(m, c)' : p = q
                    /\ Inserting(m, c)' # {} => Enrolled(m, c)' = {}
  BY DEF OneEnrollment
<1>1. /\ \A i, j \in Enrolled(m, c) : i = j
      /\ \A p, q \in Inserting(m, c) : p = q
      /\ Inserting(m, c) # {} => Enrolled(m, c) = {}
  BY DEF Rows, OneEnrollment
<1>2. ASSUME NEW p \in Requests, EnrollCommit(p), p \in Inserting(m, c),
             Enrolled(m, c)' \subseteq Enrolled(m, c) \cup {arg[p].id}
      PROVE  /\ \A i, j \in Enrolled(m, c)' : i = j
             /\ Inserting(m, c)' = {}
  <2>1. RequestStep(p) /\ p \in Procs /\ Frame(p)
    BY <1>0, <1>2, RequestFrame DEF RequestStep, Procs
  <2>2. p \notin Inserting(m, c)'
    BY <1>2 DEF EnrollCommit, Release, NoWrites, Inserting
  <2>3. ~ EnrollInsert(p)
    BY <1>2 DEF EnrollCommit, EnrollInsert
  <2>4. Inserting(m, c)' \subseteq Inserting(m, c)
    BY <2>1, <2>3, InsertingStep
  <2> QED BY <1>1, <1>2, <2>2, <2>4
<1>3. ASSUME Enrolled(m, c)' \subseteq Enrolled(m, c), NEW p \in Procs, Frame(p),
             p \in Requests => Call(p) \/ RequestStep(p) \/ Return(p) \/ GiveUp(p)
      PROVE  /\ \A i, j \in Enrolled(m, c)' : i = j
             /\ \A q, r \in Inserting(m, c)' : q = r
             /\ Inserting(m, c)' # {} => Enrolled(m, c)' = {}
  <2>1. CASE Inserting(m, c)' \subseteq Inserting(m, c)
    BY <1>1, <1>3, <2>1
  <2>2. CASE Inserting(m, c)' = {p} /\ Enrolled(m, c) = {}
    BY <1>3, <2>2
  <2> QED BY <1>3, <2>1, <2>2, InsertingStep
<1>4. CASE Enrolled(m, c)' \subseteq Enrolled(m, c)
  <2>1. ASSUME NEW p \in Requests, Call(p) \/ RequestStep(p) PROVE Frame(p) /\ p \in Procs
    BY <1>0, <2>1, RequestFrame DEF Procs
  <2>2. ASSUME NEW p \in Operators, Command(p) \/ CommandStep(p)
        PROVE  Frame(p) /\ p \in Procs /\ p \notin Requests
    BY <1>0, <2>2, CommandFrame, BoundAssumption DEF Procs
  <2>3. ASSUME NEW p \in Procs, Return(p) \/ GiveUp(p) PROVE Frame(p)
    BY <1>0, <2>3, FinishFrame DEF Return, GiveUp
  <2>4. CASE ByHand
    <3>1. Inserting(m, c)' = Inserting(m, c)
      BY <2>4 DEF ByHand, Withdraw, AddLesson, LoseProjection, SkewProjection, Ambient, txn, Inserting
    <3> QED BY <1>1, <1>4, <3>1
  <2> QED BY <1>3, <1>4, <2>1, <2>2, <2>3, <2>4, Movers
<1> QED BY <1>2, <1>4, EnrolledStep

(* The third layer is preserved. *)
LEMMA RowsStep ==
    ASSUME Control, Locking, Rows, Next
    PROVE  Rows'
BY OneEnrollmentStep, NoOrphansStep, PendingStep DEF Rows

----------------------------------------------------------------------------
(* Layers 4 and 5: withdrawal, and the projection *)

(* A new enrollment takes an id no row has. *)
LEMMA FreshRow ==
    ASSUME Control, Rows, NEW p \in Requests, wr[p].enr
    PROVE  arg[p].id \in Ids /\ enr[arg[p].id] = NoRow /\ arg[p].id \notin used
BY DEF Control, RequestControl, Rows, PendingEnroll

(* How the enrollment table changes in one step. *)
LEMMA RowChange ==
    ASSUME Control, Locking, Rows, Next, NEW id \in Ids, enr[id] # NoRow, enr'[id] # enr[id]
    PROVE  \/ \E p \in Requests :
                 /\ CompleteCommit(p) /\ id = arg[p].id /\ id \in held[p] /\ wr[p].status # NoRow
                 /\ enr'[id] = [enr[id] EXCEPT !.status = wr[p].status]
           \/ \E p \in Operators :
                 /\ ReconcileCommit(p) /\ id \in Planned(p) /\ id \in held[p]
                 /\ enr'[id] = [enr[id] EXCEPT !.status = plan[p][id].status]
           \/ \E p \in Operators :
                 ResetCommit(p) /\ id \in held[p] /\ enr'[id] = NoRow
           \/ Withdraw(id) /\ enr'[id] = [enr[id] EXCEPT !.status = "withdrawn"]
<1>0. TypeOK /\ enr \in [Ids -> OptRow(Enrollment)]
  BY DEF Control, TypeOK
<1>1. ASSUME NEW p \in Requests, EnrollCommit(p) PROVE FALSE
  BY <1>0, <1>1, FreshRow DEF EnrollCommit
<1>2. ASSUME NEW p \in Requests, CompleteCommit(p)
      PROVE  /\ id = arg[p].id /\ id \in held[p] /\ wr[p].status # NoRow
             /\ enr'[id] = [enr[id] EXCEPT !.status = wr[p].status]
  <2>1. held[p] = {arg[p].id}
    BY <1>2 DEF CompleteCommit, Locking, RequestLocks, LockedLabels
  <2>2. enr' = IF wr[p].status # NoRow THEN [enr EXCEPT ![arg[p].id].status = wr[p].status] ELSE enr
    BY <1>2 DEF CompleteCommit
  <2> QED BY <1>0, <2>1, <2>2
<1>3. ASSUME NEW p \in Operators, ReconcileCommit(p)
      PROVE  /\ id \in Planned(p) /\ id \in held[p]
             /\ enr'[id] = [enr[id] EXCEPT !.status = plan[p][id].status]
  BY <1>3 DEF ReconcileCommit, Locking, OperatorLocks
<1>4. ASSUME NEW p \in Operators, ResetCommit(p) PROVE id \in held[p] /\ enr'[id] = NoRow
  BY <1>4 DEF ResetCommit
<1>5. ASSUME ByHand PROVE Withdraw(id) /\ enr'[id] = [enr[id] EXCEPT !.status = "withdrawn"]
  <2>1. ASSUME NEW i \in Ids, Withdraw(i)
        PROVE  Withdraw(id) /\ enr'[id] = [enr[id] EXCEPT !.status = "withdrawn"]
    <3>1. enr' = [enr EXCEPT ![i].status = "withdrawn"]
      BY <2>1 DEF Withdraw
    <3>2. i = id
      BY <1>0, <3>1
    <3> QED BY <1>0, <2>1, <3>1, <3>2
  <2> QED BY <1>5, <2>1 DEF ByHand, AddLesson, LoseProjection, SkewProjection
<1> QED BY <1>0, <1>1, <1>2, <1>3, <1>4, <1>5, TableSteps DEF db

(* A row someone keeps locked does not change. *)
LEMMA LockedRowStays ==
    ASSUME Control, Locking, Rows, Next, NEW q \in Procs, NEW id \in Ids,
           id \in held[q], id \in held'[q]
    PROVE  enr'[id] = enr[id]
<1>0. TypeOK /\ enr[id] # NoRow
  BY DEF Control, Locking, LockedRowsExist
<1>1. ASSUME NEW p \in Procs, id \in held[p], held'[p] = {} PROVE FALSE
  BY <1>1 DEF Locking, Exclusion
<1>2. ASSUME NEW p \in Requests, CompleteCommit(p) PROVE held'[p] = {} /\ p \in Procs
  BY <1>0, <1>2 DEF CompleteCommit, Release, TypeOK, Procs
<1>3. ASSUME NEW p \in Operators, ReconcileCommit(p) \/ ResetCommit(p)
      PROVE  held'[p] = {} /\ p \in Procs
  BY <1>0, <1>3 DEF ReconcileCommit, ResetCommit, TypeOK, Procs
<1> QED BY <1>0, <1>1, <1>2, <1>3, RowChange DEF Withdraw

(* A reconciliation learns of every change to an enrollment it has read.    *)
LEMMA ChangeTouches ==
    ASSUME Control, Locking, Rows, Next, NEW q \in Operators, NEW id \in Ids,
           pc[q] \in {"r_lock", "r_rebuild"}, enr[id] # NoRow, enr'[id] # enr[id]
    PROVE  <<"enr", id>> \in stale'[q]
<1>1. ASSUME NEW rows, Touch(rows), <<"enr", id>> \in rows PROVE <<"enr", id>> \in stale'[q]
  BY <1>1 DEF Touch
<1>2. ASSUME NEW p \in Requests, CompleteCommit(p), id = arg[p].id, wr[p].status # NoRow
      PROVE  <<"enr", id>> \in stale'[q]
  BY <1>1, <1>2 DEF CompleteCommit
<1>3. ASSUME NEW p \in Operators, ReconcileCommit(p), id \in Planned(p)
      PROVE  <<"enr", id>> \in stale'[q]
  BY <1>1, <1>3 DEF ReconcileCommit
<1>4. ASSUME NEW p \in Operators, ResetCommit(p), id \in held[p]
      PROVE  <<"enr", id>> \in stale'[q]
  BY <1>1, <1>4 DEF ResetCommit
<1>5. ASSUME Withdraw(id) PROVE <<"enr", id>> \in stale'[q]
  BY <1>1, <1>5 DEF Withdraw
<1> QED BY <1>2, <1>3, <1>4, <1>5, RowChange

----------------------------------------------------------------------------
(* Layer 4: withdrawal *)

LEMMA CompletesActiveStep ==
    ASSUME Control, Control', Locking, Locking', Rows, CompletesActive, Next
    PROVE  CompletesActive'
<1> SUFFICES ASSUME NEW p \in Requests, pc'[p] \in LockedLabels
             PROVE  enr'[arg'[p].id].status # "withdrawn"
  BY DEF CompletesActive
<1>0. /\ TypeOK /\ p \in Procs /\ pc \in [Procs -> Labels]
      /\ arg \in [Requests -> Arg] /\ arg[p] \in Arg
  BY DEF Control, TypeOK, Procs
<1>1. CASE pc[p] \in LockedLabels /\ arg'[p].id = arg[p].id
  <2>1. held[p] = {arg[p].id} /\ held'[p] = {arg[p].id}
    BY <1>1 DEF Locking, RequestLocks
  <2>2. arg[p].id \in Ids
    BY <1>0, <2>1 DEF TypeOK
  <2>3. enr'[arg[p].id] = enr[arg[p].id]
    BY <1>0, <2>1, <2>2, LockedRowStays
  <2> QED BY <1>1, <2>3 DEF CompletesActive
<1>2. CASE CompleteLock(p)
  <2>1. ~ \E kind : Refuse(p, kind)
    BY <1>0 DEF Refuse, Goto, LockedLabels
  <2>2. /\ enr[arg[p].id].status # "withdrawn" /\ enr' = enr
        /\ arg' = [arg EXCEPT ![p].course = enr[arg[p].id].course]
    BY <1>2, <2>1 DEF CompleteLock, Advance, db
  <2>3. arg'[p].id = arg[p].id
    BY <1>0, <2>2 DEF Arg
  <2> QED BY <2>2, <2>3
<1>3. ASSUME ~ CompleteLock(p), pc[p] \notin LockedLabels \/ arg'[p].id # arg[p].id PROVE FALSE
  <2>1. ASSUME NEW q \in Procs, Frame(q), q # p PROVE FALSE
    BY <1>0, <1>3, <2>1 DEF Frame
  <2>2. ASSUME NEW kind, Refuse(p, kind) PROVE FALSE
    BY <1>0, <2>2 DEF Refuse, Goto, LockedLabels
  <2>3. ASSUME Call(p) PROVE FALSE
    <3>1. \/ \E kind : Refuse(p, kind)
          \/ pc'[p] \in {"e_insert", "c_lock", "replied", "load_row"}
      BY <1>0, <2>3, AdvanceLocks DEF Call, EnrollBegin, CompleteBegin, DashboardBegin, Goto
    <3> QED BY <2>2, <3>1 DEF LockedLabels
  <2>4. CASE \/ EnrollInsert(p) \/ EnrollSelect(p) \/ EnrollProject(p) \/ EnrollForeignKey(p)
    BY <1>0, <2>2, <2>4, AdvanceLocks
       DEF EnrollInsert, EnrollSelect, EnrollProject, EnrollForeignKey, LockedLabels
  <2>5. CASE EnrollCommit(p) \/ CompleteCommit(p) \/ LoadLessons(p) \/ \E id \in Ids : LoadRow(p, id)
    BY <1>0, <2>2, <2>5
       DEF EnrollCommit, CompleteCommit, LoadLessons, LoadRow, Goto, LockedLabels
  <2>6. CASE \/ CompletePlace(p) \/ CompleteOrder(p) \/ CompleteInsert(p) \/ CompleteProject(p)
             \/ CompleteStatus(p)
    BY <1>3, <2>2, <2>6
       DEF CompletePlace, CompleteOrder, CompleteInsert, CompleteProject, CompleteStatus,
           LockedLabels
  <2>7. ASSUME Finish(p) PROVE FALSE
    BY <1>0, <2>7 DEF Finish, Goto, LockedLabels
  <2>8. CASE ByHand
    BY <1>3, <2>8 DEF ByHand, Withdraw, AddLesson, LoseProjection, SkewProjection, Ambient
  <2>9. ASSUME NEW q \in Requests, Call(q) \/ RequestStep(q) PROVE Frame(q)
    BY <1>0, <2>9, RequestFrame
  <2>10. ASSUME NEW q \in Operators, Command(q) \/ CommandStep(q) PROVE Frame(q) /\ q # p
    BY <1>0, <2>10, CommandFrame, BoundAssumption
  <2>11. ASSUME NEW q \in Procs, Return(q) \/ GiveUp(q) PROVE Frame(q) /\ Finish(q)
    BY <1>0, <2>11, FinishFrame DEF Return, GiveUp
  <2> QED BY <1>3, <2>1, <2>3, <2>4, <2>5, <2>6, <2>7, <2>8, <2>9, <2>10, <2>11, Movers
          DEF RequestStep, Procs
<1> QED BY <1>1, <1>2, <1>3

(* What makes an enrollment stale: its locker's commit, or a hand. *)
LEMMA StaledBy ==
    ASSUME Control, Locking, Next, NEW q \in Operators, NEW id \in Ids,
           pc[q] \in {"r_lock", "r_rebuild"}, pc'[q] \in {"r_lock", "r_rebuild"},
           <<"enr", id>> \in stale'[q], <<"enr", id>> \notin stale[q]
    PROVE  \/ \E p \in Procs : id \in held[p] /\ held'[p] = {}
           \/ Withdraw(id)
<1>0. TypeOK /\ pc \in [Procs -> Labels] /\ q \in Procs
  BY DEF Control, TypeOK, Procs
<1>1. ASSUME NEW rows, Touch(rows) PROVE <<"enr", id>> \in rows
  BY <1>1 DEF Touch
<1>2. ASSUME stale' = stale PROVE FALSE
  BY <1>2
<1>3. ASSUME NEW p \in Requests, EnrollCommit(p) PROVE FALSE
  BY <1>1, <1>2, <1>3 DEF EnrollCommit
<1>4. ASSUME NEW p \in Requests, CompleteCommit(p)
      PROVE  p \in Procs /\ id \in held[p] /\ held'[p] = {}
  <2>1. p \in Procs /\ held[p] = {arg[p].id} /\ held'[p] = {}
    BY <1>0, <1>4 DEF CompleteCommit, Release, Locking, RequestLocks, LockedLabels, TypeOK, Procs
  <2>2. id = arg[p].id
    BY <1>1, <1>4 DEF CompleteCommit
  <2> QED BY <2>1, <2>2
<1>5. ASSUME NEW p \in Operators, ReconcileCommit(p)
      PROVE  p \in Procs /\ id \in held[p] /\ held'[p] = {}
  <2>1. p \in Procs /\ Planned(p) \subseteq held[p] /\ held'[p] = {}
    BY <1>0, <1>5 DEF ReconcileCommit, Locking, OperatorLocks, TypeOK, Procs
  <2>2. <<"enr", id>> \in {"enr", "proj"} \X Planned(p)
    BY <1>1, <1>5 DEF ReconcileCommit
  <2> QED BY <2>1, <2>2
<1>6. ASSUME NEW p \in Operators, ResetCommit(p)
      PROVE  p \in Procs /\ id \in held[p] /\ held'[p] = {}
  <2>1. <<"enr", id>> \in {"enr", "proj"} \X held[p]
    BY <1>1, <1>6 DEF ResetCommit
  <2> QED BY <1>0, <1>6, <2>1 DEF ResetCommit, TypeOK, Procs
<1>7. ASSUME ByHand PROVE Withdraw(id)
  <2>1. ASSUME NEW i \in Ids, Withdraw(i) PROVE Withdraw(id)
    <3>1. i = id
      BY <1>1, <2>1 DEF Withdraw
    <3> QED BY <2>1, <3>1
  <2>2. ASSUME NEW i \in Ids, LoseProjection(i) PROVE FALSE
    BY <1>1, <2>2 DEF LoseProjection
  <2>3. ASSUME NEW i \in Ids, NEW n, SkewProjection(i, n) PROVE FALSE
    BY <1>1, <2>3 DEF SkewProjection
  <2> QED BY <1>2, <1>7, <2>1, <2>2, <2>3 DEF ByHand, AddLesson
<1>8. ASSUME NEW p \in Procs, Finish(p) PROVE FALSE
  BY <1>0, <1>8 DEF Finish, Goto
<1>9. ASSUME NEW p \in Requests, Call(p) \/ RequestStep(p),
             ~ EnrollCommit(p), ~ CompleteCommit(p)
      PROVE  FALSE
  <2>1. ASSUME Call(p) PROVE stale' = stale
    BY <2>1 DEF Call, EnrollBegin, CompleteBegin, DashboardBegin, Refuse, Advance
  <2>2. ASSUME NEW i \in Ids, LoadRow(p, i) PROVE stale' = stale
    BY <2>2 DEF LoadRow, Refuse
  <2>3. ASSUME EnrollInsert(p) \/ EnrollSelect(p) \/ EnrollProject(p) \/ EnrollForeignKey(p)
        PROVE  stale' = stale
    BY <2>3 DEF EnrollInsert, EnrollSelect, EnrollProject, EnrollForeignKey, Refuse, Advance
  <2>4. ASSUME \/ CompleteLock(p) \/ CompletePlace(p) \/ CompleteOrder(p)
               \/ CompleteInsert(p) \/ CompleteProject(p) \/ CompleteStatus(p) \/ LoadLessons(p)
        PROVE  stale' = stale
    BY <2>4 DEF Refuse, Advance, CompleteLock, CompletePlace, CompleteOrder, CompleteInsert,
                CompleteProject, CompleteStatus, LoadLessons
  <2> QED BY <1>2, <1>9, <2>1, <2>2, <2>3, <2>4 DEF RequestStep
<1>10. ASSUME NEW p \in Operators, Command(p) \/ CommandStep(p),
              ~ ReconcileCommit(p), ~ ResetCommit(p)
       PROVE  FALSE
  <2>1. CASE ReconcileBegin(p)
    <3>1. p # q
      BY <2>1 DEF ReconcileBegin
    <3> QED BY <1>0, <2>1, <3>1 DEF ReconcileBegin, TypeOK
  <2>2. CASE ReconcileConflict(p)
    BY <1>8, <2>2 DEF ReconcileConflict, GiveUp, Procs
  <2> QED BY <1>2, <1>10, <2>1, <2>2
          DEF Command, CommandStep, ReconcileDryRun, ResetBegin, ReconcileLock, ReconcileRebuild,
              ReconcileReport, ResetLock, ResetCascade
<1>11. ASSUME NEW p \in Procs, Return(p) \/ GiveUp(p) PROVE FALSE
  BY <1>8, <1>11 DEF Return, GiveUp
<1> QED BY <1>3, <1>4, <1>5, <1>6, <1>7, <1>9, <1>10, <1>11, Movers DEF RequestStep, CommandStep

(* What a reconciliation's own steps do to its locks, its snapshot and plan. *)
LEMMA OwnSteps ==
    ASSUME Control, Locking, Next, NEW q \in Operators, pc'[q] \in {"r_lock", "r_rebuild"}
    PROVE  \/ /\ pc[q] \in {"r_lock", "r_rebuild"} /\ plan'[q] = plan[q]
              /\ \/ held'[q] = held[q]
                 \/ \E id \in Ids : /\ <<"enr", id>> \notin stale[q] /\ stale' = stale
                                   /\ held'[q] = held[q] \cup {id}
           \/ ReconcileBegin(q) /\ held'[q] = {} /\ plan'[q] = ReportNow /\ stale'[q] = {}
<1>0. /\ TypeOK /\ pc \in [Procs -> Labels] /\ q \in Procs /\ held \in [Procs -> SUBSET Ids]
      /\ OperatorLocks(q)
  BY DEF Control, Locking, TypeOK, Procs
<1>1. ASSUME NEW p \in Procs, Frame(p), p # q
      PROVE  pc'[q] = pc[q] /\ plan'[q] = plan[q] /\ held'[q] = held[q]
  BY <1>0, <1>1 DEF Frame
<1>2. ASSUME NEW p \in Procs, Finish(p) PROVE p # q
  BY <1>0, <1>2 DEF Finish, Goto
<1>3. CASE ReconcileBegin(q)
  <2>1. pc[q] = "idle" /\ held' = held /\ plan'[q] = ReportNow /\ stale'[q] = {}
    BY <1>0, <1>3 DEF ReconcileBegin, TypeOK
  <2> QED BY <1>0, <1>3, <2>1 DEF OperatorLocks
<1>4. ASSUME Command(q) \/ CommandStep(q), ~ ReconcileBegin(q)
      PROVE  /\ pc[q] \in {"r_lock", "r_rebuild"} /\ plan' = plan
             /\ \/ held'[q] = held[q]
                \/ \E id \in Ids : /\ <<"enr", id>> \notin stale[q] /\ stale' = stale
                                  /\ held'[q] = held[q] \cup {id}
  <2>1. CASE ReconcileConflict(q)
    BY <1>0, <1>2, <2>1 DEF ReconcileConflict, GiveUp
  <2>2. CASE ReconcileReport(q)
    BY <1>0, <2>2 DEF ReconcileReport, Goto
  <2>3. ASSUME NEW id \in Ids, ReconcileLock(q, id)
        PROVE  /\ pc[q] \in {"r_lock", "r_rebuild"} /\ plan' = plan
               /\ <<"enr", id>> \notin stale[q] /\ stale' = stale
               /\ held'[q] = held[q] \cup {id}
    BY <1>0, <2>3 DEF ReconcileLock
  <2>4. ASSUME NEW id \in Ids, ReconcileRebuild(q, id)
        PROVE  pc[q] \in {"r_lock", "r_rebuild"} /\ plan' = plan /\ held' = held
    BY <2>4 DEF ReconcileRebuild
  <2>5. ASSUME NEW id \in Ids, ResetLock(q, id) PROVE FALSE
    BY <2>5 DEF ResetLock
  <2>6. ASSUME ReconcileDryRun(q) \/ ResetBegin(q) \/ ReconcileCommit(q) \/ ResetCascade(q) \/ ResetCommit(q)
        PROVE  FALSE
    BY <1>0, <2>6 DEF ReconcileDryRun, ResetBegin, ReconcileCommit, ResetCascade, ResetCommit, Goto
  <2> QED BY <1>4, <2>1, <2>2, <2>3, <2>4, <2>5, <2>6 DEF Command, CommandStep
<1>5. CASE ByHand
  <2>1. UNCHANGED <<pc, held, plan>>
    BY <1>5 DEF ByHand, Withdraw, AddLesson, LoseProjection, SkewProjection, Ambient, txn
  <2> QED BY <2>1
<1>6. ASSUME NEW p \in Requests, Call(p) \/ RequestStep(p) PROVE Frame(p) /\ p # q /\ p \in Procs
  BY <1>0, <1>6, RequestFrame, BoundAssumption DEF Procs
<1>7. ASSUME NEW p \in Operators \ {q}, Command(p) \/ CommandStep(p) PROVE Frame(p) /\ p \in Procs
  BY <1>0, <1>7, CommandFrame DEF Procs
<1>8. ASSUME NEW p \in Procs, Return(p) \/ GiveUp(p) PROVE Frame(p) /\ p # q
  BY <1>0, <1>2, <1>8, FinishFrame DEF Return, GiveUp
<1> QED BY <1>1, <1>3, <1>4, <1>5, <1>6, <1>7, <1>8, Movers

LEMMA LockedNotStaleStep ==
    ASSUME Control, Control', Locking, LockedNotStale, Next
    PROVE  LockedNotStale'
<1> SUFFICES ASSUME NEW q \in Operators, pc'[q] \in {"r_lock", "r_rebuild"}, NEW id \in held'[q],
                    <<"enr", id>> \in stale'[q]
             PROVE  FALSE
  BY DEF LockedNotStale
<1>0. q \in Procs /\ id \in Ids
  BY DEF Control, TypeOK, Procs
<1>1. CASE ReconcileBegin(q) /\ held'[q] = {}
  BY <1>1
<1>2. CASE pc[q] \in {"r_lock", "r_rebuild"} /\ held'[q] = held[q]
  <2>1. <<"enr", id>> \notin stale[q]
    BY <1>2 DEF LockedNotStale
  <2>2. CASE Withdraw(id)
    BY <1>0, <1>2, <2>2 DEF Withdraw
  <2>3. ASSUME NEW p \in Procs, id \in held[p], held'[p] = {} PROVE FALSE
    BY <1>0, <1>2, <2>3 DEF Locking, Exclusion
  <2> QED BY <1>0, <1>2, <2>1, <2>2, <2>3, StaledBy
<1>3. ASSUME pc[q] \in {"r_lock", "r_rebuild"},
             NEW i \in Ids, <<"enr", i>> \notin stale[q], stale' = stale,
             held'[q] = held[q] \cup {i}
      PROVE  FALSE
  BY <1>3 DEF LockedNotStale
<1> QED BY <1>1, <1>2, <1>3, OwnSteps

LEMMA PlanCurrentStep ==
    ASSUME Control, Locking, Rows, PlanCurrent, Next
    PROVE  PlanCurrent'
<1> SUFFICES ASSUME NEW q \in Operators, pc'[q] \in {"r_lock", "r_rebuild"},
                    NEW id \in Planned(q)', <<"enr", id>> \notin stale'[q]
             PROVE  /\ enr'[id] # NoRow
                    /\ (plan'[q][id].status = "withdrawn") <=> (enr'[id].status = "withdrawn")
                    /\ plan'[q][id].status \in {"withdrawn", DerivedStatus(plan'[q][id])}
  BY DEF PlanCurrent, DerivedStatus
<1>0. id \in Ids /\ plan'[q][id] # NoRow /\ TypeOK
  BY DEF Planned, Control
<1>1. CASE ReconcileBegin(q) /\ plan'[q] = ReportNow
  <2>1. enr[id] # NoRow /\ plan'[q][id] = Expected(id) /\ enr' = enr
    BY <1>0, <1>1 DEF ReportNow, Drifted, ReconcileBegin, db
  <2> QED BY <2>1 DEF Expected, DerivedStatus
<1>2. CASE pc[q] \in {"r_lock", "r_rebuild"} /\ plan'[q] = plan[q]
  <2>1. <<"enr", id>> \notin stale[q] /\ id \in Planned(q)
    BY <1>0, <1>2, StaleGrows DEF Planned
  <2>2. /\ enr[id] # NoRow
        /\ (plan[q][id].status = "withdrawn") <=> (enr[id].status = "withdrawn")
        /\ plan[q][id].status \in {"withdrawn", DerivedStatus(plan[q][id])}
    BY <1>2, <2>1 DEF PlanCurrent
  <2>3. enr'[id] = enr[id]
    BY <1>0, <1>2, <2>2, ChangeTouches
  <2> QED BY <1>2, <2>2, <2>3 DEF DerivedStatus
<1> QED BY <1>1, <1>2, OwnSteps

LEMMA WithdrawalStep ==
    ASSUME Control, Control', Locking, Locking', Rows, Withdrawal, Next
    PROVE  Withdrawal'
BY CompletesActiveStep, PlanCurrentStep, LockedNotStaleStep DEF Withdrawal

(* A planned repair that can commit leaves a withdrawn enrollment withdrawn *)
(* and an active one active or completed.                                   *)
LEMMA RepairKeeps ==
    ASSUME Control, Locking, Withdrawal, NEW p \in Operators, ReconcileCommit(p),
           NEW id \in Planned(p)
    PROVE  /\ id \in Ids /\ enr[id] # NoRow /\ <<"enr", id>> \notin stale[p]
           /\ (plan[p][id].status = "withdrawn") <=> (enr[id].status = "withdrawn")
           /\ plan[p][id].status \in {"withdrawn", DerivedStatus(plan[p][id])}
<1>1. pc[p] = "r_rebuild" /\ id \in held[p]
  BY DEF ReconcileCommit, Locking, OperatorLocks
<1>2. <<"enr", id>> \notin stale[p]
  BY <1>1 DEF Withdrawal, LockedNotStale
<1> QED BY <1>1, <1>2 DEF Withdrawal, PlanCurrent, Planned

(* No step reactivates a withdrawn enrollment. *)
LEMMA WithdrawnKept ==
    ASSUME Control, Locking, Rows, Withdrawal, Next, NEW id \in Ids,
           enr[id] # NoRow, enr[id].status = "withdrawn"
    PROVE  enr'[id] \in {NoRow, enr[id]}
<1>0. enr[id] \in Enrollment
  BY DEF Control, TypeOK, OptRow
<1>1. [enr[id] EXCEPT !.status = "withdrawn"] = enr[id]
  BY <1>0 DEF Enrollment
<1>2. ASSUME NEW p \in Requests, CompleteCommit(p), id = arg[p].id PROVE FALSE
  BY <1>2 DEF CompleteCommit, Withdrawal, CompletesActive, LockedLabels
<1>3. ASSUME NEW p \in Operators, ReconcileCommit(p), id \in Planned(p)
      PROVE  plan[p][id].status = "withdrawn"
  BY <1>3, RepairKeeps
<1> QED BY <1>1, <1>2, <1>3, RowChange

----------------------------------------------------------------------------
(* Layer 5: the projection *)

LEMMA UnlostBefore ==
    ASSUME TypeOK, Next
    PROVE  /\ Unlost' => Unlost /\ \A id \in Ids : ~ LoseProjection(id)
           /\ faults' = 0 => faults = 0 /\ \A id \in Ids : \A n : ~ SkewProjection(id, n)
<1>0. faults \in Nat /\ db = db
  BY BoundAssumption DEF TypeOK
<1>1. ASSUME NEW id \in Ids, LoseProjection(id) PROVE ~ Unlost' /\ faults' # 0
  BY <1>0, <1>1 DEF LoseProjection, Unlost
<1>2. ASSUME NEW id \in Ids, NEW n, SkewProjection(id, n) PROVE faults' # 0
  BY <1>0, <1>2 DEF SkewProjection
<1>3. faults' = 0 => faults = 0
  <2>1. ASSUME NEW p \in Requests, EnrollCommit(p) \/ CompleteCommit(p) PROVE faults' = faults
    BY <2>1 DEF EnrollCommit, CompleteCommit
  <2>2. ASSUME NEW p \in Operators, ReconcileCommit(p) \/ ResetCommit(p) PROVE faults' = faults
    BY <2>2 DEF ReconcileCommit, ResetCommit
  <2>3. ASSUME ByHand PROVE faults' = faults \/ faults' # 0
    BY <1>1, <1>2, <2>3 DEF ByHand, Withdraw, AddLesson
  <2> QED BY <2>1, <2>2, <2>3, TableSteps DEF db
<1> QED BY <1>1, <1>2, <1>3 DEF Unlost

(* A request moves by itself or not at all. *)
LEMMA RequestOwn ==
    ASSUME TypeOK, Next, NEW q \in Requests
    PROVE  \/ UNCHANGED <<pc[q], arg[q], wr[q], held[q], shared[q], todo[q], head[q], out[q]>>
           \/ Call(q) \/ RequestStep(q) \/ Return(q) \/ GiveUp(q)
<1>0. q \in Procs
  BY DEF Procs
<1>1. ASSUME NEW p \in Procs, Frame(p), p # q
      PROVE  UNCHANGED <<pc[q], arg[q], wr[q], held[q], shared[q], todo[q], head[q], out[q]>>
  BY <1>0, <1>1 DEF Frame
<1>2. ASSUME NEW p \in Requests, Call(p) \/ RequestStep(p) PROVE Frame(p) /\ p \in Procs
  BY <1>2, RequestFrame DEF Procs
<1>3. ASSUME NEW p \in Operators, Command(p) \/ CommandStep(p) PROVE Frame(p) /\ p \in Procs /\ p # q
  BY <1>3, CommandFrame, BoundAssumption DEF Procs
<1>4. ASSUME NEW p \in Procs, Return(p) \/ GiveUp(p) PROVE Frame(p)
  BY <1>4, FinishFrame DEF Return, GiveUp
<1>5. CASE ByHand
  BY <1>5 DEF ByHand, Withdraw, AddLesson, LoseProjection, SkewProjection, Ambient, txn
<1> QED BY <1>1, <1>2, <1>3, <1>4, <1>5, Movers

LEMMA RequestMoves ==
    ASSUME TypeOK, Next, NEW q \in Requests
    PROVE  \/ UNCHANGED <<pc[q], arg[q], wr[q]>>
           \/ Call(q) \/ RequestStep(q) \/ Return(q) \/ GiveUp(q)
BY RequestOwn

LEMMA EnrollmentsProjectedStep ==
    ASSUME Control, Control', Locking, Rows, Next, Unlost', EnrollmentsProjected
    PROVE  EnrollmentsProjected'
<1> SUFFICES ASSUME NEW id \in Ids, enr'[id] # NoRow PROVE proj'[id] # NoRow
  BY DEF EnrollmentsProjected
<1>0. TypeOK /\ proj \in [Ids -> OptRow(Projection)] /\ \A i \in Ids : ~ LoseProjection(i)
  BY UnlostBefore DEF Control, TypeOK
<1>1. CASE enr[id] = NoRow
  <2>1. PICK p \in Requests : EnrollCommit(p) /\ wr[p].enr /\ arg[p].id = id
    BY <1>1, RowsAppear
  <2>2. wr[p].proj # NoRow
    BY <2>1 DEF EnrollCommit, Rows, PendingEnroll
  <2> QED BY <1>0, <2>1, <2>2 DEF EnrollCommit
<1>2. CASE enr[id] # NoRow
  <2>0. proj[id] \in Projection
    BY <1>0, <1>2 DEF EnrollmentsProjected, OptRow
  <2>1. ASSUME NEW p \in Requests, EnrollCommit(p) \/ CompleteCommit(p) PROVE proj'[id] # NoRow
    BY <1>0, <2>0, <2>1, NoRowAssumption DEF EnrollCommit, CompleteCommit
  <2>2. ASSUME NEW p \in Operators, ReconcileCommit(p) PROVE proj'[id] # NoRow
    <3>1. plan[p] \in [Ids -> OptRow(Expectation)]
      BY <1>0 DEF TypeOK
    <3>2. id \in Planned(p) => plan[p][id].done \in Nat /\ plan[p][id].total \in Nat
      BY <3>1 DEF Planned, OptRow, Expectation
    <3>3. id \in Planned(p) =>
             [done |-> plan[p][id].done, total |-> plan[p][id].total] \in Projection
      BY <3>2 DEF Projection
    <3> QED BY <2>0, <2>2, <3>3, NoRowAssumption DEF ReconcileCommit
  <2>3. ASSUME NEW p \in Operators, ResetCommit(p) PROVE proj'[id] # NoRow
    BY <2>0, <2>3, NoRowAssumption DEF ResetCommit
  <2>4. ASSUME NEW i \in Ids, NEW n, SkewProjection(i, n) PROVE proj'[id] # NoRow
    <3>1. proj' = [proj EXCEPT ![i].done = n]
      BY <2>4 DEF SkewProjection
    <3>2. n \in Nat
      <4>1. proj[i] \in Projection
        BY <1>0, <2>4 DEF SkewProjection, OptRow
      <4> QED BY <2>4, <4>1 DEF SkewProjection, Projection
    <3>3. [proj[id] EXCEPT !.done = n] \in Projection
      BY <2>0, <3>2 DEF Projection
    <3> QED BY <1>0, <2>0, <3>1, <3>3, NoRowAssumption
  <2>5. CASE ByHand
    BY <1>0, <2>0, <2>4, <2>5, NoRowAssumption DEF ByHand, Withdraw, AddLesson
  <2>6. CASE UNCHANGED db
    BY <2>0, <2>6, NoRowAssumption DEF db
  <2> QED BY <1>0, <2>1, <2>2, <2>3, <2>5, <2>6, TableSteps
<1> QED BY <1>1, <1>2

LEMMA EnrollProjectsStep ==
    ASSUME Control, Locking, Rows, Next, EnrollmentsProjected, EnrollProjects
    PROVE  EnrollProjects'
<1> SUFFICES ASSUME NEW p \in Requests, pc'[p] \in EnrollLabels, wr'[p].proj # NoRow
             PROVE  /\ wr'[p].proj.done = 0
                    /\ wr'[p].enr \/ (enr'[arg'[p].id] = NoRow /\ pc'[p] = "e_fk")
  BY DEF EnrollProjects
<1>0. /\ TypeOK /\ p \in Procs /\ PendingWrites(p) /\ PendingEnroll(p) /\ RequestControl(p)
      /\ pc \in [Procs -> Labels] /\ arg \in [Requests -> Arg] /\ arg[p] \in Arg
      /\ wr \in [Requests -> Writes] /\ wr[p] \in Writes
  BY DEF Control, Rows, TypeOK, Procs
<1>r. ASSUME NEW kind, Refuse(p, kind) PROVE FALSE
  BY <1>0, <1>r DEF Refuse, Goto, EnrollLabels
<1>n. ASSUME wr'[p] = NoWrites PROVE FALSE
  BY <1>n DEF NoWrites
<1>1. CASE UNCHANGED <<pc[p], arg[p], wr[p]>>
  <2>1. /\ wr[p].proj.done = 0
        /\ wr[p].enr \/ (enr[arg[p].id] = NoRow /\ pc[p] = "e_fk")
    BY <1>1 DEF EnrollProjects
  <2>2. ASSUME ~ wr[p].enr, enr[arg[p].id] = NoRow, pc[p] = "e_fk", enr'[arg[p].id] # NoRow
        PROVE  FALSE
    <3>1. arg[p].id \in used /\ arg[p].id \in Ids
      BY <1>0, <2>2 DEF RequestControl, TypeOK
    <3>2. PICK q \in Requests : EnrollCommit(q) /\ wr[q].enr /\ arg[q].id = arg[p].id
      BY <2>2, <3>1, RowsAppear
    <3> QED BY <3>1, <3>2, FreshRow
  <2> QED BY <1>1, <2>1, <2>2
<1>2. CASE Call(p)
  BY <1>0, <1>2, <1>n, <1>r, NothingPending
     DEF Call, EnrollBegin, CompleteBegin, DashboardBegin, txn
<1>3. CASE EnrollInsert(p)
  <2>1. wr[p] = NoWrites
    BY <1>0, <1>3, NothingPending DEF EnrollInsert
  <2>2. wr'[p].proj = NoRow
    BY <1>0, <1>3, <2>1 DEF EnrollInsert, NoWrites
  <2> QED BY <2>2
<1>4. CASE EnrollSelect(p)
  BY <1>0, <1>4, <1>r DEF EnrollSelect, txn, PendingWrites
<1>5. CASE EnrollProject(p)
  <2>1. pc[p] = "e_project" /\ wr[p].proj = NoRow
    BY <1>0, <1>5 DEF EnrollProject, PendingWrites
  <2>2. /\ proj[arg[p].id] = NoRow /\ arg' = arg /\ enr' = enr /\ pc'[p] = "e_fk"
        /\ wr' = [wr EXCEPT ![p].proj = [done |-> 0, total |-> arg[p].total]]
    BY <1>0, <1>5, <2>1, AdvanceLocks DEF EnrollProject, Advance, db
  <2>3. wr'[p].proj.done = 0 /\ wr'[p].enr = wr[p].enr
    BY <1>0, <2>2 DEF Writes
  <2>4. ~ wr[p].enr => arg[p].id \in Ids
    BY <1>0, <2>1 DEF RequestControl, TypeOK
  <2>5. ~ wr[p].enr => enr[arg[p].id] = NoRow
    BY <2>2, <2>4 DEF EnrollmentsProjected
  <2> QED BY <2>2, <2>3, <2>5
<1>6. CASE EnrollForeignKey(p)
  <2>1. /\ pc[p] = "e_fk" /\ UNCHANGED <<arg, wr, enr>>
        /\ wr[p].enr \/ enr[arg[p].id] # NoRow
    BY <1>6, <1>r DEF EnrollForeignKey, Advance, db
  <2> QED BY <2>1 DEF EnrollProjects, EnrollLabels
<1>7. CASE EnrollCommit(p) \/ CompleteCommit(p) \/ GiveUp(p)
  BY <1>7, <1>n DEF EnrollCommit, CompleteCommit, GiveUp, Release
<1>8. CASE Return(p)
  BY <1>0, <1>8, <1>n, NothingPending DEF Return, txn
<1>9. CASE \/ CompleteLock(p) \/ CompletePlace(p) \/ CompleteOrder(p) \/ CompleteInsert(p)
           \/ CompleteProject(p) \/ CompleteStatus(p)
  BY <1>0, <1>9, <1>r, AdvanceLocks
     DEF CompleteLock, CompletePlace, CompleteOrder, CompleteInsert, CompleteProject,
         CompleteStatus, EnrollLabels
<1>10. CASE LoadLessons(p) \/ \E id \in Ids : LoadRow(p, id)
  BY <1>0, <1>10, <1>r DEF LoadLessons, LoadRow, Goto, EnrollLabels
<1> QED BY <1>0, <1>1, <1>2, <1>3, <1>4, <1>5, <1>6, <1>7, <1>8, <1>9, <1>10, RequestMoves
        DEF RequestStep

(* The events a completion sees do not change under its lock. *)
LEMMA SeenStays ==
    ASSUME Control, Locking, Next, NEW p \in Requests,
           pc[p] \in LockedLabels, pc'[p] \in LockedLabels,
           UNCHANGED <<arg[p].id, arg[p].lesson>>
    PROVE  SeenLessons(p)' = SeenLessons(p)
<1>1. \A l \in Lessons : <<arg[p].id, l>> \in events' <=> <<arg[p].id, l>> \in events
  BY EventsStep
<1> QED BY <1>1 DEF SeenLessons, CompletedLessons

LEMMA CompleteProjectsStep ==
    ASSUME Control, Locking, Rows, Withdrawal, Next, EnrollmentsProjected, CompleteProjects
    PROVE  CompleteProjects'
<1> SUFFICES ASSUME NEW p \in Requests, pc'[p] \in {"c_status", "c_commit"}
             PROVE  /\ wr'[p].proj # NoRow /\ wr'[p].proj.done = Cardinality(SeenLessons(p)')
                    /\ pc'[p] = "c_commit" => wr'[p].status = DerivedStatus(wr'[p].proj)
  BY DEF CompleteProjects, DerivedStatus
<1>0. /\ TypeOK /\ p \in Procs /\ PendingWrites(p) /\ RequestControl(p) /\ RequestLocks(p)
      /\ pc \in [Procs -> Labels] /\ arg \in [Requests -> Arg] /\ arg[p] \in Arg
      /\ wr \in [Requests -> Writes] /\ wr[p] \in Writes
  BY DEF Control, Rows, Locking, TypeOK, Procs
<1>r. ASSUME NEW kind, Refuse(p, kind) PROVE FALSE
  BY <1>0, <1>r DEF Refuse, Goto
<1>1. CASE UNCHANGED <<pc[p], arg[p], wr[p]>>
  <2>1. SeenLessons(p)' = SeenLessons(p)
    BY <1>1, SeenStays DEF LockedLabels
  <2>2. /\ wr[p].proj # NoRow /\ wr[p].proj.done = Cardinality(SeenLessons(p))
        /\ pc[p] = "c_commit" => wr[p].status = DerivedStatus(wr[p].proj)
    BY <1>1 DEF CompleteProjects
  <2> QED BY <1>1, <2>1, <2>2
<1>2. CASE CompleteProject(p)
  <2>1. pc[p] = "c_project" /\ arg' = arg /\ pc'[p] = "c_status"
    BY <1>0, <1>2, AdvanceLocks DEF CompleteProject
  <2>2. SeenLessons(p)' = SeenLessons(p)
    BY <2>1, SeenStays DEF LockedLabels
  <2>3. proj[arg[p].id] # NoRow
    <3>1. enr[arg[p].id] # NoRow /\ arg[p].id \in Ids
      BY <1>0, <2>1 DEF RequestLocks, LockedLabels, Locking, LockedRowsExist, TypeOK
    <3> QED BY <3>1 DEF EnrollmentsProjected
  <2> DEFINE row == [done |-> Cardinality(SeenLessons(p)),
                     total |-> Cardinality(CourseLessons(enr[arg[p].id].course))]
  <2>4. wr' = [wr EXCEPT ![p].proj = row]
    BY <1>2, <2>3 DEF CompleteProject
  <2>5. row \in Projection
    <3>1. arg[p].lesson \in Lessons
      BY <1>0, <2>1 DEF RequestControl, LockedLabels, TypeOK
    <3>2. /\ Cardinality(SeenLessons(p)) \in Nat
          /\ Cardinality(CourseLessons(enr[arg[p].id].course)) \in Nat
      BY <1>0, <3>1, CountType
    <3> HIDE DEF row
    <3>3. \A a, b \in Nat : [done |-> a, total |-> b] \in Projection
      BY DEF Projection
    <3> QED BY <3>2, <3>3 DEF row
  <2>6. wr'[p].proj = row
    BY <1>0, <2>4 DEF Writes
  <2> QED BY <2>1, <2>2, <2>5, <2>6, NoRowAssumption
<1>3. CASE CompleteStatus(p)
  <2>1. pc[p] = "c_status" /\ arg' = arg /\ pc'[p] = "c_commit"
    BY <1>0, <1>3, AdvanceLocks DEF CompleteStatus
  <2>2. SeenLessons(p)' = SeenLessons(p)
    BY <2>1, SeenStays DEF LockedLabels
  <2>3. wr[p].proj # NoRow /\ wr[p].proj.done = Cardinality(SeenLessons(p))
    BY <2>1 DEF CompleteProjects
  <2>4. enr[arg[p].id].status # "withdrawn"
    BY <2>1 DEF Withdrawal, CompletesActive, LockedLabels
  <2>5. wr' = [wr EXCEPT ![p].status = DerivedStatus(wr[p].proj)]
    BY <1>3, <2>3, <2>4 DEF CompleteStatus
  <2>6. wr'[p].proj = wr[p].proj /\ wr'[p].status = DerivedStatus(wr[p].proj)
    BY <1>0, <2>5 DEF Writes
  <2> QED BY <2>2, <2>3, <2>6
<1>4. CASE Call(p)
  <2>1. \/ \E kind : Refuse(p, kind)
        \/ pc'[p] \in {"e_insert", "c_lock", "replied", "load_row"}
    BY <1>0, <1>4, AdvanceLocks DEF Call, EnrollBegin, CompleteBegin, DashboardBegin, Goto
  <2> QED BY <1>r, <2>1
<1>5. CASE \/ EnrollInsert(p) \/ EnrollSelect(p) \/ EnrollProject(p) \/ EnrollForeignKey(p)
           \/ CompleteLock(p) \/ CompletePlace(p) \/ CompleteOrder(p) \/ CompleteInsert(p)
  BY <1>0, <1>5, <1>r, AdvanceLocks
     DEF EnrollInsert, EnrollSelect, EnrollProject, EnrollForeignKey,
         CompleteLock, CompletePlace, CompleteOrder, CompleteInsert
<1>6. CASE EnrollCommit(p) \/ CompleteCommit(p) \/ LoadLessons(p) \/ \E id \in Ids : LoadRow(p, id)
  BY <1>0, <1>6, <1>r DEF EnrollCommit, CompleteCommit, LoadLessons, LoadRow, Goto
<1>7. CASE Return(p) \/ GiveUp(p)
  BY <1>0, <1>7 DEF Return, GiveUp, Finish, Goto
<1> QED BY <1>0, <1>1, <1>2, <1>3, <1>4, <1>5, <1>6, <1>7, RequestMoves DEF RequestStep

(* A reconciliation learns of every completion too: it changes the status.  *)
LEMMA EventChangeTouches ==
    ASSUME Control, Locking, Rows, Next, CompleteProjects, NEW q \in Operators, NEW id \in Ids,
           pc[q] \in {"r_lock", "r_rebuild"}, CompletedLessons(id)' # CompletedLessons(id)
    PROVE  <<"enr", id>> \in stale'[q]
<1>0. TypeOK
  BY DEF Control
<1>1. ASSUME NEW rows, Touch(rows), <<"enr", id>> \in rows PROVE <<"enr", id>> \in stale'[q]
  BY <1>1 DEF Touch
<1>2. ASSUME events' = events PROVE FALSE
  BY <1>2 DEF CompletedLessons
<1>3. ASSUME NEW p \in Requests, CompleteCommit(p) PROVE <<"enr", id>> \in stale'[q]
  <2>1. events' = IF wr[p].evt THEN events \cup {<<arg[p].id, arg[p].lesson>>} ELSE events
    BY <1>3 DEF CompleteCommit
  <2>2. id = arg[p].id
    BY <2>1 DEF CompletedLessons
  <2>3. wr[p].status = DerivedStatus(wr[p].proj)
    BY <1>3 DEF CompleteProjects, CompleteCommit
  <2>4. wr[p].status # NoRow
    BY <2>3, NoRowAssumption DEF DerivedStatus, Statuses
  <2> QED BY <1>1, <1>3, <2>2, <2>4 DEF CompleteCommit
<1>4. ASSUME NEW p \in Operators, ResetCommit(p) PROVE <<"enr", id>> \in stale'[q]
  <2>1. events' = {e \in events : e[1] \notin held[p]}
    BY <1>4 DEF ResetCommit
  <2>2. id \in held[p]
    BY <2>1 DEF CompletedLessons
  <2> QED BY <1>1, <1>4, <2>2 DEF ResetCommit
<1>5. ASSUME NEW p \in Requests, EnrollCommit(p) PROVE FALSE
  BY <1>2, <1>5 DEF EnrollCommit
<1>6. ASSUME NEW p \in Operators, ReconcileCommit(p) PROVE FALSE
  BY <1>2, <1>6 DEF ReconcileCommit
<1>7. ASSUME ByHand PROVE FALSE
  BY <1>2, <1>7 DEF ByHand, Withdraw, AddLesson, LoseProjection, SkewProjection
<1> QED BY <1>0, <1>2, <1>3, <1>4, <1>5, <1>6, <1>7, TableSteps DEF db

LEMMA PlanExactStep ==
    ASSUME Control, Locking, Rows, Next, CompleteProjects, PlanExact
    PROVE  PlanExact'
<1> SUFFICES ASSUME NEW q \in Operators, pc'[q] \in {"r_lock", "r_rebuild"},
                    NEW id \in Planned(q)', <<"enr", id>> \notin stale'[q]
             PROVE  plan'[q][id].done = Cardinality(CompletedLessons(id)')
  BY DEF PlanExact
<1>0. id \in Ids /\ plan'[q][id] # NoRow /\ TypeOK
  BY DEF Planned, Control
<1>1. CASE ReconcileBegin(q) /\ plan'[q] = ReportNow
  <2>1. plan'[q][id] = Expected(id) /\ events' = events
    BY <1>0, <1>1 DEF ReportNow, ReconcileBegin, db
  <2> QED BY <2>1 DEF Expected, CompletedLessons
<1>2. CASE pc[q] \in {"r_lock", "r_rebuild"} /\ plan'[q] = plan[q]
  <2>1. <<"enr", id>> \notin stale[q] /\ id \in Planned(q)
    BY <1>0, <1>2, StaleGrows DEF Planned
  <2>2. plan[q][id].done = Cardinality(CompletedLessons(id))
    BY <1>2, <2>1 DEF PlanExact
  <2>3. CompletedLessons(id)' = CompletedLessons(id)
    BY <1>0, <1>2, EventChangeTouches
  <2> QED BY <1>2, <2>2, <2>3
<1> QED BY <1>1, <1>2, OwnSteps

LEMMA ProjectedStep ==
    ASSUME Control, Control', Locking, Rows, Withdrawal, Next, Projected
    PROVE  Projected'
<1> SUFFICES ASSUME Unlost'
             PROVE  EnrollmentsProjected' /\ EnrollProjects' /\ CompleteProjects' /\ PlanExact'
  BY DEF Projected
<1>1. EnrollmentsProjected /\ EnrollProjects /\ CompleteProjects /\ PlanExact
  BY UnlostBefore DEF Projected, Control
<1> QED BY <1>1, EnrollmentsProjectedStep, EnrollProjectsStep, CompleteProjectsStep, PlanExactStep

----------------------------------------------------------------------------
(* What one commit leaves of a projection that counted its events *)

Exact(id) ==
    /\ proj[id] # NoRow
    /\ proj[id].done = Cardinality(CompletedLessons(id))
    /\ enr[id].status \in {"withdrawn", DerivedStatus(proj[id])}

LEMMA ExactUnchanged ==
    ASSUME NEW id, Exact(id), UNCHANGED <<proj[id], enr[id].status>>,
           CompletedLessons(id)' = CompletedLessons(id)
    PROVE  Exact(id)'
BY DEF Exact, DerivedStatus

LEMMA ExactEnroll ==
    ASSUME Control, Rows, EnrollProjects, NEW p \in Requests, EnrollCommit(p), NEW id \in Ids,
           enr'[id] # NoRow, enr[id] # NoRow => Exact(id)
    PROVE  Exact(id)'
<1>0. /\ TypeOK /\ enr \in [Ids -> OptRow(Enrollment)] /\ proj \in [Ids -> OptRow(Projection)]
      /\ PendingEnroll(p) /\ pc[p] = "e_commit" /\ events' = events
  BY DEF Control, TypeOK, Rows, EnrollCommit
<1>1. CompletedLessons(id)' = CompletedLessons(id)
  BY <1>0 DEF CompletedLessons
<1>2. CASE wr[p].enr /\ arg[p].id = id
  <2>1. wr[p].proj # NoRow /\ wr[p].proj.done = 0
    BY <1>0, <1>2 DEF PendingEnroll, EnrollProjects, EnrollLabels
  <2>2. proj'[id] = wr[p].proj /\ enr'[id].status = "active"
    BY <1>0, <1>2, <2>1 DEF EnrollCommit
  <2>3. CompletedLessons(id) = {} /\ Cardinality({}) = 0
    BY <1>2, FreshRow, FS_EmptySet DEF Rows, NoOrphans
  <2>4. DerivedStatus(proj'[id]) = "active"
    BY <2>1, <2>2 DEF DerivedStatus
  <2> QED BY <1>1, <2>1, <2>2, <2>3, <2>4 DEF Exact, DerivedStatus
<1>3. CASE ~ (wr[p].enr /\ arg[p].id = id)
  <2>1. enr'[id] = enr[id]
    BY <1>0, <1>3 DEF EnrollCommit
  <2>2. proj'[id] = proj[id]
    <3>1. CASE arg[p].id = id /\ wr[p].proj # NoRow
      BY <1>0, <1>3, <3>1 DEF EnrollProjects, EnrollLabels
    <3> QED BY <1>0, <3>1 DEF EnrollCommit
  <2> QED BY <1>1, <2>1, <2>2, ExactUnchanged
<1> QED BY <1>2, <1>3

LEMMA ExactComplete ==
    ASSUME Control, Locking, Rows, CompleteProjects, NEW p \in Requests, CompleteCommit(p),
           NEW id \in Ids, enr[id] # NoRow, Exact(id)
    PROVE  Exact(id)'
<1>0. /\ TypeOK /\ enr \in [Ids -> OptRow(Enrollment)] /\ proj \in [Ids -> OptRow(Projection)]
      /\ PendingWrites(p) /\ RequestControl(p) /\ pc[p] = "c_commit"
      /\ events' = IF wr[p].evt THEN events \cup {<<arg[p].id, arg[p].lesson>>} ELSE events
  BY DEF Control, TypeOK, Rows, CompleteCommit
<1>1. CASE arg[p].id = id
  <2>1. /\ wr[p].proj # NoRow /\ wr[p].proj.done = Cardinality(SeenLessons(p))
        /\ wr[p].status = DerivedStatus(wr[p].proj)
    BY <1>0 DEF CompleteProjects
  <2>2. wr[p].status # NoRow
    BY <2>1, NoRowAssumption DEF DerivedStatus, Statuses
  <2>3. proj'[id] = wr[p].proj
    BY <1>0, <1>1, <2>1 DEF CompleteCommit
  <2>4. enr'[id].status = wr[p].status
    <3>1. enr' = [enr EXCEPT ![id].status = wr[p].status] /\ enr[id] \in Enrollment
      BY <1>0, <1>1, <2>2 DEF CompleteCommit, OptRow
    <3> QED BY <1>0, <3>1 DEF Enrollment
  <2>5. CompletedLessons(id)' = SeenLessons(p)
    <3>1. arg[p].lesson \in Lessons
      BY <1>0 DEF RequestControl, LockedLabels, TypeOK
    <3>2. ~ wr[p].evt => <<id, arg[p].lesson>> \in events
      BY <1>0, <1>1 DEF PendingWrites
    <3> QED BY <1>0, <1>1, <3>1, <3>2 DEF CompletedLessons, SeenLessons
  <2>6. DerivedStatus(proj'[id]) = enr'[id].status
    BY <2>1, <2>3, <2>4 DEF DerivedStatus
  <2> QED BY <2>1, <2>3, <2>5, <2>6 DEF Exact, DerivedStatus
<1>2. CASE arg[p].id # id
  <2>1. UNCHANGED <<proj[id], enr[id]>>
    BY <1>0, <1>2 DEF CompleteCommit
  <2>2. CompletedLessons(id)' = CompletedLessons(id)
    BY <1>0, <1>2 DEF CompletedLessons
  <2> QED BY <2>1, <2>2, ExactUnchanged
<1> QED BY <1>1, <1>2

LEMMA ExactReconcile ==
    ASSUME Control, Locking, Withdrawal, PlanExact, NEW p \in Operators, ReconcileCommit(p),
           NEW id \in Ids, enr[id] # NoRow, id \notin Planned(p) => Exact(id)
    PROVE  Exact(id)'
<1>0. /\ TypeOK /\ pc[p] = "r_rebuild" /\ events' = events
      /\ plan \in [Operators -> [Ids -> OptRow(Expectation)]]
  BY DEF Control, TypeOK, ReconcileCommit
<1>1. CompletedLessons(id)' = CompletedLessons(id)
  BY <1>0 DEF CompletedLessons
<1>2. CASE id \in Planned(p)
  <2> DEFINE row == [done |-> plan[p][id].done, total |-> plan[p][id].total]
  <2>1. proj'[id] = row /\ enr'[id] = [enr[id] EXCEPT !.status = plan[p][id].status]
    BY <1>2 DEF ReconcileCommit
  <2>2. enr[id] \in Enrollment /\ plan[p][id] \in Expectation
    BY <1>0, <1>2 DEF TypeOK, OptRow, Planned
  <2>3. enr'[id].status = plan[p][id].status
    BY <2>1, <2>2 DEF Enrollment
  <2>4. row \in Projection
    BY <2>2 DEF Expectation, Projection
  <2>5. <<"enr", id>> \notin stale[p] /\ plan[p][id].status \in {"withdrawn", DerivedStatus(plan[p][id])}
    BY <1>2, RepairKeeps
  <2>6. plan[p][id].done = Cardinality(CompletedLessons(id))
    BY <1>0, <1>2, <2>5 DEF PlanExact
  <2>7. DerivedStatus(plan[p][id]) = DerivedStatus(row)
    BY DEF DerivedStatus
  <2>8. enr'[id].status \in {"withdrawn", DerivedStatus(proj'[id])}
    BY <2>1, <2>3, <2>5, <2>7
  <2> QED BY <1>1, <2>1, <2>4, <2>6, <2>8, NoRowAssumption DEF Exact, DerivedStatus
<1>3. CASE id \notin Planned(p)
  <2>1. UNCHANGED <<proj[id], enr[id]>>
    BY <1>3 DEF ReconcileCommit
  <2> QED BY <1>1, <1>3, <2>1, ExactUnchanged
<1> QED BY <1>2, <1>3

LEMMA ProjectionFaithfulStep ==
    ASSUME Control, Locking, Rows, Withdrawal, Projecting, Next
    PROVE  ProjectionFaithful'
<1> SUFFICES ASSUME faults' = 0, NEW id \in Ids, enr'[id] # NoRow
             PROVE  Exact(id)'
  BY DEF ProjectionFaithful, Exact, DerivedStatus
<1>0. /\ TypeOK /\ faults = 0 /\ enr \in [Ids -> OptRow(Enrollment)]
      /\ \A i \in Ids : ~ LoseProjection(i)
      /\ \A i \in Ids : \A n : ~ SkewProjection(i, n)
  <2>1. TypeOK /\ Unlost'
    BY DEF Control, Unlost
  <2> QED BY <2>1, UnlostBefore DEF TypeOK
<1>1. EnrollProjects /\ CompleteProjects /\ PlanExact
  BY <1>0 DEF Projecting, Projected, Unlost
<1>2. enr[id] # NoRow => Exact(id)
  BY <1>0 DEF Projecting, ProjectionFaithful, Exact
<1>3. ASSUME NEW p \in Requests, EnrollCommit(p) PROVE Exact(id)'
  BY <1>1, <1>2, <1>3, ExactEnroll
<1>4. ASSUME enr[id] = NoRow PROVE Exact(id)'
  BY <1>3, <1>4, RowsAppear
<1>5. ASSUME NEW p \in Requests, CompleteCommit(p), enr[id] # NoRow PROVE Exact(id)'
  BY <1>1, <1>2, <1>5, ExactComplete
<1>6. ASSUME NEW p \in Operators, ReconcileCommit(p), enr[id] # NoRow PROVE Exact(id)'
  BY <1>1, <1>2, <1>6, ExactReconcile
<1>7. ASSUME NEW p \in Operators, ResetCommit(p), enr[id] # NoRow PROVE Exact(id)'
  <2>1. id \notin held[p]
    BY <1>7 DEF ResetCommit
  <2>2. UNCHANGED <<proj[id], enr[id]>>
    BY <1>7, <2>1 DEF ResetCommit
  <2>3. CompletedLessons(id)' = CompletedLessons(id)
    BY <1>7, <2>1 DEF ResetCommit, CompletedLessons
  <2> QED BY <1>2, <1>7, <2>2, <2>3, ExactUnchanged
<1>8. ASSUME ByHand, enr[id] # NoRow PROVE Exact(id)'
  <2>1. ASSUME NEW i \in Ids, Withdraw(i) PROVE Exact(id)'
    <3>1. /\ enr' = [enr EXCEPT ![i].status = "withdrawn"] /\ UNCHANGED <<events, proj>>
      BY <2>1 DEF Withdraw
    <3>2. enr'[id].status \in {"withdrawn", enr[id].status}
      <4>1. enr[id] \in Enrollment
        BY <1>0, <1>8 DEF OptRow
      <4> QED BY <1>0, <3>1, <4>1 DEF Enrollment
    <3>3. CompletedLessons(id)' = CompletedLessons(id)
      BY <3>1 DEF CompletedLessons
    <3> QED BY <1>2, <1>8, <3>1, <3>2, <3>3 DEF Exact, DerivedStatus
  <2>2. ASSUME NEW l \in Lessons, AddLesson(l) PROVE Exact(id)'
    <3>1. UNCHANGED <<enr, events, proj>>
      BY <2>2 DEF AddLesson
    <3> QED BY <1>2, <1>8, <3>1, ExactUnchanged DEF CompletedLessons
  <2> QED BY <1>0, <1>8, <2>1, <2>2 DEF ByHand
<1>9. ASSUME UNCHANGED db, enr[id] # NoRow PROVE Exact(id)'
  BY <1>2, <1>9, ExactUnchanged DEF db, CompletedLessons
<1> QED BY <1>0, <1>3, <1>4, <1>5, <1>6, <1>7, <1>8, <1>9, TableSteps

=============================================================================
