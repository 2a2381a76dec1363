---------------------------- MODULE ServiceTheorems ----------------------------
(***************************************************************************)
(* What holds of Service for any number of processes, requests, tokens and *)
(* members, and for pools of any size.                                     *)
(***************************************************************************)
EXTENDS ServiceProps, StartupTheorems

LEMMA StartupStep ==
    ASSUME Next
    PROVE  [StartupNext]_startupVars
<1>1. ASSUME NEW p \in Processes, Prepare(p) PROVE StartupNext
  BY <1>1 DEF Prepare, StartupNext
<1>2. ASSUME NEW p \in Processes, SeedMembers(p) PROVE StartupNext
  BY <1>2 DEF SeedMembers, StartupNext
<1>3. ASSUME NEW p \in Processes, Exit(p) \/ Kill(p) PROVE StartupNext
  BY <1>3 DEF Exit, Kill, StartupNext
<1>4. ASSUME NEW p \in Processes, Stop(p) \/ CloseStore(p) PROVE UNCHANGED startupVars
  BY <1>4 DEF Stop, CloseStore
<1>5. ASSUME NEW r \in Requests, Serve(r) \/ Malformed(r) \/ Fail(r)
      PROVE  UNCHANGED startupVars
  BY <1>5 DEF Serve, Malformed, Fail, Acquire, Resolve, HandleOn, Handle, TurnAway,
     PingTimesOut, Finish
<1>6. ASSUME NEW r, NEW p, NEW route, NEW token, Send(r, p, route, token)
      PROVE  UNCHANGED startupVars
  BY <1>6 DEF Send
<1>7. CASE ChangeDirectory
  BY <1>7 DEF ChangeDirectory
<1> QED BY <1>1, <1>2, <1>3, <1>4, <1>5, <1>6, <1>7 DEF Next

(* Serving requests and stopping leave the start of processes as it is.    *)
THEOREM Deployed == Spec => StartupSpec
<1>1. Init => StartupInit
  BY DEF Init
<1>2. ASSUME [Next]_vars PROVE [StartupNext]_startupVars
  BY <1>2, StartupStep DEF vars, startupVars
<1> QED BY <1>1, <1>2, PTL DEF Spec, StartupSpec

-----------------------------------------------------------------------------
(* Processes: one that listens or is gone stays so until it dies. *)

LEMMA PhaseStep ==
    ASSUME phase \in [Processes -> Phases], NEW p \in Processes,
           Prepare(p) \/ SeedMembers(p)
    PROVE  /\ phase' \in [Processes -> Phases]
           /\ \A q \in Processes : phase[q] \in {"listening", "gone"} => phase'[q] = phase[q]
<1>1. \/ UNCHANGED phase
      \/ /\ phase[p] \in Starting \cup {"off"}
         /\ \E to \in Phases : phase' = [phase EXCEPT ![p] = to]
  BY DEF Prepare, SeedMembers, Execute, Refuse, Cut, Start, MigrateStep, LoseConnection,
     Seed, Listen, TakeLock, MakeTable, LookUp, RunFile, InsertVersion, CommitFile,
     DropLock, Locked, TableMade, Skip, Apply, RecordFile, AskCommit, Applied, Failed,
     Unlocked, Phases, Starting, AfterMigrate, Answered
<1> QED BY <1>1 DEF Starting

LEMMA DieStep ==
    ASSUME phase \in [Processes -> Phases], NEW p \in Processes, Die(p)
    PROVE  /\ phase' \in [Processes -> Phases]
           /\ phase'[p] = "gone"
           /\ \A q \in Processes \ {p} : phase'[q] = phase[q]
BY DEF Die, Phases

-----------------------------------------------------------------------------
(* Requests: what a step of one of them may make of it. *)

(* What a step may replace a request by. *)
Allowed(r, q) ==
    /\ q \in Request
    /\ q.stage # "cut"
    /\ q.stage \in Active => q.process \in Processes /\ phase[q.process] = "listening"
    /\ Traced(q)
    /\ q.stage = "replying" /\ q.route \in PersonRoutes =>
        /\ q.response \in {"served", "malformed"} => q.had
        /\ q.response = "forbidden" => q.lacked
    /\ q.stage \in Active =>
        \/ req[r].stage \in Active /\ q.process = req[r].process
        \/ stopping[q.process] # "closing"

LEMMA ReplyAllowed ==
    ASSUME TypeOK, RolesTraced, NEW r \in Requests, NEW response \in Responses,
           req[r].stage \in Active,
           req[r].route \in PersonRoutes /\ response \in {"served", "malformed"} => req[r].had,
           req[r].route \in PersonRoutes /\ response = "forbidden" => req[r].lacked
    PROVE  Allowed(r, [req[r] EXCEPT !.stage = "replying", !.token = NoToken, !.left = 0,
                                     !.response = response])
<1>1. req[r] \in Request /\ req[r].process \in Processes /\ phase[req[r].process] = "listening"
  BY DEF TypeOK
<1> QED BY <1>1 DEF Allowed, Traced, Request, Stages, Active

LEMMA ProceedAllowed ==
    ASSUME TypeOK, RolesTraced, NEW r \in Requests, req[r].stage \in Active \ {"replying"},
           NEW stage \in Active \ {"replying"}, NEW left \in Nat,
           stage \in {"admitted", "handling"} /\ req[r].route \in PersonRoutes => req[r].had
    PROVE  Allowed(r, [req[r] EXCEPT !.stage = stage, !.left = left])
<1>1. req[r] \in Request /\ req[r].process \in Processes /\ phase[req[r].process] = "listening"
  BY DEF TypeOK, Active
<1>2. Traced(req[r])
  BY DEF RolesTraced
<1> QED BY <1>1, <1>2 DEF Allowed, Traced, Request, Stages, Active

LEMMA SendAllowed ==
    ASSUME TypeOK, NEW r \in Requests, NEW p \in Processes, NEW route \in Routes,
           NEW token \in Tokens \cup {NoToken}, Send(r, p, route, token)
    PROVE  \E q : Allowed(r, q) /\ req' = [req EXCEPT ![r] = q]
<1> DEFINE q == [stage |-> FirstStage(route, token), process |-> p, route |-> route,
                 token |-> IF FirstStage(route, token) = "replying" THEN NoToken ELSE token,
                 left |-> IF FirstStage(route, token) = "replying" THEN 0 ELSE Uses[route],
                 response |-> FirstResponse(route, token),
                 had |-> Entitled(directory, route, token),
                 lacked |-> ~Entitled(directory, route, token)]
<1>1. phase[p] = "listening" /\ stopping[p] # "closing" /\ req' = [req EXCEPT ![r] = q]
  BY DEF Send
<1>2. FirstStage(route, token) \in {"admitted", "sent", "replying"}
  BY DEF FirstStage
<1>3. FirstResponse(route, token) \in {"none", "unauthorized", "forbidden"}
  BY DEF FirstResponse
<1>4. Uses[route] \in Nat /\ 0 \in Nat
  BY ServiceAssumption
<1>5. Entitled(directory, route, token) \in BOOLEAN
  BY DEF Entitled
<1>6. q \in Request
  BY <1>2, <1>3, <1>4, <1>5 DEF Request, Stages, Active, Responses
<1>7. route \in PersonRoutes /\ FirstStage(route, token) = "replying"
        => FirstResponse(route, token) = "unauthorized"
  BY DEF FirstStage, FirstResponse, PersonRoutes, Roles
<1>8. route \in PersonRoutes => FirstStage(route, token) \in {"sent", "replying"}
  BY DEF FirstStage, PersonRoutes, Roles
<1>9. Traced(q)
  <2>1. q.stage = FirstStage(route, token) /\ q.route = route
    OBVIOUS
  <2>2. q.stage \notin {"replying"} => q.token = token
    OBVIOUS
  <2>3. q.had = Entitled(directory, route, token) /\ q.lacked = ~Entitled(directory, route, token)
    OBVIOUS
  <2> HIDE DEF q
  <2> QED BY <1>2, <1>8, <2>1, <2>2, <2>3 DEF Traced, Active
<1> HIDE DEF q
<1>10. /\ q.stage = FirstStage(route, token) /\ q.process = p /\ q.route = route
       /\ q.response = FirstResponse(route, token)
  BY DEF q
<1>11. Allowed(r, q)
  BY <1>1, <1>2, <1>6, <1>7, <1>9, <1>10 DEF Allowed
<1> QED BY <1>1, <1>11

(* Each step of a request that is under way, and a new one. *)
LEMMA RequestStep ==
    ASSUME TypeOK, RolesTraced, NEW r \in Requests,
           Serve(r) \/ Malformed(r) \/ Fail(r)
    PROVE  \E q : Allowed(r, q) /\ req' = [req EXCEPT ![r] = q]
<1>0. /\ req \in [Requests -> Request] /\ req[r] \in Request /\ req[r].left \in Nat
      /\ req[r].route \in Routes
  BY DEF TypeOK, Request
<1>1. Traced(req[r])
  BY DEF RolesTraced
<1>2. ASSUME NEW response \in Responses, req[r].stage \in Active, Reply(r, response),
             req[r].route \in PersonRoutes /\ response \in {"served", "malformed"} => req[r].had,
             req[r].route \in PersonRoutes /\ response = "forbidden" => req[r].lacked
      PROVE  \E q : Allowed(r, q) /\ req' = [req EXCEPT ![r] = q]
  <2>1. Allowed(r, [req[r] EXCEPT !.stage = "replying", !.token = NoToken, !.left = 0,
                                  !.response = response])
    BY <1>2, ReplyAllowed
  <2> QED BY <1>2, <2>1 DEF Reply
<1>3. ASSUME NEW stage \in Active \ {"replying"}, req[r].stage \in Active \ {"replying"},
             Proceed(r, stage),
             stage \in {"admitted", "handling"} /\ req[r].route \in PersonRoutes => req[r].had
      PROVE  \E q : Allowed(r, q) /\ req' = [req EXCEPT ![r] = q]
  <2>1. Allowed(r, [req[r] EXCEPT !.stage = stage, !.left = req[r].left])
    BY <1>0, <1>3, ProceedAllowed
  <2>2. [req[r] EXCEPT !.stage = stage, !.left = req[r].left] = [req[r] EXCEPT !.stage = stage]
    BY <1>0 DEF Request
  <2> QED BY <1>3, <2>1, <2>2 DEF Proceed
<1>4. CASE Acquire(r)
  <2>1. CASE req[r].stage = "sent"
    BY <1>3, <1>4, <2>1 DEF Acquire, Active
  <2>2. CASE req[r].stage = "admitted"
    <3>1. req[r].route \in PersonRoutes => req[r].had
      BY <1>1, <2>2 DEF Traced
    <3> QED BY <1>3, <1>4, <2>2, <3>1 DEF Acquire, Active
  <2> QED BY <1>4, <2>1, <2>2 DEF Acquire
<1>5. CASE Resolve(r)
  <2>1. CASE Entitled(directory, req[r].route, req[r].token)
    <3>1. req[r].had
      BY <1>1, <1>5, <2>1 DEF Traced, Resolve, Active
    <3> QED BY <1>3, <1>5, <2>1, <3>1 DEF Resolve, Active
  <2>2. CASE ~Entitled(directory, req[r].route, req[r].token)
    <3>1. req[r].lacked
      BY <1>1, <1>5, <2>2 DEF Traced, Resolve, Active
    <3> QED BY <1>2, <1>5, <2>2, <3>1 DEF Resolve, Active, Responses
  <2> QED BY <2>1, <2>2
<1>6. CASE HandleOn(r)
  <2>1. req[r].left - 1 \in Nat
    BY <1>0, <1>6 DEF HandleOn
  <2>2. req[r].route \in PersonRoutes => req[r].had
    BY <1>1, <1>6 DEF Traced, HandleOn
  <2>3. Allowed(r, [req[r] EXCEPT !.stage = "admitted", !.left = req[r].left - 1])
    BY <1>6, <2>1, <2>2, ProceedAllowed DEF HandleOn, Active
  <2> QED BY <1>6, <2>3 DEF HandleOn
<1>7. CASE Handle(r) \/ Malformed(r)
  <2>1. req[r].route \in PersonRoutes => req[r].had
    BY <1>1, <1>7 DEF Traced, Handle, Malformed
  <2> QED BY <1>2, <1>7, <2>1 DEF Handle, Malformed, Active, Responses
<1>8. CASE Fail(r) \/ TurnAway(r) \/ PingTimesOut(r)
  BY <1>2, <1>8 DEF Fail, TurnAway, PingTimesOut, Active, Responses
<1>9. CASE Finish(r)
  <2> DEFINE q == Blank("answered", req[r].process)
  <2>1. q \in Request
    BY <1>0 DEF Blank, Request, Stages, Active, Responses, Routes
  <2>2. q.stage = "answered"
    BY DEF Blank
  <2> HIDE DEF q
  <2>3. Allowed(r, q)
    BY <2>1, <2>2 DEF Allowed, Traced, Active
  <2> QED BY <1>9, <2>3 DEF Finish, q
<1> QED BY <1>4, <1>5, <1>6, <1>7, <1>8, <1>9 DEF Serve

-----------------------------------------------------------------------------
(* The invariant: one lemma for each kind of step. *)

(* One request replaced by what is allowed. *)
LEMMA ReplaceStep ==
    ASSUME ServiceInv, NEW r \in Requests, NEW q, Allowed(r, q), req' = [req EXCEPT ![r] = q],
           UNCHANGED <<startupVars, directory, changes, stopping, overdue, killed>>
    PROVE  ServiceInv'
<1>0. /\ TypeOK /\ req \in [Requests -> Request] /\ q \in Request
      /\ UNCHANGED <<phase, directory, changes, stopping, overdue, killed>>
      /\ req'[r] = q /\ \A t \in Requests \ {r} : req'[t] = req[t]
  BY DEF ServiceInv, TypeOK, Allowed, startupVars
<1>1. TypeOK'
  BY <1>0 DEF TypeOK, Allowed
<1>2. RolesTraced'
  BY <1>0 DEF ServiceInv, RolesTraced, Allowed, Traced, Entitled
<1>3. RolesDecide'
  BY <1>0 DEF ServiceInv, RolesDecide, Allowed
<1>4. LeftOver'
  BY <1>0 DEF ServiceInv, LeftOver, Allowed
<1>5. CutForAReason'
  BY <1>0 DEF ServiceInv, CutForAReason, Allowed
<1> QED BY <1>1, <1>2, <1>3, <1>4, <1>5 DEF ServiceInv

(* The member table becomes another, and the undecided requests see it.    *)
LEMMA WitnessStep ==
    ASSUME ServiceInv, NEW dir, directory' = dir, Witness(dir),
           DOMAIN dir \subseteq Subjects, \A s \in DOMAIN dir : dir[s] \subseteq Roles,
           phase' \in [Processes -> Phases],
           \A p \in Processes : phase[p] \in {"listening", "gone"} => phase'[p] = phase[p],
           changes' \in 0 .. MaxChanges, UNCHANGED <<stopping, overdue, killed>>
    PROVE  ServiceInv'
<1>0. TypeOK /\ req \in [Requests -> Request]
  BY DEF ServiceInv, TypeOK
<1>1. ASSUME NEW r \in Requests
      PROVE  /\ req'[r] \in Request
             /\ req'[r].stage = req[r].stage /\ req'[r].process = req[r].process
             /\ req'[r].route = req[r].route /\ req'[r].token = req[r].token
             /\ req'[r].response = req[r].response
  <2>1. req[r] \in Request /\ Entitled(dir, req[r].route, req[r].token) \in BOOLEAN
    BY <1>0 DEF Entitled
  <2> QED BY <2>1 DEF Witness, Request
<1>2. ASSUME NEW r \in Requests, req[r].stage \in Active \ {"replying"}
      PROVE  /\ req'[r].had = (req[r].had \/ Entitled(dir, req[r].route, req[r].token))
             /\ req'[r].lacked = (req[r].lacked \/ ~Entitled(dir, req[r].route, req[r].token))
  <2>1. req[r] \in Request
    BY <1>0
  <2> QED BY <1>2, <2>1 DEF Witness, Request
<1>3. ASSUME NEW r \in Requests, req[r].stage \notin Active \ {"replying"}
      PROVE  req'[r] = req[r]
  BY <1>3 DEF Witness
<1>4. TypeOK'
  <2>1. req' \in [Requests -> Request]
    BY <1>1 DEF Witness
  <2>2. \A r \in Requests : req'[r].stage \in Active =>
            req'[r].process \in Processes /\ phase'[req'[r].process] = "listening"
    BY <1>0, <1>1 DEF TypeOK
  <2>3. \A p \in Processes : stopping'[p] # "no" => phase'[p] \in {"listening", "gone"}
    BY <1>0 DEF TypeOK
  <2> QED BY <1>0, <2>1, <2>2, <2>3 DEF TypeOK
<1>5. RolesTraced'
  <2> SUFFICES ASSUME NEW r \in Requests PROVE Traced(req[r])'
    BY DEF RolesTraced
  <2>1. Traced(req[r])
    BY DEF ServiceInv, RolesTraced
  <2>2. CASE req[r].stage \in Active \ {"replying"}
    <3>1. Entitled(directory', req'[r].route, req'[r].token)
            <=> Entitled(dir, req[r].route, req[r].token)
      BY <1>1
    <3>2. req'[r].had <=> (req[r].had \/ Entitled(dir, req[r].route, req[r].token))
      BY <1>2, <2>2
    <3>3. req'[r].lacked <=> (req[r].lacked \/ ~Entitled(dir, req[r].route, req[r].token))
      BY <1>2, <2>2
    <3>4. Traced(req[r])' <=>
            /\ req'[r].stage \in Active \ {"replying"} =>
                /\ Entitled(directory', req'[r].route, req'[r].token) => req'[r].had
                /\ ~Entitled(directory', req'[r].route, req'[r].token) => req'[r].lacked
            /\ req'[r].stage \in {"admitted", "handling"} /\ req'[r].route \in PersonRoutes
                => req'[r].had
      BY DEF Traced, Entitled
    <3> QED BY <1>1, <2>1, <2>2, <3>1, <3>2, <3>3, <3>4 DEF Traced
  <2>3. CASE req[r].stage \notin Active \ {"replying"}
    BY <1>1, <2>3 DEF Traced, Active
  <2> QED BY <2>2, <2>3
<1>6. RolesDecide'
  <2>1. ASSUME NEW r \in Requests, req'[r].stage = "replying" PROVE req'[r] = req[r]
    BY <1>1, <1>3, <2>1
  <2> QED BY <1>1, <2>1 DEF ServiceInv, RolesDecide
<1>7. LeftOver'
  BY <1>1 DEF ServiceInv, LeftOver
<1>8. CutForAReason'
  BY <1>1 DEF ServiceInv, CutForAReason
<1> QED BY <1>4, <1>5, <1>6, <1>7, <1>8 DEF ServiceInv

(* Startup goes on, and no request is touched. *)
LEMMA PrepareStep ==
    ASSUME ServiceInv, NEW p \in Processes, Prepare(p)
    PROVE  ServiceInv'
<1>0. TypeOK /\ phase \in [Processes -> Phases] /\ UNCHANGED requestVars
  BY DEF ServiceInv, TypeOK, Prepare
<1>1. /\ phase' \in [Processes -> Phases]
      /\ \A q \in Processes : phase[q] \in {"listening", "gone"} => phase'[q] = phase[q]
  BY <1>0, PhaseStep
<1>2. UNCHANGED <<directory, changes, req, stopping, overdue, killed>>
  BY <1>0 DEF requestVars
<1>3. TypeOK'
  BY <1>0, <1>1, <1>2 DEF TypeOK
<1>4. RolesTraced' /\ RolesDecide' /\ LeftOver' /\ CutForAReason'
  BY <1>2 DEF ServiceInv, RolesTraced, Traced, Entitled, RolesDecide, LeftOver, CutForAReason
<1> QED BY <1>3, <1>4 DEF ServiceInv

LEMMA SeedMembersStep ==
    ASSUME ServiceInv, NEW p \in Processes, SeedMembers(p)
    PROVE  ServiceInv'
<1>0. /\ TypeOK /\ phase \in [Processes -> Phases]
      /\ DOMAIN directory \subseteq Subjects
      /\ \A s \in DOMAIN directory : directory[s] \subseteq Roles
      /\ UNCHANGED <<changes, stopping, overdue, killed>> /\ changes \in 0 .. MaxChanges
  BY DEF ServiceInv, TypeOK, SeedMembers
<1>1. /\ phase' \in [Processes -> Phases]
      /\ \A q \in Processes : phase[q] \in {"listening", "gone"} => phase'[q] = phase[q]
  BY <1>0, PhaseStep
<1>2. /\ DOMAIN directory' \subseteq Subjects
      /\ \A s \in DOMAIN directory' : directory'[s] \subseteq Roles
  BY <1>0, ServiceAssumption DEF SeedMembers
<1>3. Witness(directory')
  BY DEF SeedMembers
<1> QED BY <1>0, <1>1, <1>2, <1>3, WitnessStep

LEMMA DirectoryStep ==
    ASSUME ServiceInv, ChangeDirectory
    PROVE  ServiceInv'
<1>0. /\ TypeOK /\ phase \in [Processes -> Phases]
      /\ DOMAIN directory \subseteq Subjects
      /\ \A s \in DOMAIN directory : directory[s] \subseteq Roles
      /\ UNCHANGED <<phase, stopping, overdue, killed>> /\ changes \in 0 .. MaxChanges
  BY DEF ServiceInv, TypeOK, ChangeDirectory, startupVars
<1>1. changes' \in 0 .. MaxChanges
  BY <1>0, ServiceAssumption DEF ChangeDirectory
<1>2. /\ DOMAIN directory' \subseteq Subjects
      /\ \A s \in DOMAIN directory' : directory'[s] \subseteq Roles
  BY <1>0 DEF ChangeDirectory
<1>3. Witness(directory')
  BY DEF ChangeDirectory
<1> QED BY <1>0, <1>1, <1>2, <1>3, WitnessStep

(* A process is told to stop, or begins to close its store. *)
LEMMA StopStep ==
    ASSUME ServiceInv, NEW p \in Processes, Stop(p) \/ CloseStore(p)
    PROVE  ServiceInv'
<1>0. /\ TypeOK /\ UNCHANGED <<phase, directory, changes, req, killed>>
      /\ phase[p] = "listening"
  BY DEF ServiceInv, Stop, CloseStore, startupVars
<1>1. TypeOK'
  BY <1>0 DEF TypeOK, Stop, CloseStore
<1>2. RolesTraced' /\ RolesDecide'
  BY <1>0 DEF ServiceInv, RolesTraced, Traced, Entitled, RolesDecide
<1>3. overdue \subseteq overdue'
  BY DEF Stop, CloseStore
<1>4. LeftOver'
  <2> SUFFICES ASSUME NEW r \in Requests, req[r].stage \in Active,
                      stopping'[req[r].process] = "closing"
               PROVE  req[r].process \in overdue'
    BY <1>0 DEF LeftOver
  <2>0. req[r].process \in Processes /\ stopping \in [Processes -> {"no", "draining", "closing"}]
    BY <1>0 DEF TypeOK
  <2>1. CASE stopping[req[r].process] = "closing"
    BY <1>3, <2>1 DEF ServiceInv, LeftOver
  <2>2. CASE stopping[req[r].process] # "closing"
    <3>1. CloseStore(p) /\ req[r].process = p
      BY <2>0, <2>2 DEF Stop, CloseStore
    <3>2. r \in ActiveAt(p)
      BY <3>1 DEF ActiveAt
    <3> QED BY <3>1, <3>2 DEF CloseStore
  <2> QED BY <2>1, <2>2
<1>5. CutForAReason'
  BY <1>0, <1>3 DEF ServiceInv, CutForAReason
<1> QED BY <1>1, <1>2, <1>4, <1>5 DEF ServiceInv

(* A process ends, in good order or killed, and takes its requests along. *)
LEMMA EndStep ==
    ASSUME ServiceInv, NEW p \in Processes, Exit(p) \/ Kill(p)
    PROVE  ServiceInv'
<1>0. /\ TypeOK /\ req \in [Requests -> Request] /\ phase \in [Processes -> Phases]
      /\ UNCHANGED <<directory, changes, stopping, overdue>>
      /\ killed \subseteq killed' /\ killed' \subseteq Processes
      /\ CutRequests(p)
  BY DEF ServiceInv, TypeOK, Exit, Kill
<1>1. /\ phase' \in [Processes -> Phases] /\ phase'[p] = "gone"
      /\ \A q \in Processes \ {p} : phase'[q] = phase[q]
  BY <1>0, DieStep DEF Exit, Kill
<1>2. ASSUME NEW r \in Requests, r \notin ActiveAt(p) PROVE req'[r] = req[r]
  BY <1>0, <1>2 DEF CutRequests
<1>3. Blank("cut", p) \in Request
  BY DEF Blank, Request, Stages, Active, Responses, Routes
<1>4. ASSUME NEW r \in Requests, r \in ActiveAt(p)
      PROVE  /\ req'[r] \in Request /\ req'[r].stage = "cut" /\ req'[r].process = p
             /\ req[r].stage \in Active /\ req[r].process = p
  <2>1. req'[r] = Blank("cut", p)
    BY <1>0, <1>4 DEF CutRequests
  <2> QED BY <1>3, <1>4, <2>1 DEF Blank, ActiveAt
<1>5. ASSUME NEW r \in Requests, req'[r].stage \in Active
      PROVE  req'[r] = req[r] /\ req[r].process \in Processes \ {p}
  <2>1. r \notin ActiveAt(p)
    BY <1>4, <1>5 DEF Active
  <2>2. req'[r] = req[r]
    BY <1>2, <2>1
  <2> QED BY <1>0, <1>5, <2>1, <2>2 DEF ActiveAt, TypeOK
<1>6. TypeOK'
  <2>1. req' \in [Requests -> Request]
    BY <1>0, <1>2, <1>4 DEF CutRequests
  <2>2. \A r \in Requests : req'[r].stage \in Active =>
            req'[r].process \in Processes /\ phase'[req'[r].process] = "listening"
    BY <1>0, <1>1, <1>5 DEF TypeOK
  <2>3. \A q \in Processes : stopping'[q] # "no" => phase'[q] \in {"listening", "gone"}
    BY <1>0, <1>1 DEF TypeOK
  <2> QED BY <1>0, <1>1, <2>1, <2>2, <2>3 DEF TypeOK
<1>7. RolesTraced'
  <2> SUFFICES ASSUME NEW r \in Requests PROVE Traced(req[r])'
    BY DEF RolesTraced
  <2>1. CASE r \in ActiveAt(p)
    BY <1>4, <2>1 DEF Traced, Active
  <2>2. CASE r \notin ActiveAt(p)
    BY <1>0, <1>2, <2>2 DEF ServiceInv, RolesTraced, Traced, Entitled
  <2> QED BY <2>1, <2>2
<1>8. RolesDecide'
  BY <1>5 DEF ServiceInv, RolesDecide, Active
<1>9. LeftOver'
  BY <1>0, <1>5 DEF ServiceInv, LeftOver
<1>10. CutForAReason'
  <2> SUFFICES ASSUME NEW r \in Requests, req'[r].stage = "cut"
               PROVE  req'[r].process \in killed' \cup overdue'
    BY DEF CutForAReason
  <2>1. CASE r \notin ActiveAt(p)
    BY <1>0, <1>2, <2>1 DEF ServiceInv, CutForAReason
  <2>2. CASE r \in ActiveAt(p) /\ Exit(p)
    BY <1>0, <1>4, <2>2 DEF ServiceInv, LeftOver, Exit
  <2>3. CASE r \in ActiveAt(p) /\ Kill(p)
    BY <1>4, <2>3 DEF Kill
  <2> QED BY <2>1, <2>2, <2>3
<1> QED BY <1>6, <1>7, <1>8, <1>9, <1>10 DEF ServiceInv

-----------------------------------------------------------------------------

LEMMA ServiceInvInit ==
    ASSUME Init
    PROVE  ServiceInv
<1>1. /\ phase = [p \in Processes |-> "off"] /\ directory = <<>> /\ changes = 0
      /\ req = [r \in Requests |-> Blank("unsent", Nobody)]
      /\ stopping = [p \in Processes |-> "no"] /\ overdue = {} /\ killed = {}
  BY DEF Init, StartupInit
<1>2. Blank("unsent", Nobody) \in Request /\ Blank("unsent", Nobody).stage = "unsent"
  BY DEF Blank, Request, Stages, Active, Responses, Routes
<1>3. \A r \in Requests : req[r] \in Request /\ req[r].stage = "unsent"
  BY <1>1, <1>2
<1>4. req \in [Requests -> Request]
  BY <1>1, <1>2
<1>5. DOMAIN directory = {}
  BY <1>1
<1>6. TypeOK
  BY <1>1, <1>3, <1>4, <1>5, ServiceAssumption DEF TypeOK, Phases, Active
<1> QED BY <1>3, <1>6 DEF ServiceInv, RolesTraced, Traced, RolesDecide, LeftOver,
           CutForAReason, Active

LEMMA ServiceInvStep ==
    ASSUME ServiceInv, [Next]_vars
    PROVE  ServiceInv'
<1>1. CASE UNCHANGED vars
  BY <1>1 DEF vars, startupVars, requestVars, ServiceInv, TypeOK, RolesTraced, Traced,
     Entitled, RolesDecide, LeftOver, CutForAReason
<1>2. ASSUME NEW p \in Processes,
             \/ Prepare(p) \/ SeedMembers(p) \/ Stop(p) \/ CloseStore(p)
             \/ Exit(p) \/ Kill(p)
      PROVE  ServiceInv'
  BY <1>2, PrepareStep, SeedMembersStep, StopStep, EndStep
<1>3. ASSUME NEW r \in Requests, Serve(r) \/ Malformed(r) \/ Fail(r)
      PROVE  ServiceInv'
  <2>1. \E q : Allowed(r, q) /\ req' = [req EXCEPT ![r] = q]
    BY <1>3, RequestStep DEF ServiceInv
  <2>2. UNCHANGED <<startupVars, directory, changes, stopping, overdue, killed>>
    BY <1>3 DEF Serve, Malformed, Fail, Acquire, Resolve, HandleOn, Handle, TurnAway,
       PingTimesOut, Finish
  <2> QED BY <2>1, <2>2, ReplaceStep
<1>4. ASSUME NEW r \in Requests, NEW p \in Processes, NEW route \in Routes,
             NEW token \in Tokens \cup {NoToken}, Send(r, p, route, token)
      PROVE  ServiceInv'
  <2>1. \E q : Allowed(r, q) /\ req' = [req EXCEPT ![r] = q]
    BY <1>4, SendAllowed DEF ServiceInv
  <2>2. UNCHANGED <<startupVars, directory, changes, stopping, overdue, killed>>
    BY <1>4 DEF Send
  <2> QED BY <2>1, <2>2, ReplaceStep
<1>5. CASE ChangeDirectory
  BY <1>5, DirectoryStep
<1> QED BY <1>1, <1>2, <1>3, <1>4, <1>5 DEF Next

(* The inductive invariant: every undecided request's history covers the   *)
(* member table, and none is left at a closing store but by a Shutdown     *)
(* that ran out of time.                                                   *)
THEOREM ServiceInvariance == Spec => []ServiceInv
<1> QED BY ServiceInvInit, ServiceInvStep, PTL DEF Spec

(* Types; requests are under way only where a process listens. *)
THEOREM ServiceTyped == Spec => []TypeOK
<1>1. ServiceInv => TypeOK
  BY DEF ServiceInv
<1> QED BY <1>1, ServiceInvariance, PTL

(* The member table decides who is served and who is forbidden, as it was  *)
(* at some moment of the request, however often it is changed meanwhile.   *)
THEOREM RolesDecideAlways == Spec => []RolesDecide
<1>1. ServiceInv => RolesDecide
  BY DEF ServiceInv
<1> QED BY <1>1, ServiceInvariance, PTL

(* A request goes unanswered only at a process that was killed or whose    *)
(* Shutdown ran out of time.                                               *)
THEOREM CutsHaveReasons == Spec => []CutForAReason
<1>1. ServiceInv => CutForAReason
  BY DEF ServiceInv
<1> QED BY <1>1, ServiceInvariance, PTL

(* Requests find the schema of the process they reach: Service adds to     *)
(* Startup that requests are under way only where a process listens.       *)
THEOREM SchemaFound == Spec => []RequestsFindSchema
<1>1. Spec => []StartupInv
  BY Deployed, StartupInvariance, PTL
<1>2. ServiceInv /\ StartupInv => RequestsFindSchema
  BY DEF ServiceInv, TypeOK, StartupInv, ServesItsSchema, RequestsFindSchema
<1> QED BY <1>1, <1>2, ServiceInvariance, PTL

=============================================================================
