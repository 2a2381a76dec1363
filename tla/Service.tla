-------------------------------- MODULE Service --------------------------------
(***************************************************************************)
(* Requests to the server processes of Startup: who may do what            *)
(* (api/internal/httpapi/router.go, api/internal/authn/authn.go), the pool *)
(* of database connections they share (api/internal/store/store.go), and   *)
(* what becomes of them when a process is told to stop (main.go).          *)
(*                                                                         *)
(* A request uses the pool several times, one connection after the other:  *)
(* authenticate reads the member and the roles on one and returns it, and  *)
(* the handler's store call takes another for each transaction or query.   *)
(* In between, and until the answer, roles may be granted and revoked and  *)
(* members removed, a seeding process may start, the process may be told   *)
(* to stop or be killed. What the store calls do is the subject of         *)
(* LearningStore and Eligibility. The authentication mode is demo or oidc. *)
(***************************************************************************)
EXTENDS Startup

CONSTANTS
    Requests,       \* the requests that may be sent
    Tokens,         \* the bearer credentials they may carry
    NoToken,        \* no credential at all
    Claims,         \* the claims of those that verify: subject and scopes
    Subjects,       \* the subjects a member row may be linked to
    Seeded,         \* the members and roles of the seed
    PoolSize,       \* connections in the pool of a process
    Uses,           \* how often the handler of each route takes a connection
    MaxChanges      \* bound: changes of the member table by hand

Roles == {"learner", "admin"}
Scope == "credentials:read"

(* The routes of NewRouter's group, by the role they require, the route of *)
(* the other system, and those anybody may call.                           *)
PersonRoutes == Roles
Routes == PersonRoutes \cup {"service", "open", "health"}

ASSUME ServiceAssumption ==
    /\ DOMAIN Claims \subseteq Tokens
    /\ NoToken \notin Tokens
    /\ \A t \in DOMAIN Claims : Claims[t].scopes \subseteq {Scope}
    /\ DOMAIN Seeded \subseteq Subjects
    /\ \A s \in DOMAIN Seeded : Seeded[s] \subseteq Roles
    /\ PoolSize \in Nat \ {0}
    /\ Uses \in [Routes -> Nat \ {0}]
    /\ MaxChanges \in Nat

VARIABLES
    directory,  \* the roles of each subject that has a member row
    changes,    \* how often it was changed by hand
    req,        \* each request and the answer it gets
    stopping,   \* how far each process is that was told to stop
    overdue,    \* processes whose Shutdown ran into its ten seconds
    killed      \* processes that died while they served

requestVars == <<directory, changes, req, stopping, overdue, killed>>
vars == <<startupVars, requestVars>>

Responses == {"none", "served", "unauthorized", "forbidden", "malformed",
              "degraded", "failed"}

(* sent: waits for a connection to resolve the member; resolving: reads    *)
(* the roles; admitted: waits for a connection for the handler's call, the *)
(* first or a further one; handling: the store call has a connection;      *)
(* replying: the response is being written.                                *)
Active == {"sent", "resolving", "admitted", "handling", "replying"}
Stages == {"unsent", "answered", "cut"} \cup Active
Holding == {"resolving", "handling"}

Request == [stage : Stages, process : Processes \cup {Nobody}, route : Routes,
            token : Tokens \cup {NoToken}, left : Nat, response : Responses,
            had : BOOLEAN, lacked : BOOLEAN]

ActiveAt(p) == {r \in Requests : req[r].stage \in Active /\ req[r].process = p}

(* Mutant: the rows of the first query are still open when the next begins. *)
InUseNested(p) == {r \in ActiveAt(p) :
    \/ req[r].stage \in Holding
    \/ req[r].stage = "admitted" /\ req[r].left < Uses[req[r].route]}

(* Mutant: nobody closes the rows of a query whose scan failed. *)
InUseLeaked(p) == {r \in Requests :
    req[r].process = p /\ req[r].stage \in Holding \cup {"answered"}}

InUse(p) == {r \in ActiveAt(p) : req[r].stage \in Holding}

(* VerifyClaims has no error: the signature, issuer, audience and expiry of *)
(* the token are in order, and it names a subject and readable scopes.     *)
Verified(token) == token \in DOMAIN Claims

(* requireRole, for the member the token's subject is linked to. *)
Entitled(dir, route, token) ==
    /\ Verified(token)
    /\ Claims[token].subject \in DOMAIN dir
    /\ route \in dir[Claims[token].subject]

(* A request nobody has sent, and what is kept of one that is over. *)
Blank(stage, p) ==
    [stage |-> stage, process |-> p, route |-> "open", token |-> NoToken,
     left |-> 0, response |-> "none", had |-> FALSE, lacked |-> FALSE]

Init ==
    /\ StartupInit
    /\ directory = <<>>
    /\ changes = 0
    /\ req = [r \in Requests |-> Blank("unsent", Nobody)]
    /\ stopping = [p \in Processes |-> "no"]
    /\ overdue = {}
    /\ killed = {}

-----------------------------------------------------------------------------
(* Requests. *)

Reply(r, response) ==
    req' = [req EXCEPT ![r] =
        [@ EXCEPT !.stage = "replying", !.token = NoToken, !.left = 0,
                  !.response = response]]

Proceed(r, stage) == req' = [req EXCEPT ![r].stage = stage]

(* What comes before the first use of the pool: the credential is          *)
(* verified, and a service token must carry the scope.                     *)
FirstStage(route, token) ==
    IF route \in {"open", "health"} THEN "admitted"
    ELSE IF ~Verified(token) THEN "replying"
    ELSE IF route \in PersonRoutes THEN "sent"
    ELSE IF Scope \in Claims[token].scopes THEN "admitted"
    ELSE "replying"

FirstResponse(route, token) ==
    IF FirstStage(route, token) # "replying" THEN "none"
    ELSE IF ~Verified(token) THEN "unauthorized"
    ELSE "forbidden"

(* Mutant: the listener is started before the migrations. *)
SendEarly(r, p, route, token) ==
    /\ req[r].stage = "unsent"
    /\ phase[p] \in Starting \cup {"listening"} /\ stopping[p] = "no"
    /\ req' = [req EXCEPT ![r] =
                [Blank("admitted", p) EXCEPT !.route = route, !.left = Uses[route]]]
    /\ UNCHANGED <<startupVars, directory, changes, stopping, overdue, killed>>

(* A connection accepted before Shutdown may bring its request after it:   *)
(* Shutdown waits for that one too.                                        *)
Send(r, p, route, token) ==
    /\ req[r].stage = "unsent"
    /\ phase[p] = "listening" /\ stopping[p] # "closing"
    /\ req' = [req EXCEPT ![r] =
                [stage |-> FirstStage(route, token), process |-> p,
                 route |-> route,
                 token |-> IF FirstStage(route, token) = "replying"
                           THEN NoToken ELSE token,
                 left |-> IF FirstStage(route, token) = "replying"
                          THEN 0 ELSE Uses[route],
                 response |-> FirstResponse(route, token),
                 had |-> Entitled(directory, route, token),
                 lacked |-> ~Entitled(directory, route, token)]]
    /\ UNCHANGED <<startupVars, directory, changes, stopping, overdue, killed>>

(* A connection of the pool is free, and the pool is not closed. *)
Acquire(r) ==
    LET p == req[r].process IN
    /\ req[r].stage \in {"sent", "admitted"}
    /\ stopping[p] # "closing"
    /\ Cardinality(InUse(p)) < PoolSize
    /\ Proceed(r, IF req[r].stage = "sent" THEN "resolving" ELSE "handling")
    /\ UNCHANGED <<startupVars, directory, changes, stopping, overdue, killed>>

(* Mutant: a member is let through whatever the role. *)
ResolveAnyRole(r) ==
    /\ req[r].stage = "resolving"
    /\ IF Claims[req[r].token].subject \in DOMAIN directory
       THEN Proceed(r, "admitted")
       ELSE Reply(r, "forbidden")
    /\ UNCHANGED <<startupVars, directory, changes, stopping, overdue, killed>>

(* ResolveMemberBySubject, then requireRole. *)
Resolve(r) ==
    /\ req[r].stage = "resolving"
    /\ IF Entitled(directory, req[r].route, req[r].token)
       THEN Proceed(r, "admitted")
       ELSE Reply(r, "forbidden")
    /\ UNCHANGED <<startupVars, directory, changes, stopping, overdue, killed>>

(* The handler refuses an id that is none before it calls the store. *)
Malformed(r) ==
    /\ req[r].stage = "admitted"
    /\ req[r].route \in {"learner", "service", "open"}
    /\ req[r].left = Uses[req[r].route]
    /\ Reply(r, "malformed")
    /\ UNCHANGED <<startupVars, directory, changes, stopping, overdue, killed>>

(* A transaction or query of the store call is over, its connection goes   *)
(* back, and there is more to do.                                          *)
HandleOn(r) ==
    /\ req[r].stage = "handling"
    /\ req[r].left > 1
    /\ req' = [req EXCEPT ![r] =
                [@ EXCEPT !.stage = "admitted", !.left = req[r].left - 1]]
    /\ UNCHANGED <<startupVars, directory, changes, stopping, overdue, killed>>

(* The store call returns, with what was asked for or with one of the      *)
(* errors that writeStoreError has an answer for.                          *)
Handle(r) ==
    /\ req[r].stage = "handling"
    /\ Reply(r, "served")
    /\ UNCHANGED <<startupVars, directory, changes, stopping, overdue, killed>>

(* The database call or the wait for a connection fails, the client has    *)
(* gone, or the handler panics: 500, and the connection goes back.         *)
Fail(r) ==
    /\ req[r].stage \in Active \ {"replying"}
    /\ Reply(r, "failed")
    /\ UNCHANGED <<startupVars, directory, changes, stopping, overdue, killed>>

(* A pool that is being closed gives out no connection. *)
TurnAway(r) ==
    /\ req[r].stage \in {"sent", "admitted"}
    /\ stopping[req[r].process] = "closing"
    /\ Reply(r, "failed")
    /\ UNCHANGED <<startupVars, directory, changes, stopping, overdue, killed>>

(* handleHealth waits two seconds for its ping, the wait for a connection  *)
(* included.                                                               *)
PingTimesOut(r) ==
    /\ req[r].stage \in {"admitted", "handling"}
    /\ req[r].route = "health"
    /\ Reply(r, "degraded")
    /\ UNCHANGED <<startupVars, directory, changes, stopping, overdue, killed>>

Finish(r) ==
    /\ req[r].stage = "replying"
    /\ req' = [req EXCEPT ![r] = Blank("answered", req[r].process)]
    /\ UNCHANGED <<startupVars, directory, changes, stopping, overdue, killed>>

-----------------------------------------------------------------------------
(* The member table. *)

(* The requests still to be decided now see the table as it becomes. *)
Witness(dir) ==
    req' = [r \in Requests |->
        IF req[r].stage \notin Active \ {"replying"} THEN req[r]
        ELSE [req[r] EXCEPT
                !.had = @ \/ Entitled(dir, req[r].route, req[r].token),
                !.lacked = @ \/ ~Entitled(dir, req[r].route, req[r].token)]]

(* An operator grants or revokes a role, adds a member or removes one. *)
ChangeDirectory ==
    /\ changes < MaxChanges
    /\ changes' = changes + 1
    /\ \E s \in Subjects :
        \/ \E roles \in SUBSET Roles : directory' = [t \in DOMAIN directory \cup {s} |->
                IF t = s THEN roles ELSE directory[t]]
        \/ directory' = [t \in DOMAIN directory \ {s} |-> directory[t]]
    /\ Witness(directory')
    /\ UNCHANGED <<startupVars, stopping, overdue, killed>>

(* A process that starts puts the members and roles of the seed back.      *)
SeedMembers(p) ==
    /\ Seed(p)
    /\ directory' = IF phase'[p] = "gone" THEN directory ELSE
            [s \in DOMAIN directory \cup DOMAIN Seeded |->
                (IF s \in DOMAIN directory THEN directory[s] ELSE {})
                \cup (IF s \in DOMAIN Seeded THEN Seeded[s] ELSE {})]
    /\ Witness(directory')
    /\ UNCHANGED <<changes, stopping, overdue, killed>>

-----------------------------------------------------------------------------
(* Processes that stop. *)

(* Mutant: main returns on the signal, without Shutdown. *)
StopAtOnce(p) ==
    /\ phase[p] = "listening" /\ stopping[p] = "no"
    /\ stopping' = [stopping EXCEPT ![p] = "closing"]
    /\ UNCHANGED <<startupVars, directory, changes, req, overdue, killed>>

(* SIGINT or SIGTERM reaches a process that listens: Shutdown begins. *)
Stop(p) ==
    /\ phase[p] = "listening" /\ stopping[p] = "no"
    /\ stopping' = [stopping EXCEPT ![p] = "draining"]
    /\ UNCHANGED <<startupVars, directory, changes, req, overdue, killed>>

(* Shutdown returns when no request is left, or after ten seconds; the     *)
(* deferred Close of the store begins.                                     *)
CloseStore(p) ==
    /\ phase[p] = "listening" /\ stopping[p] = "draining"
    /\ stopping' = [stopping EXCEPT ![p] = "closing"]
    /\ overdue' = IF ActiveAt(p) = {} THEN overdue ELSE overdue \cup {p}
    /\ UNCHANGED <<startupVars, directory, changes, req, killed>>

(* What is left of the requests to a process that ends. *)
CutRequests(p) ==
    req' = [r \in Requests |->
        IF r \in ActiveAt(p) THEN Blank("cut", p) ELSE req[r]]

(* The pool's Close waits for every connection that is in use; then main   *)
(* returns.                                                                *)
Exit(p) ==
    /\ stopping[p] = "closing"
    /\ InUse(p) = {}
    /\ Die(p)
    /\ CutRequests(p)
    /\ UNCHANGED <<directory, changes, stopping, overdue, killed>>

Kill(p) ==
    /\ Die(p)
    /\ killed' = killed \cup {p}
    /\ CutRequests(p)
    /\ UNCHANGED <<directory, changes, stopping, overdue>>

-----------------------------------------------------------------------------

Serve(r) ==
    \/ Acquire(r) \/ Resolve(r) \/ HandleOn(r) \/ Handle(r)
    \/ TurnAway(r) \/ PingTimesOut(r) \/ Finish(r)

(* The steps of Startup that touch no request. *)
Prepare(p) ==
    /\ \/ Execute(p) \/ Refuse(p) \/ Cut(p)
       \/ Start(p) \/ MigrateStep(p) \/ LoseConnection(p) \/ Listen(p)
    /\ UNCHANGED requestVars

Next ==
    \/ \E p \in Processes :
        \/ Prepare(p) \/ SeedMembers(p)
        \/ Stop(p) \/ CloseStore(p) \/ Exit(p) \/ Kill(p)
    \/ \E r \in Requests :
        \/ Serve(r) \/ Malformed(r) \/ Fail(r)
        \/ \E p \in Processes, route \in Routes, token \in Tokens \cup {NoToken} :
            Send(r, p, route, token)
    \/ ChangeDirectory

Spec == Init /\ [][Next]_vars

(* A process that starts goes on with it, a process told to stop goes on   *)
(* with that, Shutdown has its ten seconds, and requests are served as     *)
(* connections come free.                                                  *)
ProcessGoesOn(p) ==
    \/ (Execute(p) \/ Cut(p) \/ MigrateStep(p) \/ Listen(p)) /\ UNCHANGED requestVars
    \/ SeedMembers(p) \/ CloseStore(p) \/ Exit(p)

Fairness ==
    /\ \A p \in Processes : WF_vars(ProcessGoesOn(p))
    /\ \A r \in Requests : WF_vars(Serve(r))

FairSpec == Spec /\ Fairness
=============================================================================
