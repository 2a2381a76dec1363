------------------------------ MODULE ServiceProps ------------------------------
(***************************************************************************)
(* What deployments and their requests may count on.                       *)
(***************************************************************************)
EXTENDS Service

(* Every variable holds a value of its kind; requests are under way only   *)
(* at a process that listens, and only such a process is told to stop.     *)
TypeOK ==
    /\ phase \in [Processes -> Phases]
    /\ DOMAIN directory \subseteq Subjects
    /\ \A s \in DOMAIN directory : directory[s] \subseteq Roles
    /\ changes \in 0 .. MaxChanges
    /\ req \in [Requests -> Request]
    /\ stopping \in [Processes -> {"no", "draining", "closing"}]
    /\ \A r \in Requests : req[r].stage \in Active =>
            req[r].process \in Processes /\ phase[req[r].process] = "listening"
    /\ \A p \in Processes : stopping[p] # "no" => phase[p] \in {"listening", "gone"}
    /\ overdue \subseteq Processes
    /\ killed \subseteq Processes

-----------------------------------------------------------------------------
(* Requests. *)

(* A person is served only who had the role the route requires at some     *)
(* moment while the request was under way, whatever the token says, and    *)
(* one who is forbidden lacked it at some moment (store.go:101-102).       *)
RolesDecide ==
    \A r \in Requests :
        req[r].stage = "replying" /\ req[r].route \in PersonRoutes =>
            /\ req[r].response \in {"served", "malformed"} => req[r].had
            /\ req[r].response = "forbidden" => req[r].lacked

(* No request, not even one for the health of the process, reaches a       *)
(* process that migrates before all files of its release have taken effect *)
(* (main.go:145-149: the listener starts last).                            *)
RequestsFindSchema ==
    \A r \in Requests :
        req[r].stage \in Active /\ req[r].process \in Migrating
            => Files(req[r].process) \subseteq schema

(* A request a process accepted goes unanswered only when the process was  *)
(* killed or its Shutdown ran out of time (main.go:154-155).               *)
CutForAReason ==
    \A r \in Requests : req[r].stage = "cut" => req[r].process \in killed \cup overdue

-----------------------------------------------------------------------------
(* The inductive invariant of the proofs. *)

(* What is known of a request that is still to be decided: its history     *)
(* covers the table as it is, and past the role check it had the role.     *)
Traced(q) ==
    /\ q.stage \in Active \ {"replying"} =>
        /\ Entitled(directory, q.route, q.token) => q.had
        /\ ~Entitled(directory, q.route, q.token) => q.lacked
    /\ q.stage \in {"admitted", "handling"} /\ q.route \in PersonRoutes => q.had

RolesTraced == \A r \in Requests : Traced(req[r])

(* Requests are left while the store closes only if Shutdown ran out of    *)
(* time: it waits for all, and none starts once the store closes.          *)
LeftOver ==
    \A r \in Requests :
        req[r].stage \in Active /\ stopping[req[r].process] = "closing"
            => req[r].process \in overdue

(* Authorization and shutdown of requests, on top of the types.            *)
ServiceInv == TypeOK /\ RolesTraced /\ RolesDecide /\ LeftOver /\ CutForAReason

-----------------------------------------------------------------------------
(* Every request is answered, or its process ends: nobody who waits for a  *)
(* connection holds one.                                                   *)
EveryRequestEnds ==
    \A r \in Requests : req[r].stage \in Active ~> req[r].stage \in {"answered", "cut"}

(* Every process that is told to stop ends. *)
EveryDrainEnds ==
    \A p \in Processes : stopping[p] # "no" ~> phase[p] = "gone"
=============================================================================
