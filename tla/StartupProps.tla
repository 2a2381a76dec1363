------------------------------ MODULE StartupProps ------------------------------
(***************************************************************************)
(* What processes that start against one database may count on.            *)
(***************************************************************************)
EXTENDS Startup

(* Every variable holds a value of its kind. *)
StartupTypeOK ==
    /\ phase \in [Processes -> Phases]
    /\ at \in [Processes -> Nat \ {0}]
    /\ \A p \in Processes : at[p] \in Files(p)
    /\ applied \in [Processes -> SUBSET (Nat \ {0})]
    /\ session \in [Processes -> Sessions]
    /\ work \in [Processes -> {"none", "installed", "recorded"}]
    /\ lock \in Processes \cup {Nobody}
    /\ table \in BOOLEAN
    /\ ledger \in SUBSET (Nat \ {0})
    /\ schema \in SUBSET (Nat \ {0})

(* A session that may still have the file of its loop installed, recorded  *)
(* or committed. Its client may be long dead.                              *)
MayInstall(s) ==
    /\ session[s].state # "closed"
    /\ \/ session[s].asked \in {"sql", "insert"} /\ session[s].answer # "error"
       \/ session[s].asked = "commit" /\ session[s].answer = "none"
       \/ session[s].asked = "exists" /\ session[s].answer = "ok"

(* What one process found missing no other installs before it does: none   *)
(* of several processes that start together, restart or die fails over a   *)
(* migration that another one has applied (dbsetup.go:33-34).              *)
NobodyOvertakes ==
    \A s \in Processes : MayInstall(s) =>
        /\ at[s] \notin schema \cup ledger
        /\ \A t \in Processes \ {s} : ~MayInstall(t)

(* schema_migrations records exactly the files that have taken effect, and *)
(* no file has taken effect without those before it (dbsetup.go:72-76).    *)
LedgerExact ==
    /\ ledger = schema
    /\ \A file \in schema : 1 .. file \subseteq schema

(* No two processes claim to have applied the same migration, and what one *)
(* claims has taken effect (dbsetup.go:28-29).                             *)
ClaimedOnce ==
    /\ \A p \in Processes : applied[p] \subseteq schema
    /\ \A p, q \in Processes : p # q => applied[p] \cap applied[q] = {}

(* Each process that migrates uses the database, for requests or for its   *)
(* seed, only when all the files of its release have taken effect.         *)
ServesItsSchema ==
    \A p \in Migrating :
        phase[p] \in {"seeding", "adopting", "listening"} => Files(p) \subseteq schema

-----------------------------------------------------------------------------
(* The inductive invariant of the proofs. *)

(* A session from the moment it has the lock to the moment it drops it. *)
PastLock(s) ==
    /\ session[s].state # "closed"
    /\ session[s].asked # "lock" \/ session[s].answer = "ok"
    /\ ~(session[s].asked = "unlock" /\ session[s].answer = "ok")

LockHeld == \A s \in Processes : PastLock(s) => lock = s

(* What a session's transaction has done is known from where it stands. *)
WorkDone(s) ==
    IF session[s].state = "closed" THEN "none" ELSE
    CASE session[s].asked = "sql" /\ session[s].answer = "ok" -> "installed"
      [] session[s].asked = "insert" /\ session[s].answer = "none" -> "installed"
      [] session[s].asked = "insert" /\ session[s].answer = "ok" -> "recorded"
      [] session[s].asked = "commit" /\ session[s].answer = "none" -> "recorded"
      [] OTHER -> "none"

Controlled ==
    \A p \in Processes :
        /\ phase[p] = "off" => session[p].state = "closed"
        /\ phase[p] \in {"migrating", "failing"} <=> session[p].state = "open"
        /\ phase[p] = "failing" => session[p].asked = "unlock"
        /\ session[p].state # "closed" => p \in Migrating
        /\ work[p] = WorkDone(p)

(* What a session has been told about its file is so, or will be when the  *)
(* process reads it.                                                       *)
Told(s) ==
    /\ 1 .. (at[s] - 1) \subseteq schema
    /\ MayInstall(s) => at[s] \notin schema
    /\ session[s].state # "closed" =>
        /\ session[s].asked = "exists" /\ session[s].answer = "found"
                => at[s] \in schema
        /\ session[s].asked = "commit" /\ session[s].answer = "ok"
                => at[s] \in schema /\ \A q \in Processes : at[s] \notin applied[q]
    /\ phase[s] = "migrating" /\ session[s].asked = "unlock"
                => Files(s) \subseteq schema

Informed == \A s \in Processes : Told(s)

(* Who is past the lock holds it, and what each session may do and claim   *)
(* follows from what it was told while it held it.                         *)
StartupInv ==
    /\ StartupTypeOK /\ Controlled /\ LockHeld
    /\ LedgerExact /\ Informed /\ ClaimedOnce /\ ServesItsSchema

-----------------------------------------------------------------------------

(* The deployment is a rollout: files go in one after the other, whoever   *)
(* installs them, and a migrating process serves when its own are in.      *)
R == INSTANCE Rollout WITH
        Processes <- Migrating,
        Newest <- [p \in Migrating |-> Newest[p]],
        installed <- schema,
        up <- {p \in Migrating : phase[p] = "listening"}

ImplementsRollout == R!Spec

(* Every process that is started comes to serve or ends, whoever held the  *)
(* migration lock when it came and however its holder ended.               *)
EveryStartEnds ==
    \A p \in Processes : phase[p] \in Starting ~> phase[p] \in {"listening", "gone"}
=============================================================================
