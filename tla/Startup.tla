-------------------------------- MODULE Startup --------------------------------
(***************************************************************************)
(* Server processes (api/cmd/server/main.go) starting against one database *)
(* and the migration runner they share (api/internal/dbsetup/dbsetup.go).  *)
(*                                                                         *)
(* A process is one run of the binary: a restart is another process, and a *)
(* release is how far the list of migrations embedded in it reaches. The   *)
(* migrations of process p are the files 1, 2, ..., Newest[p], in the      *)
(* order of their names. Migrate runs on one connection, whose PostgreSQL  *)
(* session is a party of its own: the client asks for a statement, the     *)
(* session executes it, the client sees the answer. When the client dies,  *)
(* or loses the connection, its session lingers: it may still execute the  *)
(* statement it was sent, a commit included, before PostgreSQL ends it and *)
(* rolls back and unlocks what is left.                                    *)
(***************************************************************************)
EXTENDS Integers, FiniteSets

CONSTANTS
    Processes,      \* the runs of the server
    Newest,         \* the last migration embedded in each of them
    Migrating,      \* those started with MIGRATE_ON_START=1
    Seeding,        \* those started with SEED_FILE
    Restricted,     \* those with DB_RUNTIME_ROLE
    SeedFile,       \* the last migration whose tables the seed fills
    RoleFile,       \* the migration that creates the runtime role
    Nobody          \* no process

ASSUME StartupAssumption ==
    /\ Newest \in [Processes -> Nat \ {0}]
    /\ Migrating \subseteq Processes
    /\ Seeding \subseteq Processes
    /\ Restricted \subseteq Processes
    /\ SeedFile \in Nat
    /\ RoleFile \in Nat
    /\ Nobody \notin Processes

VARIABLES
    phase,      \* what each process is doing
    at,         \* the file Migrate's loop stands at
    applied,    \* the files Migrate has run, which it returns
    session,    \* the session of Migrate's connection
    work,       \* what the session's open transaction has done for the file
    lock,       \* the process whose session holds the advisory lock
    table,      \* whether schema_migrations exists
    ledger,     \* the rows of schema_migrations
    schema      \* the files whose statements have taken effect

startupVars ==
    <<phase, at, applied, session, work, lock, table, ledger, schema>>

Starting == {"migrating", "failing", "seeding", "adopting"}
Phases == {"off", "listening", "gone"} \cup Starting

Statements == {"lock", "table", "exists", "sql", "insert", "commit", "unlock"}
Answers == {"none", "ok", "found", "error"}
Sessions == [state : {"closed", "open", "orphan"}, asked : Statements, answer : Answers]

Files(p) == 1 .. Newest[p]

StartupInit ==
    /\ phase = [p \in Processes |-> "off"]
    /\ at = [p \in Processes |-> 1]
    /\ applied = [p \in Processes |-> {}]
    /\ session = [p \in Processes |->
                    [state |-> "closed", asked |-> "lock", answer |-> "none"]]
    /\ work = [p \in Processes |-> "none"]
    /\ lock = Nobody
    /\ table = FALSE
    /\ ledger = {}
    /\ schema = {}

-----------------------------------------------------------------------------
(* The sessions. *)

Asked(s, statement) ==
    /\ session[s].state # "closed"
    /\ session[s].asked = statement
    /\ session[s].answer = "none"

Answer(s, answer) == session' = [session EXCEPT ![s].answer = answer]

(* Mutant: the lock of a statement, gone when the statement is over. *)
TakeLockForStatement(s) ==
    /\ Asked(s, "lock")
    /\ lock = Nobody
    /\ Answer(s, "ok")
    /\ UNCHANGED <<phase, at, applied, work, lock, table, ledger, schema>>

(* select pg_advisory_lock: waits until nobody holds the lock. *)
TakeLock(s) ==
    /\ Asked(s, "lock")
    /\ lock = Nobody
    /\ lock' = s
    /\ Answer(s, "ok")
    /\ UNCHANGED <<phase, at, applied, work, table, ledger, schema>>

(* create table if not exists schema_migrations *)
MakeTable(s) ==
    /\ Asked(s, "table")
    /\ table' = TRUE
    /\ Answer(s, "ok")
    /\ UNCHANGED <<phase, at, applied, work, lock, ledger, schema>>

(* select exists ... : sees what is committed. *)
LookUp(s) ==
    /\ Asked(s, "exists")
    /\ Answer(s, IF ~table THEN "error" ELSE IF at[s] \in ledger THEN "found" ELSE "ok")
    /\ UNCHANGED <<phase, at, applied, work, lock, table, ledger, schema>>

(* The statements of the file. They create what cannot be created twice,   *)
(* out of what the files before it created; an uncommitted creation by     *)
(* another session is waited for.                                          *)
Runs(s) == at[s] \notin schema /\ 1 .. (at[s] - 1) \subseteq schema

(* Mutant: the file is run outside the transaction that records it. *)
RunFileAtOnce(s) ==
    /\ Asked(s, "sql")
    /\ schema' = IF Runs(s) THEN schema \cup {at[s]} ELSE schema
    /\ work' = [work EXCEPT ![s] = IF Runs(s) THEN "installed" ELSE "none"]
    /\ Answer(s, IF Runs(s) THEN "ok" ELSE "error")
    /\ UNCHANGED <<phase, at, applied, lock, table, ledger>>

RunFile(s) ==
    /\ Asked(s, "sql")
    /\ \A t \in Processes \ {s} : at[t] = at[s] => work[t] = "none"
    /\ work' = [work EXCEPT ![s] = IF Runs(s) THEN "installed" ELSE "none"]
    /\ Answer(s, IF Runs(s) THEN "ok" ELSE "error")
    /\ UNCHANGED <<phase, at, applied, lock, table, ledger, schema>>

(* insert into schema_migrations: the version is the primary key. *)
InsertVersion(s) ==
    /\ Asked(s, "insert")
    /\ work' = [work EXCEPT ![s] = IF at[s] \notin ledger THEN "recorded" ELSE "none"]
    /\ Answer(s, IF at[s] \notin ledger THEN "ok" ELSE "error")
    /\ UNCHANGED <<phase, at, applied, lock, table, ledger, schema>>

CommitFile(s) ==
    /\ Asked(s, "commit")
    /\ work' = [work EXCEPT ![s] = "none"]
    /\ schema' = IF work[s] # "none" THEN schema \cup {at[s]} ELSE schema
    /\ ledger' = IF work[s] = "recorded" THEN ledger \cup {at[s]} ELSE ledger
    /\ Answer(s, "ok")
    /\ UNCHANGED <<phase, at, applied, lock, table>>

(* Mutant: the unlock goes through the pool, to some other session. *)
DropLockElsewhere(s) ==
    /\ Asked(s, "unlock")
    /\ Answer(s, "ok")
    /\ UNCHANGED <<phase, at, applied, work, lock, table, ledger, schema>>

(* select pg_advisory_unlock: false, not an error, when it is not held. *)
DropLock(s) ==
    /\ Asked(s, "unlock")
    /\ lock' = IF lock = s THEN Nobody ELSE lock
    /\ Answer(s, "ok")
    /\ UNCHANGED <<phase, at, applied, work, table, ledger, schema>>

Execute(s) ==
    \/ TakeLock(s) \/ MakeTable(s) \/ LookUp(s) \/ RunFile(s)
    \/ InsertVersion(s) \/ CommitFile(s) \/ DropLock(s)

(* A statement can fail whatever it is: a broken file, a full disk, a      *)
(* timeout. The transaction it is in is aborted; the rollback that         *)
(* applyOne defers has nothing left to undo.                               *)
Refuse(s) ==
    /\ \E statement \in Statements \ {"unlock"} : Asked(s, statement)
    /\ work' = [work EXCEPT ![s] = "none"]
    /\ Answer(s, "error")
    /\ UNCHANGED <<phase, at, applied, lock, table, ledger, schema>>

(* PostgreSQL notices that the client of a session is gone. *)
Cut(s) ==
    /\ session[s].state = "orphan"
    /\ session' = [session EXCEPT ![s].state = "closed"]
    /\ work' = [work EXCEPT ![s] = "none"]
    /\ lock' = IF lock = s THEN Nobody ELSE lock
    /\ UNCHANGED <<phase, at, applied, table, ledger, schema>>

-----------------------------------------------------------------------------
(* The processes. *)

Ask(p, statement) ==
    session' = [session EXCEPT ![p] =
        [state |-> "open", asked |-> statement, answer |-> "none"]]

Answered(p, statement, answer) ==
    /\ phase[p] \in {"migrating", "failing"}
    /\ session[p] = [state |-> "open", asked |-> statement, answer |-> answer]

AfterMigrate(p) == IF p \in Seeding THEN "seeding" ELSE "adopting"

(* main: the configuration is valid and the setup pool made; Migrate, when *)
(* asked for, acquires its connection and asks for the lock.               *)
Start(p) ==
    /\ phase[p] = "off"
    /\ \/ /\ p \in Migrating
          /\ phase' = [phase EXCEPT ![p] = "migrating"]
          /\ Ask(p, "lock")
       \/ /\ p \notin Migrating
          /\ phase' = [phase EXCEPT ![p] = AfterMigrate(p)]
          /\ UNCHANGED session
    /\ UNCHANGED <<at, applied, work, lock, table, ledger, schema>>

Locked(p) ==
    /\ Answered(p, "lock", "ok")
    /\ Ask(p, "table")
    /\ UNCHANGED <<phase, at, applied, work, lock, table, ledger, schema>>

TableMade(p) ==
    /\ Answered(p, "table", "ok")
    /\ Ask(p, "exists")
    /\ UNCHANGED <<phase, at, applied, work, lock, table, ledger, schema>>

(* Mutant: the loop goes one past the last file. *)
NextFilePast(p) ==
    \/ /\ at[p] <= Newest[p]
       /\ at' = [at EXCEPT ![p] = at[p] + 1]
       /\ Ask(p, "exists")
    \/ /\ at[p] > Newest[p]
       /\ Ask(p, "unlock")
       /\ UNCHANGED at

(* The loop goes on to the next name, or Migrate returns and its deferred  *)
(* call unlocks.                                                           *)
NextFile(p) ==
    \/ /\ at[p] < Newest[p]
       /\ at' = [at EXCEPT ![p] = at[p] + 1]
       /\ Ask(p, "exists")
    \/ /\ at[p] = Newest[p]
       /\ Ask(p, "unlock")
       /\ UNCHANGED at

Skip(p) ==
    /\ Answered(p, "exists", "found")
    /\ NextFile(p)
    /\ UNCHANGED <<phase, applied, work, lock, table, ledger, schema>>

(* applyOne: begin, the file, the record of it, commit. *)
Apply(p) ==
    /\ Answered(p, "exists", "ok")
    /\ Ask(p, "sql")
    /\ UNCHANGED <<phase, at, applied, work, lock, table, ledger, schema>>

RecordFile(p) ==
    /\ Answered(p, "sql", "ok")
    /\ Ask(p, "insert")
    /\ UNCHANGED <<phase, at, applied, work, lock, table, ledger, schema>>

AskCommit(p) ==
    /\ Answered(p, "insert", "ok")
    /\ Ask(p, "commit")
    /\ UNCHANGED <<phase, at, applied, work, lock, table, ledger, schema>>

Applied(p) ==
    /\ Answered(p, "commit", "ok")
    /\ applied' = [applied EXCEPT ![p] = @ \cup {at[p]}]
    /\ NextFile(p)
    /\ UNCHANGED <<phase, work, lock, table, ledger, schema>>

(* Mutant: the error is logged and main goes on. *)
FailedGoesOn(p) ==
    /\ \E statement \in Statements : Answered(p, statement, "error")
    /\ Ask(p, "unlock")
    /\ UNCHANGED <<phase, at, applied, work, lock, table, ledger, schema>>

(* A statement failed: Migrate returns the error, its deferred call        *)
(* unlocks, and main exits. Without the lock there is nothing to unlock.   *)
Failed(p) ==
    /\ \E statement \in Statements : Answered(p, statement, "error")
    /\ \/ /\ session[p].asked = "lock"
          /\ phase' = [phase EXCEPT ![p] = "gone"]
          /\ session' = [session EXCEPT ![p].state = "orphan"]
       \/ /\ session[p].asked # "lock"
          /\ phase' = [phase EXCEPT ![p] = "failing"]
          /\ Ask(p, "unlock")
    /\ UNCHANGED <<at, applied, work, lock, table, ledger, schema>>

(* Migrate has unlocked: its connection is idle, and main goes on, or      *)
(* exits when it returned an error.                                        *)
Unlocked(p) ==
    /\ Answered(p, "unlock", "ok")
    /\ phase' = [phase EXCEPT ![p] =
                    IF phase[p] = "migrating" THEN AfterMigrate(p) ELSE "gone"]
    /\ session' = [session EXCEPT ![p].state = "closed"]
    /\ UNCHANGED <<at, applied, work, lock, table, ledger, schema>>

(* The connection breaks under a statement: Migrate returns the error and  *)
(* main exits, except when the statement is the deferred unlock, whose     *)
(* outcome nobody looks at. The session lingers.                           *)
LoseConnection(p) ==
    /\ phase[p] \in {"migrating", "failing"}
    /\ phase' = [phase EXCEPT ![p] =
                    IF phase[p] = "migrating" /\ session[p].asked = "unlock"
                    THEN AfterMigrate(p) ELSE "gone"]
    /\ session' = [session EXCEPT ![p].state = "orphan"]
    /\ UNCHANGED <<at, applied, work, lock, table, ledger, schema>>

(* ApplySeed: one transaction, over tables that must be there; main exits   *)
(* when it fails.                                                          *)
Seed(p) ==
    /\ phase[p] = "seeding"
    /\ phase' = [phase EXCEPT ![p] =
                    IF 1 .. SeedFile \subseteq schema THEN "adopting" ELSE "gone"]
    /\ UNCHANGED <<at, applied, session, work, lock, table, ledger, schema>>

(* NewWithRole pings as the restricted role, which must exist.  Without a   *)
(* role, RUNTIME_DATABASE_URL or not, it pings nobody.                      *)
CanAdopt(p) == p \in Restricted => RoleFile \in schema

(* The runtime pool is made; then the listener starts. *)
Listen(p) ==
    /\ phase[p] = "adopting"
    /\ phase' = [phase EXCEPT ![p] = IF CanAdopt(p) THEN "listening" ELSE "gone"]
    /\ UNCHANGED <<at, applied, session, work, lock, table, ledger, schema>>

(* fatal, a signal before the process listens, a crash or a kill: the      *)
(* process ends where it stands. Service tells how one ends in good order. *)
Die(p) ==
    /\ phase[p] \in Starting \cup {"listening"}
    /\ phase' = [phase EXCEPT ![p] = "gone"]
    /\ session' = [session EXCEPT ![p].state =
                        IF @ = "open" THEN "orphan" ELSE @]
    /\ UNCHANGED <<at, applied, work, lock, table, ledger, schema>>

MigrateStep(p) ==
    \/ Locked(p) \/ TableMade(p) \/ Skip(p) \/ Apply(p) \/ RecordFile(p)
    \/ AskCommit(p) \/ Applied(p) \/ Failed(p) \/ Unlocked(p)

StartupNext ==
    \E p \in Processes :
        \/ Execute(p) \/ Refuse(p) \/ Cut(p)
        \/ Start(p) \/ MigrateStep(p) \/ LoseConnection(p)
        \/ Seed(p) \/ Listen(p) \/ Die(p)

StartupSpec == StartupInit /\ [][StartupNext]_startupVars

(* PostgreSQL executes what it is asked and ends the sessions of clients   *)
(* that are gone, and a process that starts goes on with its start.        *)
Progress(p) == Execute(p) \/ Cut(p) \/ MigrateStep(p) \/ Seed(p) \/ Listen(p)

FairStartupSpec ==
    StartupSpec /\ \A p \in Processes : WF_startupVars(Progress(p))
=============================================================================
