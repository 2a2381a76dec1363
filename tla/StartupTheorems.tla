---------------------------- MODULE StartupTheorems ----------------------------
(***************************************************************************)
(* What holds of Startup for any number of processes, releases and files.  *)
(***************************************************************************)
EXTENDS StartupProps, TLAPS

(* One step of one process or of its session. *)
Step(p) ==
    \/ Execute(p) \/ Refuse(p) \/ Cut(p)
    \/ Start(p) \/ MigrateStep(p) \/ LoseConnection(p)
    \/ Seed(p) \/ Listen(p) \/ Die(p)

(* A step of p leaves what is other processes' alone. *)
Frame(p) ==
    /\ phase' = [phase EXCEPT ![p] = phase'[p]]
    /\ at' = [at EXCEPT ![p] = at'[p]]
    /\ applied' = [applied EXCEPT ![p] = applied'[p]]
    /\ session' = [session EXCEPT ![p] = session'[p]]
    /\ work' = [work EXCEPT ![p] = work'[p]]

LEMMA SessionStep ==
    ASSUME StartupTypeOK, NEW p \in Processes, Step(p)
    PROVE  /\ session'[p] \in Sessions
           /\ session' = [session EXCEPT ![p] = session'[p]]
<1>0. session \in [Processes -> Sessions]
  BY DEF StartupTypeOK
<1>1. ASSUME NEW a \in Answers, Answer(p, a)
      PROVE  /\ session'[p] \in Sessions
             /\ session' = [session EXCEPT ![p] = session'[p]]
  BY <1>0, <1>1 DEF Answer, Sessions
<1>2. ASSUME NEW statement \in Statements, Ask(p, statement)
      PROVE  /\ session'[p] \in Sessions
             /\ session' = [session EXCEPT ![p] = session'[p]]
  BY <1>0, <1>2 DEF Ask, Sessions, Answers
<1>3. ASSUME NEW state \in {"closed", "open", "orphan"},
             session' = [session EXCEPT ![p].state = state]
      PROVE  /\ session'[p] \in Sessions
             /\ session' = [session EXCEPT ![p] = session'[p]]
  BY <1>0, <1>3 DEF Sessions
<1>4. CASE UNCHANGED session
  BY <1>0, <1>4
<1>5. CASE Execute(p) \/ Refuse(p)
  <2>1. \E a \in Answers : Answer(p, a)
    BY <1>5 DEF Execute, Refuse, TakeLock, MakeTable, LookUp, RunFile, InsertVersion,
                CommitFile, DropLock, Answers
  <2> QED BY <2>1, <1>1
<1>6. CASE Cut(p) \/ LoseConnection(p)
  BY <1>6, <1>3 DEF Cut, LoseConnection
<1>7. CASE Die(p)
  <2>1. session' = [session EXCEPT ![p].state = IF @ = "open" THEN "orphan" ELSE @]
    BY <1>7 DEF Die
  <2>2. session[p].state \in {"closed", "open", "orphan"}
    BY <1>0 DEF Sessions
  <2> QED BY <2>1, <2>2, <1>0 DEF Sessions
<1>8. CASE Start(p)
  BY <1>8, <1>2, <1>4 DEF Start, Statements
<1>9. CASE MigrateStep(p)
  <2>1. CASE Unlocked(p)
    BY <2>1, <1>3 DEF Unlocked
  <2>2. CASE Failed(p)
    BY <2>2, <1>2, <1>3 DEF Failed, Statements
  <2>3. CASE Skip(p) \/ Applied(p)
    BY <2>3, <1>2 DEF Skip, Applied, NextFile, Statements
  <2>4. CASE Locked(p) \/ TableMade(p) \/ Apply(p) \/ RecordFile(p) \/ AskCommit(p)
    BY <2>4, <1>2 DEF Locked, TableMade, Apply, RecordFile, AskCommit, Statements
  <2> QED BY <1>9, <2>1, <2>2, <2>3, <2>4 DEF MigrateStep
<1>10. CASE Seed(p) \/ Listen(p)
  BY <1>10, <1>4 DEF Seed, Listen
<1> QED BY <1>5, <1>6, <1>7, <1>8, <1>9, <1>10 DEF Step

LEMMA AtStep ==
    ASSUME StartupTypeOK, NEW p \in Processes, NextFile(p)
    PROVE  /\ at'[p] \in Files(p)
           /\ at' = [at EXCEPT ![p] = at'[p]]
BY StartupAssumption DEF StartupTypeOK, NextFile, Files

(* Types, and that a step of p leaves what is other processes' alone. *)
LEMMA FrameStep ==
    ASSUME StartupTypeOK, NEW p \in Processes, Step(p)
    PROVE  StartupTypeOK' /\ Frame(p)
<1>0. /\ phase \in [Processes -> Phases]
      /\ at \in [Processes -> Nat \ {0}] /\ \A q \in Processes : at[q] \in Files(q)
      /\ applied \in [Processes -> SUBSET (Nat \ {0})]
      /\ session \in [Processes -> Sessions]
      /\ work \in [Processes -> {"none", "installed", "recorded"}]
      /\ lock \in Processes \cup {Nobody} /\ table \in BOOLEAN
      /\ ledger \in SUBSET (Nat \ {0}) /\ schema \in SUBSET (Nat \ {0})
      /\ at[p] \in Nat \ {0} /\ applied[p] \in SUBSET (Nat \ {0})
  BY DEF StartupTypeOK
<1>1. session' \in [Processes -> Sessions] /\ session' = [session EXCEPT ![p] = session'[p]]
  <2>1. session'[p] \in Sessions /\ session' = [session EXCEPT ![p] = session'[p]]
    BY SessionStep
  <2> QED BY <2>1, <1>0
<1>2. /\ at' \in [Processes -> Nat \ {0}]
      /\ \A q \in Processes : at'[q] \in Files(q)
      /\ at' = [at EXCEPT ![p] = at'[p]]
  <2>1. UNCHANGED at \/ NextFile(p)
    BY DEF Step, Execute, Refuse, Cut, Start, MigrateStep, LoseConnection, Seed, Listen, Die,
           TakeLock, MakeTable, LookUp, RunFile, InsertVersion, CommitFile, DropLock,
           Locked, TableMade, Skip, Apply, RecordFile, AskCommit, Applied, Failed, Unlocked
  <2>2. \A n \in Files(p) : n \in Nat \ {0}
    BY StartupAssumption DEF Files
  <2> QED BY <2>1, <2>2, <1>0, AtStep
<1>3. /\ applied' \in [Processes -> SUBSET (Nat \ {0})]
      /\ applied' = [applied EXCEPT ![p] = applied'[p]]
  <2>1. UNCHANGED applied \/ applied' = [applied EXCEPT ![p] = applied[p] \cup {at[p]}]
    BY DEF Step, Execute, Refuse, Cut, Start, MigrateStep, LoseConnection, Seed, Listen, Die,
           TakeLock, MakeTable, LookUp, RunFile, InsertVersion, CommitFile, DropLock,
           Locked, TableMade, Skip, Apply, RecordFile, AskCommit, Applied, Failed, Unlocked
  <2>2. applied[p] \cup {at[p]} \in SUBSET (Nat \ {0})
    BY <1>0
  <2> QED BY <2>1, <2>2, <1>0
<1>4. /\ phase' \in [Processes -> Phases] /\ phase' = [phase EXCEPT ![p] = phase'[p]]
  <2>1. \/ UNCHANGED phase
        \/ \E to \in Phases : phase' = [phase EXCEPT ![p] = to]
    BY DEF Step, Execute, Refuse, Cut, Start, MigrateStep, LoseConnection, Seed, Listen, Die,
           TakeLock, MakeTable, LookUp, RunFile, InsertVersion, CommitFile, DropLock,
           Locked, TableMade, Skip, Apply, RecordFile, AskCommit, Applied, Failed, Unlocked,
           Phases, Starting, AfterMigrate
  <2> QED BY <2>1, <1>0
<1>5. /\ work' \in [Processes -> {"none", "installed", "recorded"}]
      /\ work' = [work EXCEPT ![p] = work'[p]]
  <2>1. \/ UNCHANGED work
        \/ \E to \in {"none", "installed", "recorded"} : work' = [work EXCEPT ![p] = to]
    BY DEF Step, Execute, Refuse, Cut, Start, MigrateStep, LoseConnection, Seed, Listen, Die,
           TakeLock, MakeTable, LookUp, RunFile, InsertVersion, CommitFile, DropLock,
           Locked, TableMade, Skip, Apply, RecordFile, AskCommit, Applied, Failed, Unlocked
  <2> QED BY <2>1, <1>0
<1>6. lock' \in Processes \cup {Nobody} /\ table' \in BOOLEAN
  BY <1>0 DEF Step, Execute, Refuse, Cut, Start, MigrateStep, LoseConnection, Seed, Listen, Die,
           TakeLock, MakeTable, LookUp, RunFile, InsertVersion, CommitFile, DropLock,
           Locked, TableMade, Skip, Apply, RecordFile, AskCommit, Applied, Failed, Unlocked
<1>7. ledger' \in SUBSET (Nat \ {0}) /\ schema' \in SUBSET (Nat \ {0})
  <2>1. (ledger' = ledger \/ ledger' = ledger \cup {at[p]})
        /\ (schema' = schema \/ schema' = schema \cup {at[p]})
    BY DEF Step, Execute, Refuse, Cut, Start, MigrateStep, LoseConnection, Seed, Listen, Die,
           TakeLock, MakeTable, LookUp, RunFile, InsertVersion, CommitFile, DropLock,
           Locked, TableMade, Skip, Apply, RecordFile, AskCommit, Applied, Failed, Unlocked
  <2> QED BY <2>1, <1>0
<1> QED BY <1>1, <1>2, <1>3, <1>4, <1>5, <1>6, <1>7 DEF StartupTypeOK, Frame, Files

-----------------------------------------------------------------------------
(* What a step makes of the session, field by field. *)

Becomes(p, state, asked, answer) ==
    /\ session'[p].state = state
    /\ session'[p].asked = asked
    /\ session'[p].answer = answer

LEMMA Fields ==
    ASSUME StartupTypeOK, NEW p \in Processes
    PROVE  /\ \A a : Answer(p, a) => Becomes(p, session[p].state, session[p].asked, a)
           /\ \A statement : Ask(p, statement) => Becomes(p, "open", statement, "none")
           /\ \A state : session' = [session EXCEPT ![p].state = state]
                    => Becomes(p, state, session[p].asked, session[p].answer)
           /\ UNCHANGED session
                    => Becomes(p, session[p].state, session[p].asked, session[p].answer)
<1>0. session \in [Processes -> Sessions]
  BY DEF StartupTypeOK
<1>1. ASSUME NEW a, Answer(p, a) PROVE Becomes(p, session[p].state, session[p].asked, a)
  BY <1>0, <1>1 DEF Answer, Becomes, Sessions
<1>2. ASSUME NEW statement, Ask(p, statement) PROVE Becomes(p, "open", statement, "none")
  BY <1>0, <1>2 DEF Ask, Becomes
<1>3. ASSUME NEW state, session' = [session EXCEPT ![p].state = state]
      PROVE  Becomes(p, state, session[p].asked, session[p].answer)
  BY <1>0, <1>3 DEF Becomes, Sessions
<1> QED BY <1>1, <1>2, <1>3 DEF Becomes

(* Phases and sessions go together. *)
LEMMA ControlStep ==
    ASSUME StartupTypeOK, Controlled, NEW p \in Processes, Step(p)
    PROVE  Controlled'
<1>0. /\ StartupTypeOK' /\ Frame(p)
      /\ phase \in [Processes -> Phases] /\ session \in [Processes -> Sessions]
      /\ work \in [Processes -> {"none", "installed", "recorded"}]
  BY FrameStep DEF StartupTypeOK
<1>1. \A q \in Processes \ {p} :
        phase'[q] = phase[q] /\ session'[q] = session[q] /\ work'[q] = work[q]
  BY <1>0 DEF Frame
<1> DEFINE Own(q, ph, state, asked, answer, wk) ==
        /\ ph = "off" => state = "closed"
        /\ ph \in {"migrating", "failing"} <=> state = "open"
        /\ ph = "failing" => asked = "unlock"
        /\ state # "closed" => q \in Migrating
        /\ wk = IF state = "closed" THEN "none" ELSE
                 CASE asked = "sql" /\ answer = "ok" -> "installed"
                  [] asked = "insert" /\ answer = "none" -> "installed"
                  [] asked = "insert" /\ answer = "ok" -> "recorded"
                  [] asked = "commit" /\ answer = "none" -> "recorded"
                  [] OTHER -> "none"
<1>2. Own(p, phase[p], session[p].state, session[p].asked, session[p].answer, work[p])
  BY DEF Controlled, WorkDone
<1>3. \A state, asked, answer :
        /\ Becomes(p, state, asked, answer)
        /\ Own(p, phase'[p], state, asked, answer, work'[p])
        => Controlled'
  BY <1>1 DEF Controlled, WorkDone, Becomes
<1>4. CASE Execute(p)
  <2>1. UNCHANGED phase
    BY <1>4 DEF Execute, TakeLock, MakeTable, LookUp, RunFile, InsertVersion, CommitFile, DropLock
  <2>2. CASE TakeLock(p) \/ MakeTable(p) \/ LookUp(p) \/ DropLock(p)
    BY <1>2, <1>3, <2>1, <2>2, Fields DEF Asked, TakeLock, MakeTable, LookUp, DropLock
  <2>3. CASE RunFile(p)
    BY <1>0, <1>2, <1>3, <2>1, <2>3, Fields DEF Asked, RunFile
  <2>4. CASE InsertVersion(p)
    BY <1>0, <1>2, <1>3, <2>1, <2>4, Fields DEF Asked, InsertVersion
  <2>5. CASE CommitFile(p)
    BY <1>0, <1>2, <1>3, <2>1, <2>5, Fields DEF Asked, CommitFile
  <2> QED BY <1>4, <2>2, <2>3, <2>4, <2>5 DEF Execute
<1>5. CASE Refuse(p)
  BY <1>0, <1>2, <1>3, <1>5, Fields DEF Asked, Refuse
<1>6. CASE Cut(p)
  <2>1. Becomes(p, "closed", session[p].asked, session[p].answer)
    BY <1>0, <1>6 DEF Cut, Becomes, Sessions
  <2> QED BY <1>0, <1>2, <1>3, <1>6, <2>1 DEF Cut
<1>7. CASE Start(p)
  <2>1. phase[p] = "off" /\ session[p].state = "closed" /\ work'[p] = "none"
    <3>1. phase[p] = "off" /\ UNCHANGED work
      BY <1>7 DEF Start
    <3>2. session[p].state = "closed"
      BY <1>2, <3>1
    <3> QED BY <1>2, <3>1, <3>2
  <2>2. CASE p \in Migrating /\ phase'[p] = "migrating" /\ Ask(p, "lock")
    <3>1. Becomes(p, "open", "lock", "none")
      BY <2>2, Fields
    <3> QED BY <1>3, <2>1, <2>2, <3>1
  <2>3. CASE phase'[p] \in {"seeding", "adopting"} /\ UNCHANGED session
    <3>1. Becomes(p, session[p].state, session[p].asked, session[p].answer)
      BY <2>3, Fields
    <3> QED BY <1>3, <2>1, <2>3, <3>1
  <2> QED BY <1>0, <1>7, <2>2, <2>3 DEF Start, AfterMigrate
<1>8. CASE MigrateStep(p)
  BY <1>0, <1>2, <1>3, <1>8, Fields DEF MigrateStep, Answered, AfterMigrate, NextFile,
     Locked, TableMade, Skip, Apply, RecordFile, AskCommit, Applied, Failed, Unlocked
<1>9. CASE LoseConnection(p)
  <2>1. Becomes(p, "orphan", session[p].asked, session[p].answer)
    BY <1>0, <1>9 DEF LoseConnection, Becomes, Sessions
  <2>2. phase'[p] \in {"seeding", "adopting", "gone"}
    BY <1>0, <1>9 DEF LoseConnection, AfterMigrate
  <2> QED BY <1>0, <1>2, <1>3, <1>9, <2>1, <2>2 DEF LoseConnection
<1>10. CASE Seed(p) \/ Listen(p)
  BY <1>0, <1>2, <1>3, <1>10, Fields DEF Seed, Listen
<1>11. CASE Die(p)
  <2>1. Becomes(p, IF session[p].state = "open" THEN "orphan" ELSE session[p].state,
                session[p].asked, session[p].answer)
    BY <1>11, Fields DEF Die
  <2>2. phase'[p] = "gone"
    BY <1>0, <1>11 DEF Die
  <2> QED BY <1>0, <1>2, <1>3, <1>11, <2>1, <2>2 DEF Die
<1> QED BY <1>4, <1>5, <1>6, <1>7, <1>8, <1>9, <1>10, <1>11 DEF Step

-----------------------------------------------------------------------------
(* The lock. *)

LEMMA LockStep ==
    ASSUME StartupTypeOK, Controlled, LockHeld, NEW p \in Processes, Step(p)
    PROVE  LockHeld'
<1>0. /\ Frame(p) /\ session \in [Processes -> Sessions]
      /\ lock \in Processes \cup {Nobody} /\ Nobody \notin Processes
  BY FrameStep, StartupAssumption DEF StartupTypeOK
<1>1. \A q \in Processes \ {p} : session'[q] = session[q]
  BY <1>0 DEF Frame
<1>2. \/ UNCHANGED lock
      \/ lock = Nobody /\ lock' = p /\ TakeLock(p)
      \/ lock' = IF lock = p THEN Nobody ELSE lock
  BY DEF Step, Execute, Refuse, Cut, Start, MigrateStep, LoseConnection, Seed, Listen, Die,
           TakeLock, MakeTable, LookUp, RunFile, InsertVersion, CommitFile, DropLock,
           Locked, TableMade, Skip, Apply, RecordFile, AskCommit, Applied, Failed, Unlocked
<1>3. ASSUME NEW q \in Processes, q # p, PastLock(q)' PROVE lock' = q
  <2>1. lock = q
    BY <1>1, <1>3 DEF LockHeld, PastLock
  <2> QED BY <1>0, <1>2, <1>3, <2>1
<1> DEFINE Past(state, asked, answer) ==
        state # "closed" /\ (asked # "lock" \/ answer = "ok")
        /\ ~(asked = "unlock" /\ answer = "ok")
<1>4. Past(session[p].state, session[p].asked, session[p].answer) => lock = p
  BY DEF LockHeld, PastLock
<1>5. \A state, asked, answer :
        Becomes(p, state, asked, answer) /\ (Past(state, asked, answer) => lock' = p)
            => LockHeld'
  BY <1>3 DEF LockHeld, PastLock, Becomes
<1>6. CASE TakeLock(p) \/ MakeTable(p) \/ LookUp(p) \/ DropLock(p)
  BY <1>4, <1>5, <1>6, Fields DEF Asked, TakeLock, MakeTable, LookUp, DropLock
<1>7. CASE RunFile(p) \/ InsertVersion(p) \/ CommitFile(p) \/ Refuse(p)
  BY <1>4, <1>5, <1>7, Fields DEF Asked, RunFile, InsertVersion, CommitFile, Refuse
<1>8. CASE Cut(p)
  <2>1. Becomes(p, "closed", session[p].asked, session[p].answer)
    BY <1>0, <1>8 DEF Cut, Becomes, Sessions
  <2> QED BY <1>5, <2>1
<1>9. CASE Start(p)
  <2>1. session[p].state = "closed"
    BY <1>9 DEF Start, Controlled
  <2>2. \/ Becomes(p, "open", "lock", "none")
        \/ Becomes(p, session[p].state, session[p].asked, session[p].answer)
    BY <1>9, Fields DEF Start
  <2> QED BY <1>5, <2>1, <2>2
<1>10. CASE MigrateStep(p)
  <2>1. CASE Unlocked(p)
    <3>1. Becomes(p, "closed", session[p].asked, session[p].answer)
      BY <1>0, <2>1 DEF Unlocked, Becomes, Sessions
    <3> QED BY <1>5, <3>1
  <2>2. CASE Failed(p)
    <3>1. session[p].state = "open" /\ session[p].answer = "error" /\ UNCHANGED lock
      BY <2>2 DEF Failed, Answered
    <3>2. CASE session[p].asked = "lock" /\ session' = [session EXCEPT ![p].state = "orphan"]
      <4>1. Becomes(p, "orphan", session[p].asked, session[p].answer)
        BY <1>0, <3>2 DEF Becomes, Sessions
      <4> QED BY <1>5, <3>1, <3>2, <4>1
    <3>3. CASE session[p].asked # "lock" /\ Ask(p, "unlock")
      <4>1. Becomes(p, "open", "unlock", "none")
        BY <3>3, Fields
      <4> QED BY <1>4, <1>5, <3>1, <3>3, <4>1
    <3> QED BY <2>2, <3>2, <3>3 DEF Failed
  <2>3. ASSUME NEW statement, Ask(p, statement), UNCHANGED lock,
               session[p].state = "open",
               session[p].asked # "lock" \/ session[p].answer = "ok",
               session[p].asked # "unlock"
        PROVE  LockHeld'
    <3>1. Becomes(p, "open", statement, "none") /\ lock' = p
      BY <1>4, <2>3, Fields
    <3> QED BY <1>5, <3>1
  <2>4. CASE Locked(p) \/ TableMade(p) \/ Apply(p) \/ RecordFile(p) \/ AskCommit(p)
    BY <2>3, <2>4 DEF Locked, TableMade, Apply, RecordFile, AskCommit, Answered
  <2>5. CASE Skip(p) \/ Applied(p)
    BY <2>3, <2>5 DEF Skip, Applied, NextFile, Answered
  <2> QED BY <1>10, <2>1, <2>2, <2>4, <2>5 DEF MigrateStep
<1>11. CASE LoseConnection(p)
  <2>1. Becomes(p, "orphan", session[p].asked, session[p].answer)
    BY <1>0, <1>11 DEF LoseConnection, Becomes, Sessions
  <2>2. session[p].state = "open" /\ UNCHANGED lock
    BY <1>11 DEF LoseConnection, Controlled
  <2> QED BY <1>4, <1>5, <2>1, <2>2
<1>12. CASE Seed(p) \/ Listen(p)
  BY <1>4, <1>5, <1>12, Fields DEF Seed, Listen
<1>13. CASE Die(p)
  <2>1. Becomes(p, IF session[p].state = "open" THEN "orphan" ELSE session[p].state,
                session[p].asked, session[p].answer)
    BY <1>13, Fields DEF Die
  <2> QED BY <1>4, <1>5, <1>13, <2>1 DEF Die
<1> QED BY <1>6, <1>7, <1>8, <1>9, <1>10, <1>11, <1>12, <1>13 DEF Step, Execute

-----------------------------------------------------------------------------
(* The files. *)

LEMMA InstallersPast ==
    ASSUME NEW s \in Processes, MayInstall(s)
    PROVE  PastLock(s)
BY DEF MayInstall, PastLock

LEMMA SchemaChange ==
    ASSUME StartupTypeOK, Controlled, NEW p \in Processes, Step(p)
    PROVE  \/ UNCHANGED <<ledger, schema>>
           \/ /\ CommitFile(p) /\ MayInstall(p)
              /\ schema' = schema \cup {at[p]} /\ ledger' = ledger \cup {at[p]}
<1>1. UNCHANGED <<ledger, schema>> \/ CommitFile(p)
  BY DEF Step, Execute, Refuse, Cut, Start, MigrateStep, LoseConnection, Seed, Listen, Die,
           TakeLock, MakeTable, LookUp, RunFile, InsertVersion, CommitFile, DropLock,
           Locked, TableMade, Skip, Apply, RecordFile, AskCommit, Applied, Failed, Unlocked
<1>2. ASSUME CommitFile(p)
      PROVE  MayInstall(p) /\ schema' = schema \cup {at[p]} /\ ledger' = ledger \cup {at[p]}
  <2>1. /\ session[p].state # "closed"
        /\ session[p].asked = "commit" /\ session[p].answer = "none"
    BY <1>2 DEF CommitFile, Asked
  <2>2. work[p] = "recorded"
    BY <2>1 DEF Controlled, WorkDone
  <2> QED BY <1>2, <2>1, <2>2 DEF CommitFile, MayInstall
<1> QED BY <1>1, <1>2

LEMMA AppliedChange ==
    ASSUME StartupTypeOK, NEW p \in Processes, Step(p)
    PROVE  \/ UNCHANGED applied
           \/ /\ applied' = [applied EXCEPT ![p] = applied[p] \cup {at[p]}]
              /\ session[p].state = "open"
              /\ session[p].asked = "commit" /\ session[p].answer = "ok"
<1>1. UNCHANGED applied \/ Applied(p)
  BY DEF Step, Execute, Refuse, Cut, Start, MigrateStep, LoseConnection, Seed, Listen, Die,
           TakeLock, MakeTable, LookUp, RunFile, InsertVersion, CommitFile, DropLock,
           Locked, TableMade, Skip, Apply, RecordFile, AskCommit, Applied, Failed, Unlocked
<1> QED BY <1>1 DEF Applied, Answered

LEMMA LedgerStep ==
    ASSUME StartupTypeOK, Controlled, LedgerExact, Informed, NEW p \in Processes, Step(p)
    PROVE  LedgerExact'
<1>1. CASE UNCHANGED <<ledger, schema>>
  BY <1>1 DEF LedgerExact
<1>2. CASE schema' = schema \cup {at[p]} /\ ledger' = ledger \cup {at[p]}
  <2>1. at[p] \in Nat \ {0} /\ 1 .. (at[p] - 1) \subseteq schema
    BY DEF StartupTypeOK, Informed, Told
  <2>2. 1 .. at[p] \subseteq schema'
    BY <1>2, <2>1
  <2> QED BY <1>2, <2>2 DEF LedgerExact
<1> QED BY <1>1, <1>2, SchemaChange

(* What a process past its file has been told: the file is in. *)
LEMMA NextFileStep ==
    ASSUME StartupTypeOK, Informed, NEW p \in Processes, NextFile(p), UNCHANGED schema,
           at[p] \in schema
    PROVE  /\ 1 .. (at'[p] - 1) \subseteq schema
           /\ \/ Becomes(p, "open", "exists", "none")
              \/ Becomes(p, "open", "unlock", "none") /\ Files(p) \subseteq schema
           /\ at'[p] \in Nat \ {0}
<1>1. /\ at[p] \in Nat \ {0} /\ at \in [Processes -> Nat \ {0}]
      /\ Newest[p] \in Nat \ {0} /\ 1 .. (at[p] - 1) \subseteq schema
  BY StartupAssumption DEF StartupTypeOK, Informed, Told
<1>2. 1 .. at[p] \subseteq schema
  BY <1>1
<1>3. CASE at' = [at EXCEPT ![p] = at[p] + 1] /\ Ask(p, "exists")
  <2>1. at'[p] = at[p] + 1 /\ Becomes(p, "open", "exists", "none")
    BY <1>1, <1>3, Fields
  <2>2. at'[p] - 1 = at[p]
    BY <1>1, <2>1
  <2> QED BY <1>1, <1>2, <2>1, <2>2
<1>4. CASE at[p] = Newest[p] /\ Ask(p, "unlock") /\ UNCHANGED at
  <2>1. Becomes(p, "open", "unlock", "none") /\ Files(p) \subseteq schema
    BY <1>2, <1>4, Fields DEF Files
  <2> QED BY <1>1, <1>4, <2>1
<1> QED BY <1>3, <1>4 DEF NextFile

(* What other processes were told stays so. *)
LEMMA ToldOthers ==
    ASSUME StartupTypeOK, Controlled, LockHeld, Informed,
           NEW p \in Processes, Step(p), NEW q \in Processes, q # p
    PROVE  Told(q)'
<1>0. /\ Frame(p) /\ applied \in [Processes -> SUBSET (Nat \ {0})]
      /\ phase \in [Processes -> Phases] /\ session \in [Processes -> Sessions]
      /\ at \in [Processes -> Nat \ {0}]
  BY FrameStep DEF StartupTypeOK
<1>1. phase'[q] = phase[q] /\ session'[q] = session[q] /\ at'[q] = at[q]
  BY <1>0 DEF Frame
<1>2. schema \subseteq schema'
  BY SchemaChange
<1>3. MayInstall(q)' <=> MayInstall(q)
  BY <1>1 DEF MayInstall
<1>4. ASSUME PastLock(q), PastLock(p) PROVE FALSE
  BY <1>4 DEF LockHeld
<1>5. ASSUME MayInstall(q) PROVE at[q] \notin schema'
  <2>1. ~MayInstall(p) /\ at[q] \notin schema
    BY <1>4, <1>5, InstallersPast DEF Informed, Told
  <2> QED BY <2>1, SchemaChange
<1>6. ASSUME session[q].state # "closed", session[q].asked = "commit", session[q].answer = "ok",
             NEW r \in Processes
      PROVE  at[q] \notin applied'[r]
  <2>1. ~PastLock(p) /\ at[q] \notin applied[r]
    BY <1>4, <1>6 DEF PastLock, Informed, Told
  <2>2. UNCHANGED applied
    BY <2>1, AppliedChange DEF PastLock
  <2> QED BY <2>1, <2>2
<1> QED BY <1>1, <1>2, <1>3, <1>5, <1>6 DEF Informed, Told

(* What the process itself is told. *)
LEMMA ToldOwn ==
    ASSUME StartupTypeOK, Controlled, LedgerExact, Informed, ClaimedOnce,
           NEW p \in Processes, Step(p)
    PROVE  Told(p)'
<1>0. Told(p)
  BY DEF Informed
<1>1. /\ phase \in [Processes -> Phases] /\ session \in [Processes -> Sessions]
      /\ at \in [Processes -> Nat \ {0}]
  BY DEF StartupTypeOK
<1> DEFINE Own(ph, state, asked, answer) ==
        /\ 1 .. (at'[p] - 1) \subseteq schema'
        /\ /\ state # "closed"
           /\ \/ asked \in {"sql", "insert"} /\ answer # "error"
              \/ asked = "commit" /\ answer = "none"
              \/ asked = "exists" /\ answer = "ok"
           => at'[p] \notin schema'
        /\ state # "closed" =>
            /\ asked = "exists" /\ answer = "found" => at'[p] \in schema'
            /\ asked = "commit" /\ answer = "ok"
                  => at'[p] \in schema' /\ \A q \in Processes : at'[p] \notin applied'[q]
        /\ ph = "migrating" /\ asked = "unlock" => Files(p) \subseteq schema'
<1>2. \A state, asked, answer :
        Becomes(p, state, asked, answer) /\ Own(phase'[p], state, asked, answer) => Told(p)'
  BY DEF Becomes, MayInstall, Told
<1>3. ASSUME NEW state, NEW asked, NEW answer, Becomes(p, state, asked, answer),
             UNCHANGED <<at, applied, schema>>,
             state # "closed" => session[p].state # "closed",
             state # "closed" => asked = session[p].asked /\ answer = session[p].answer,
             phase'[p] = "migrating" =>
                phase[p] = "migrating" /\ asked = session[p].asked
      PROVE  Told(p)'
  BY <1>0, <1>2, <1>3 DEF Told, MayInstall
<1>4. CASE TakeLock(p) \/ MakeTable(p) \/ DropLock(p) \/ Refuse(p)
  BY <1>0, <1>2, <1>4, Fields DEF TakeLock, MakeTable, DropLock, Refuse, Asked, Statements, Told
<1>5. CASE LookUp(p)
  BY <1>0, <1>2, <1>5, Fields DEF LookUp, Asked, Told, LedgerExact
<1>6. CASE RunFile(p) \/ InsertVersion(p)
  <2>1. MayInstall(p) /\ at[p] \notin schema
    BY <1>0, <1>6 DEF RunFile, InsertVersion, Asked, MayInstall, Told
  <2> QED BY <1>0, <1>2, <1>6, <2>1, Fields DEF RunFile, InsertVersion, Asked, Told
<1>7. CASE CommitFile(p)
  <2>1. /\ session[p].state # "closed" /\ session[p].asked = "commit"
        /\ session[p].answer = "none" /\ UNCHANGED <<phase, at, applied>>
        /\ Becomes(p, session[p].state, session[p].asked, "ok")
    BY <1>7, Fields DEF CommitFile, Asked
  <2>2. MayInstall(p) /\ at[p] \notin schema
    BY <1>0, <2>1 DEF MayInstall, Told
  <2>3. work[p] = "recorded"
    BY <2>1 DEF Controlled, WorkDone
  <2>4. schema' = schema \cup {at[p]}
    BY <1>7, <2>3 DEF CommitFile
  <2>5. \A q \in Processes : at[p] \notin applied[q]
    BY <2>2 DEF ClaimedOnce
  <2> QED BY <1>0, <1>2, <2>1, <2>4, <2>5 DEF Told
<1>8. CASE Cut(p)
  <2>1. Becomes(p, "closed", session[p].asked, session[p].answer)
    BY <1>1, <1>8 DEF Cut, Becomes, Sessions
  <2> QED BY <1>3, <1>8, <2>1 DEF Cut
<1>9. CASE Start(p)
  <2>1. UNCHANGED <<at, applied, schema>> /\ session[p].state = "closed"
    BY <1>9 DEF Start, Controlled
  <2>2. CASE Ask(p, "lock")
    BY <1>0, <1>2, <2>1, <2>2, Fields DEF Told
  <2>3. CASE UNCHANGED session /\ phase'[p] \in {"seeding", "adopting"}
    <3>1. Becomes(p, session[p].state, session[p].asked, session[p].answer)
      BY <2>3, Fields
    <3> QED BY <1>3, <2>1, <2>3, <3>1
  <2> QED BY <1>1, <1>9, <2>2, <2>3 DEF Start, AfterMigrate
<1>10. CASE MigrateStep(p)
  <2>1. CASE Unlocked(p)
    <3>1. Becomes(p, "closed", session[p].asked, session[p].answer)
      BY <1>1, <2>1 DEF Unlocked, Becomes, Sessions
    <3>2. phase'[p] # "migrating"
      BY <1>1, <2>1 DEF Unlocked, AfterMigrate
    <3> QED BY <1>3, <2>1, <3>1, <3>2 DEF Unlocked
  <2>2. CASE Failed(p)
    <3>1. UNCHANGED <<at, applied, schema>> /\ phase'[p] # "migrating"
          /\ session[p].state = "open" /\ session[p].answer = "error"
      BY <1>1, <2>2 DEF Failed, Answered
    <3>2. CASE session' = [session EXCEPT ![p].state = "orphan"]
      <4>1. Becomes(p, "orphan", session[p].asked, session[p].answer)
        BY <1>1, <3>2 DEF Becomes, Sessions
      <4> QED BY <1>3, <3>1, <4>1
    <3>3. CASE Ask(p, "unlock")
      BY <1>0, <1>2, <3>1, <3>3, Fields DEF Told
    <3> QED BY <2>2, <3>2, <3>3 DEF Failed
  <2>3. CASE Locked(p) \/ TableMade(p)
    BY <1>0, <1>2, <2>3, Fields DEF Locked, TableMade, Told
  <2>4. CASE Apply(p) \/ RecordFile(p) \/ AskCommit(p)
    <3>1. at[p] \notin schema
      BY <1>0, <2>4 DEF Apply, RecordFile, AskCommit, Answered, MayInstall, Told
    <3> QED BY <1>0, <1>2, <2>4, <3>1, Fields DEF Apply, RecordFile, AskCommit, Told
  <2>5. CASE Skip(p) \/ Applied(p)
    <3>1. NextFile(p) /\ UNCHANGED schema /\ at[p] \in schema
      BY <1>0, <2>5 DEF Skip, Applied, Answered, Told
    <3> QED BY <1>2, <3>1, NextFileStep
  <2> QED BY <1>10, <2>1, <2>2, <2>3, <2>4, <2>5 DEF MigrateStep
<1>11. CASE LoseConnection(p)
  <2>1. Becomes(p, "orphan", session[p].asked, session[p].answer)
    BY <1>1, <1>11 DEF LoseConnection, Becomes, Sessions
  <2>2. session[p].state = "open" /\ phase'[p] # "migrating"
    BY <1>1, <1>11 DEF LoseConnection, Controlled, AfterMigrate
  <2> QED BY <1>3, <1>11, <2>1, <2>2 DEF LoseConnection
<1>12. CASE Seed(p) \/ Listen(p)
  <2>1. Becomes(p, session[p].state, session[p].asked, session[p].answer)
    BY <1>12, Fields DEF Seed, Listen
  <2>2. phase'[p] # "migrating"
    BY <1>1, <1>12 DEF Seed, Listen
  <2> QED BY <1>3, <1>12, <2>1, <2>2 DEF Seed, Listen
<1>13. CASE Die(p)
  <2>1. Becomes(p, IF session[p].state = "open" THEN "orphan" ELSE session[p].state,
                session[p].asked, session[p].answer)
    BY <1>13, Fields DEF Die
  <2>2. phase'[p] = "gone"
    BY <1>1, <1>13 DEF Die
  <2> QED BY <1>3, <1>13, <2>1, <2>2 DEF Die
<1> QED BY <1>4, <1>5, <1>6, <1>7, <1>8, <1>9, <1>10, <1>11, <1>12, <1>13 DEF Step, Execute

LEMMA ClaimedStep ==
    ASSUME StartupTypeOK, Controlled, Informed, ClaimedOnce, NEW p \in Processes, Step(p)
    PROVE  ClaimedOnce'
<1>0. applied \in [Processes -> SUBSET (Nat \ {0})]
  BY DEF StartupTypeOK
<1>1. schema \subseteq schema'
  BY SchemaChange
<1>2. CASE UNCHANGED applied
  BY <1>1, <1>2 DEF ClaimedOnce
<1>3. CASE /\ applied' = [applied EXCEPT ![p] = applied[p] \cup {at[p]}]
           /\ session[p].state = "open"
           /\ session[p].asked = "commit" /\ session[p].answer = "ok"
  <2>1. at[p] \in schema /\ \A q \in Processes : at[p] \notin applied[q]
    BY <1>3 DEF Informed, Told
  <2> QED BY <1>0, <1>1, <1>3, <2>1 DEF ClaimedOnce
<1> QED BY <1>2, <1>3, AppliedChange

LEMMA ServesStep ==
    ASSUME StartupTypeOK, Controlled, Informed, ServesItsSchema, NEW p \in Processes, Step(p)
    PROVE  ServesItsSchema'
<1>0. phase \in [Processes -> Phases] /\ Frame(p)
  BY FrameStep DEF StartupTypeOK
<1>1. schema \subseteq schema'
  BY SchemaChange
<1> DEFINE Up == {"seeding", "adopting", "listening"}
<1>2. ASSUME NEW q \in Migrating, phase'[q] \in Up PROVE Files(q) \subseteq schema
  <2>1. CASE phase[q] \in Up
    BY <2>1 DEF ServesItsSchema
  <2>2. CASE phase[q] \notin Up
    <3>1. q = p
      BY <1>0, <1>2, <2>2, StartupAssumption DEF Frame
    <3>2. phase[p] = "migrating" /\ session[p].asked = "unlock"
      BY <1>0, <1>2, <2>2, <3>1 DEF Step, Execute, Refuse, Cut, Start, MigrateStep,
         LoseConnection, Seed, Listen, Die, AfterMigrate, Answered,
         TakeLock, MakeTable, LookUp, RunFile, InsertVersion, CommitFile, DropLock,
         Locked, TableMade, Skip, Apply, RecordFile, AskCommit, Applied, Failed, Unlocked
    <3> QED BY <3>1, <3>2, StartupAssumption DEF Informed, Told
  <2> QED BY <2>1, <2>2
<1> QED BY <1>1, <1>2 DEF ServesItsSchema, Files

-----------------------------------------------------------------------------
(* The theorems. *)

LEMMA StartupInvInit ==
    ASSUME StartupInit
    PROVE  StartupInv
<1>1. \A p \in Processes :
        /\ phase[p] = "off" /\ at[p] = 1 /\ applied[p] = {} /\ work[p] = "none"
        /\ session[p] = [state |-> "closed", asked |-> "lock", answer |-> "none"]
        /\ session[p].state = "closed" /\ session[p].asked = "lock"
  BY DEF StartupInit
<1>2. StartupTypeOK
  <2>1. [state |-> "closed", asked |-> "lock", answer |-> "none"] \in Sessions
    BY DEF Sessions, Statements, Answers
  <2>2. \A p \in Processes : 1 \in Files(p)
    BY StartupAssumption DEF Files
  <2>3. phase \in [Processes -> Phases] /\ session \in [Processes -> Sessions]
    BY <2>1 DEF StartupInit, Phases
  <2>4. /\ at \in [Processes -> Nat \ {0}]
        /\ applied \in [Processes -> SUBSET (Nat \ {0})]
        /\ work \in [Processes -> {"none", "installed", "recorded"}]
    BY DEF StartupInit
  <2>5. \A p \in Processes : at[p] \in Files(p)
    BY <1>1, <2>2
  <2>6. /\ lock \in Processes \cup {Nobody} /\ table \in BOOLEAN
        /\ ledger \in SUBSET (Nat \ {0}) /\ schema \in SUBSET (Nat \ {0})
    BY DEF StartupInit
  <2> QED BY <2>3, <2>4, <2>5, <2>6 DEF StartupTypeOK
<1>3. Controlled /\ LockHeld
  BY <1>1 DEF Controlled, WorkDone, LockHeld, PastLock
<1>4. LedgerExact /\ ClaimedOnce /\ ServesItsSchema
  BY <1>1, StartupAssumption DEF StartupInit, LedgerExact, ClaimedOnce, ServesItsSchema
<1>5. Informed
  <2>1. 1 .. (1 - 1) = {}
    OBVIOUS
  <2> QED BY <1>1, <2>1 DEF Informed, Told, MayInstall
<1> QED BY <1>2, <1>3, <1>4, <1>5 DEF StartupInv

LEMMA StartupInvStep ==
    ASSUME StartupInv, [StartupNext]_startupVars
    PROVE  StartupInv'
<1>1. CASE UNCHANGED startupVars
  BY <1>1 DEF startupVars, StartupInv, StartupTypeOK, Controlled, WorkDone, LockHeld, PastLock,
     LedgerExact, Informed, Told, MayInstall, ClaimedOnce, ServesItsSchema, Files
<1>2. ASSUME NEW p \in Processes, Step(p) PROVE StartupInv'
  <2>1. Informed'
    BY <1>2, ToldOwn, ToldOthers DEF StartupInv, Informed
  <2> QED BY <1>2, <2>1, FrameStep, ControlStep, LockStep, LedgerStep, ClaimedStep, ServesStep
          DEF StartupInv
<1> QED BY <1>1, <1>2 DEF StartupNext, Step

(* The inductive invariant: the lock is with whoever is past it, and what  *)
(* each process was told about its file is so.                             *)
THEOREM StartupInvariance == StartupSpec => []StartupInv
<1> QED BY StartupInvInit, StartupInvStep, PTL DEF StartupSpec

(* Types of the processes, the sessions and the database. *)
THEOREM StartupTyped == StartupSpec => []StartupTypeOK
<1>1. StartupInv => StartupTypeOK
  BY DEF StartupInv
<1> QED BY <1>1, StartupInvariance, PTL

(* What a process found missing nobody else installs before it does: any   *)
(* number of processes may start, die and be restarted at once.            *)
THEOREM Overtaking == StartupSpec => []NobodyOvertakes
<1>1. ASSUME StartupInv PROVE NobodyOvertakes
  <2>1. ASSUME NEW s \in Processes, MayInstall(s) PROVE at[s] \notin schema \cup ledger
    BY <1>1, <2>1 DEF StartupInv, Informed, Told, LedgerExact
  <2>2. ASSUME NEW s \in Processes, MayInstall(s), NEW t \in Processes \ {s}, MayInstall(t)
        PROVE  FALSE
    BY <1>1, <2>2, InstallersPast DEF StartupInv, LockHeld
  <2> QED BY <2>1, <2>2 DEF NobodyOvertakes
<1> QED BY <1>1, StartupInvariance, PTL

(* The ledger lists the files that have taken effect, and there is no gap  *)
(* in them, wherever processes died.                                       *)
THEOREM LedgerKept == StartupSpec => []LedgerExact
<1>1. StartupInv => LedgerExact
  BY DEF StartupInv
<1> QED BY <1>1, StartupInvariance, PTL

(* No two processes claim the same migration. *)
THEOREM ClaimsUnique == StartupSpec => []ClaimedOnce
<1>1. StartupInv => ClaimedOnce
  BY DEF StartupInv
<1> QED BY <1>1, StartupInvariance, PTL

(* A process that migrates serves only with all its files in. *)
THEOREM ServesComplete == StartupSpec => []ServesItsSchema
<1>1. StartupInv => ServesItsSchema
  BY DEF StartupInv
<1> QED BY <1>1, StartupInvariance, PTL

LEMMA RolloutInit ==
    ASSUME StartupInit
    PROVE  R!Init
BY StartupAssumption DEF StartupInit, R!Init

LEMMA RolloutStep ==
    ASSUME StartupInv, StartupInv', [StartupNext]_startupVars
    PROVE  [R!Next]_<<schema, {p \in Migrating : phase[p] = "listening"}>>
<1> DEFINE Up == {p \in Migrating : phase[p] = "listening"}
<1> SUFFICES ASSUME NEW p \in Processes, Step(p)
             PROVE  R!Next \/ (schema' = schema /\ Up' = Up)
  BY DEF StartupNext, Step, startupVars
<1>0. StartupTypeOK /\ Controlled /\ Frame(p) /\ phase \in [Processes -> Phases]
  BY FrameStep DEF StartupInv, StartupTypeOK
<1>1. CASE CommitFile(p) /\ MayInstall(p) /\ schema' = schema \cup {at[p]}
  <2>1. p \in Migrating /\ at[p] \in Files(p)
    BY <1>0, <1>1 DEF MayInstall, Controlled, StartupTypeOK
  <2>2. at[p] \notin schema /\ 1 .. (at[p] - 1) \subseteq schema
    BY <1>1 DEF StartupInv, Informed, Told
  <2>3. Up' = Up
    BY <1>1 DEF CommitFile
  <2>4. at[p] \in (1 .. [q \in Migrating |-> Newest[q]][p]) \ schema
    BY <2>1, <2>2 DEF Files
  <2>5. R!Install
    BY <1>1, <2>1, <2>2, <2>3, <2>4 DEF R!Install
  <2> QED BY <2>5 DEF R!Next
<1>2. CASE UNCHANGED schema
  <2>1. \A q \in Processes \ {p} : phase'[q] = phase[q]
    BY <1>0 DEF Frame
  <2>2. CASE Listen(p) /\ p \in Migrating /\ phase'[p] = "listening"
    <3>1. Files(p) \subseteq schema /\ p \notin Up
      BY <2>2 DEF Listen, StartupInv, ServesItsSchema
    <3>2. Up' = Up \cup {p}
      BY <2>1, <2>2, StartupAssumption
    <3>3. R!Up
      BY <1>2, <2>2, <3>1, <3>2 DEF R!Up, Files
    <3> QED BY <3>3 DEF R!Next
  <2>3. CASE Die(p) /\ p \in Up
    <3>1. Up' = Up \ {p}
      BY <1>0, <2>1, <2>3, StartupAssumption DEF Die
    <3>2. R!Down
      BY <1>2, <2>3, <3>1 DEF R!Down
    <3> QED BY <3>2 DEF R!Next
  <2>4. CASE ~(Listen(p) /\ p \in Migrating /\ phase'[p] = "listening") /\ ~(Die(p) /\ p \in Up)
    <3>1. p \in Migrating => (phase'[p] = "listening" <=> phase[p] = "listening")
      BY <1>0, <2>4 DEF Step, Execute, Refuse, Cut, Start, MigrateStep,
         LoseConnection, Seed, Listen, Die, AfterMigrate, Answered,
         TakeLock, MakeTable, LookUp, RunFile, InsertVersion, CommitFile, DropLock,
         Locked, TableMade, Skip, Apply, RecordFile, AskCommit, Applied, Failed, Unlocked
    <3>2. Up' = Up
      BY <2>1, <3>1, StartupAssumption
    <3> QED BY <1>2, <3>2
  <2> QED BY <2>2, <2>3, <2>4
<1> QED BY <1>0, <1>1, <1>2, SchemaChange

(* Startup implements Rollout: files go in one after the other, each once, *)
(* and a process comes up when its own are in.                             *)
THEOREM RolloutImplemented == StartupSpec => ImplementsRollout
<1> QED BY StartupInvariance, RolloutInit, RolloutStep, PTL DEF StartupSpec, ImplementsRollout, R!Spec

=============================================================================
