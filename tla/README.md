# A formal model of the learning center

This directory holds TLA+ specifications of the learning center, the TLC
configurations that check them, and TLAPS proofs about them. Paths below are
relative to the repository.

## 1. The system

A Go API (`api/`) keeps courses, enrollments, progress and safeguarding facts
in PostgreSQL; a Next.js front end (`web/`) signs members in with OIDC and
calls the API for them; operators run two commands, `reconcileprogress` and
`resetdemo`, against the same database.

| Component | State | Operations | What makes it correct |
| --- | --- | --- | --- |
| Learning store (`api/internal/store`) | `enrollment`, `progress_event`, `enrollment_progress` | `Enroll`, `CompleteLesson`, `LoadDashboard` | one enrollment per member and course; each completion recorded once and never lost; the projection counts the events; order kept in sequential courses; withdrawal final |
| Reconciliation (`api/internal/projection`) | the same tables | dry run, `--apply` | reports only real drift; what it writes is right when it commits; no partial repair |
| Demo reset (`api/internal/demoreset`) | the same tables | `Reset` | deletes the demo enrollments with everything below them and nothing else |
| Eligibility (`api/internal/safeguarding`, `store.go`) | checks, trainings, holds, role credentials | `LoadSafeguardingInputs`, `Evaluate`, `ListCompliance` | a decision about one instant; a hold overrides; weakest role credential counts |
| Credentials contract (`api/internal/credentials`) | none | `Build`, `LoadMemberCredentials` | agrees with the eligibility route |
| Request admission (`api/internal/httpapi`) | concurrency slots, rate windows | admit, refuse, release | slots never leak; a client is bounded |
| HTTP routes and authentication (`httpapi`, `authn`) | a pool of database connections | `authenticate`, `authenticateService`, `requireRole`, handlers | who is served had the role, who is refused lacked it; nobody who waits for a connection holds one |
| Migrations (`api/internal/dbsetup`) | `schema_migrations`, the schema, an advisory lock | `Migrate`, `ApplySeed` | each migration applied once, in order, across instances and crashes |
| Server process (`api/cmd/server`) | the listener, two pools | start, shut down | migrations precede requests; requests in flight finish |
| Web sign-in (`web/lib`, `web/app/api/auth`) | two sealed cookies, the provider's codes | login, callback, logout | a session only for the login that started it; a code used once |

The server processes are deployed several at a time: each may migrate and seed
before it serves, and any of them may lose its connection, be killed or be told
to stop while it holds the migration lock or requests.

The components meet in the database: requests, repairs and resets interleave
there statement by statement, and row locks, unique constraints, foreign keys
and isolation levels are all that orders them. That is where the behaviour that
is hard to test lives, and so it is modelled first: two requests racing in one
enrollment, a retry of a call that is still committing, a connection lost
between two statements, a repair that decided what to write before it was
granted its last lock, a reset deleting what a request is about to extend,
transactions that wait for each other. `PROJECT.json` lists these hazards with
the line where each bites and the properties that would catch it.

## 2. The modules

```
LearningStore          the tables and every transaction on them, one action per statement
LearningStoreProps     its properties, its fairness, the refinement mapping
  ProgressLog          the abstract specification: every request one atomic step
LearningStoreInv       the inductive invariant
MCLearningStore        courses, lessons and symmetry for the TLC runs
LearningStoreTypes     proofs: types, frames, control points (layer 1)
LearningStoreRows      proofs: locks, rows, withdrawal, projection (layers 2 to 5)
LearningStoreTheorems  proofs: lessons, totals, answers, waiting (layers 6 to 9), the
                       refinement; the theorems

Eligibility            the safeguarding file, the clock, and the requests that judge by them
EligibilityProps       its properties and the inductive invariants of its proofs
MCEligibility          rows and members for the TLC runs
EligibilityTheorems    the proofs

Admission              concurrency slots and the rate limiter
AdmissionProps         its properties and the invariant of its proofs
MCAdmission            addresses and headers for the TLC runs
AdmissionTheorems      the proofs

SignIn                 browsers, the web server's auth routes and the provider's codes
SignInProps            its properties and the invariants of its proofs
MCSignIn               symmetry for the TLC runs
SignInTheorems         the proofs

Startup                processes that migrate, seed and start to serve, and their sessions
StartupProps           its properties, the invariant of its proofs, the refinement mapping
  Rollout              the abstract specification: files go in one by one, then processes up
MCStartup              releases for the TLC run
StartupTheorems        the proofs
Service                EXTENDS Startup: requests, roles, the connection pool, stopping
ServiceProps           its properties and the invariant of its proofs
MCService              tokens, members and pool for the TLC run
ServiceTheorems        the proofs, on top of those of Startup
```

`Service` composes with `Startup`: its processes are those of `Startup`, and each
of its steps is one of `Startup`'s or leaves them alone (`Deployed`). The other
groups share no state that any of them writes: enrollments do not bear on
eligibility, nothing in the store's transactions reads the safeguarding file or
the roles, admission is over before a handler runs and hears no more from it
than that it returned or panicked, and what a sign-in leaves behind is a token
the API verifies by itself. They are checked apart because nothing is lost by it.

### LearningStore

State. `enr`, `events` and `proj` are the committed rows of `enrollment`,
`progress_event` and `enrollment_progress`; `content` the lessons that exist;
`used` the enrollment ids ever committed. `pc`, `arg`, `out` are each process's
next statement, its Go variables and its answer. `wr` holds the uncommitted
writes of a request, `held` and `shared` the row locks, `plan`, `todo` and
`stale` what a reconciliation read in its snapshot and which rows have changed
since.

| Code | Actions |
| --- | --- |
| `Store.Enroll`, `store.go:154-202` | `EnrollBegin`, `EnrollInsert`, `EnrollSelect`, `EnrollProject`, `EnrollForeignKey`, `EnrollCommit`, then the load |
| `Store.CompleteLesson`, `store.go:206-320` | `CompleteBegin`, `CompleteLock`, `CompletePlace`, `CompleteOrder`, `CompleteInsert`, `CompleteProject`, `CompleteStatus`, `CompleteCommit`, then the load |
| `Store.LoadDashboard`, `loadEnrollmentProgress`, `store.go:323-443` | `DashboardBegin`, `LoadRow`, `LoadLessons` |
| `projection.Reconcile`, `reconcile.go:87-152` | `ReconcileDryRun`; `ReconcileBegin`, `ReconcileLock`, `ReconcileReport`, `ReconcileRebuild`, `ReconcileCommit`, `ReconcileConflict` |
| `demoreset.Reset`, `reset.go:33-51` | `ResetBegin`, `ResetLock`, `ResetCascade`, `ResetCommit` |
| early returns with a deferred rollback | `Refuse` |
| a lost connection or a cancelled request, anywhere | `Abort` |

PostgreSQL is external and modelled by the rules the code relies on; they are
listed at the head of the module. A statement that has to wait is an action
that is not enabled, and `WaitsFor` says for whom it waits. A cycle of waiting
transactions is resolved by `DeadlockVictim`. `Withdraw`, `AddLesson`,
`LoseProjection` and `SkewProjection` are statements no code under `api/`
issues but its tests, seed and runbooks show a person issuing; the last two are
what reconciliation exists to repair, and `MaxFaults` bounds them.

Data is abstracted to what the properties tell apart: members, courses, lessons
and ids are model values, a lesson's place is the pair of positions the SQL
compares, `percent_complete` is left out because it is a function of the two
counts (a row whose percentage alone was overwritten by hand is the one drift
the model does not show). Timestamps and titles do not appear.

Operators whose comment begins with "Mutant" are plausible bugs. They are
defined before the action they would replace and used by nothing: they document
what each property would catch, and checking a property with its mutant in
place of the action finds the property violated.

### ProgressLog

What the store promises its callers, with each request a single atomic step:
who is enrolled where, which lessons each enrollment has completed. Order in a
sequential course is promised for the lessons that were there from the start: a
lesson added between the order check and the commit may be skipped.
`LearningStoreProps` maps the committed tables to it (`Log`), and
`ImplementsLog` says that every statement, commit, abort, repair and reset of
the store is one step of the log or none.

### Eligibility

State. `members`, `roles`, `checks`, `trainings`, `credentials`, `holds` and
`lifted` are the tables; `today` the UTC date that `time.Now` and PostgreSQL's
`now()` agree on. Per request, `pc` is the next statement, `inputs` the
`safeguarding.Inputs` gathered so far, `todo` the members a compliance list has
still to judge, `out` the answer. `ever`, `always` and `moved` are history: the
requirements the member at hand has met at some and at every instant since the
request turned to it, and whether the file or the date has moved since.
`MetOn` says which requirements are met on a day, from `docs/domain-model.md`
section 4 and without the code's detour through latest and earliest dates.

| Code | Actions |
| --- | --- |
| `LoadSafeguardingInputs`, `store.go:501-596` | `TakeNow`, `FindMember`, `ReadChecks`, `ReadTrainings`, `ReadHolds`, `ReadRoles` |
| `handleEligibility`, `router.go:326-347` | `EligibilityBegin`, the load, `Judge` |
| `LoadMemberCredentials`, `credentials.Build` | `CredentialsBegin`, `Resolve`, the load, `ListCredentials` with `Build` |
| `ListCompliance`, `store.go:447-485` | `ComplianceBegin`, then the load and `Judge` for each member |
| a failed statement, an answer taken | `Return` |

A request's clock is read once, by `TakeNow`; each statement uses the date of
its own `now()`. No code under `api/` writes these tables, so the edits are
external: rows filed and taken back, roles granted and revoked, holds placed and
lifted, members deleted with the cascade of the migrations. A date is a day; a
hold's `placed_at`, a timestamp in the schema, is the day it falls on. The grace
window is the code's constant zero. `RowAssumption` is the chronology check of
migration 0006.

### Admission

State. `slots` is the number of values in the channel, `visitors` and
`lastSweep` the limiter's map and its last sweep, `now` its clock, `trustProxy`
the setting. `pc` and `panicking` say where each request's goroutine is.
`passes` is history: who was let through, when, in which window and as which of
it. The properties are stated over `passes` and the address a request really
comes from, so that they do not depend on what the map says.

| Code | Actions |
| --- | --- |
| `concurrencyLimit`, `concurrency.go:13-27` | `TakeSlot`, `RefuseSlot`, `GiveBack` |
| `clientRateLimiter`, `rate_limit.go:36-74` | `Allow`, with the sweep (`Swept`) and the window (`Counted`, `Spent`) |
| `proxiedClientAddress`, `rate_limit.go:84-97` | `Client`, `LastAddress` |
| `net/http`, the handlers, the clock | `Arrive`, `HandlerReturns`, `HandlerPanics`, `Tick` |

A header is a sequence of addresses and other text. With `TRUST_PROXY=1` one
proxy, as the comment requires, appends the address it sees to whatever the
client sent, on the one line that `Header.Get` reads; a proxy that added a second
`X-Forwarded-For` line instead would leave the client's own as the one read, and
`AnyWindow` and `RefusalIsEarned` say nothing of it. Without the setting the
connection is the client's own. Time is counted in
ticks and the zero `time.Time` is 0, a window before the process starts. A map
entry that is absent reads as the zero value, as in Go. The recoverer is outside
of both middlewares, so a panic passes the deferred receive before it is
answered.

### SignIn

State. The web server keeps none. `transaction` and `session` are the two
cookies of each browser; `issued` is what the provider made each code for, and
`codes` those it still holds; `started` says who began a login and when, `pages`
which logins' pages at the provider were reached. `pc` and `call` follow each
request: the cookie it carried, the callback's code and state, the tokens it
got, the cookies its response sets. `alone`, and the field of that name, are
history: the logins and callbacks that no other login or callback of their
browser has disturbed, and whose code nobody took to another login's transaction
(`Diverted`).

| Code | Actions |
| --- | --- |
| `login/route.ts:6-42` | `LoginOpen` |
| `oidcfixture/main.go:198-226` | `Authorize` |
| `callback/route.ts:16-33`, `takeTransaction` | `CallbackURLs`, `CallbackSend` (the cookie as it is then), `CallbackOpen`, `Verify` |
| `exchangeCode`, `oidcfixture/main.go:228-266` | `Token`, `Grants` |
| `oidc.ts:46-135`: a provider that fails or takes too long | `Fail` |
| `logout/route.ts:16-23` | `Logout` |
| the browser applies a response, or never gets it | `Deliver`, `Lose` |
| `readSession`, `session.ts:73-79` | `SessionEnds` |

What matters is that a cookie is read when a request is sent and
changed when a response arrives: in between, any number of other requests of the
same browser come and go. A callback URL is a link that anyone may open, in any
browser and again.

A link may also be put together: one login's code with another one's state. In
the browser that holds the other login's transaction it passes the check of the
state (`route.ts:22`), and the provider deletes the code before it compares the
challenge (`oidcfixture/main.go:236-242`). So the code is spent, its owner's login
fails, and no session is made, since the challenge is of another verifier
(`Grants`); the nonce, compared in `Verify`, would be a second reason. What holds
is therefore said of less: `RedirectsSpendAtHome` of a code that comes with its
own login's state, `SignsInAlone` of a login whose code nobody has taken to
another transaction, nor overlapped in its browser; `SessionIsOwn` and
`OneSessionPerCode` of every link.

Abstraction. A login stands for the state, the nonce and the verifier drawn for
it and for the challenge derived from the verifier: comparing states is comparing
logins, and so is comparing a challenge or a nonce. A sealed cookie cannot be
made without the key, so a cookie holds what some response set. A callback
URL is any code that was issued, or none, with the state of any login whose page
was reached: the route reads the two apart (`route.ts:19-20`). A refused login
or logout changes nothing and is no step. The return path, the metadata cache
and the lifetime of a session are left out: a session may end at any time.

### Startup

State. `phase`, `at` and `applied` are each process's place in `main`, the file
its loop stands at and the list `Migrate` returns. `session` is the PostgreSQL
session of the connection `Migrate` runs on: what it was asked, what it answered,
and whether its client is still there. `work` is what the session's open
transaction has done for the file, `lock` the holder of the advisory lock,
`table` and `ledger` `schema_migrations`, `schema` the files in effect.

| Code | Actions |
| --- | --- |
| `main`, `main.go:76-149` | `Start`, `Unlocked`, `Seed`, `Listen` |
| `Migrate`, `dbsetup.go:24-79` | `Locked`, `TableMade`, `Skip`, `Apply`, `Applied`, `NextFile`, `Failed` |
| `applyOne`, `dbsetup.go:81-99` | `RecordFile`, `AskCommit` |
| what the session does with the statements | `TakeLock`, `MakeTable`, `LookUp`, `RunFile`, `InsertVersion`, `CommitFile`, `DropLock`, `Refuse` |
| a broken connection, a dead process, a session ended | `LoseConnection`, `Die`, `Cut` |

The point of the model is that client and session are two parties. A process
that dies, or whose connection breaks, leaves its session behind. The session
may still execute the statement it was sent, be it the commit of a file, and it
keeps the lock until PostgreSQL ends it (`Cut`). A restart is another process.

Abstraction. A release is how many files it embeds; a file is its number. What
its statements do is that they can be done once, after the files before it, and
that they wait for another session that is doing the same. The seed needs the
tables up to `SeedFile`, the runtime role (`DB_RUNTIME_ROLE`) the file that creates
it; with `RUNTIME_DATABASE_URL` alone nothing is adopted. Reading the
configuration and discovering the OIDC provider come down to `Die`. An unlock
that fails on a connection that lives on is left out: it is a function call that
fails only with its connection.

### Rollout

What a deployment may count on: files are installed one after the other, each
once, and a migrating process is up only when all its files are in.
`ImplementsRollout` says that every step of every process and session is one of
its steps or none.

### Service

State. `req` holds each request: where it stands, the process it went to, its
route by the role it requires, its token, how many more connections its handler
needs, its answer. `directory` is the members and their roles, `stopping` how
far each process is that was told to stop. History: `had` and `lacked` in a
request say whether its caller had, or lacked, the role at some moment since it
was sent; `overdue` and `killed` are the processes whose `Shutdown` ran out of
time and those that died.

| Code | Actions |
| --- | --- |
| `NewRouter`, `authenticate`, `authenticateService`, `VerifyClaims` | `Send` with `FirstStage`, `Verified` |
| `ResolveMemberBySubject`, `requireRole` | `Acquire`, `Resolve` with `Entitled` |
| the handlers and their store calls | `Malformed`, `Acquire`, `HandleOn`, `Handle` |
| `recoverer`, errors, a client that is gone | `Fail` |
| `handleHealth`, `router.go:311-324` | `PingTimesOut` |
| `main.go:151-163`, `Store.Close` | `Stop`, `CloseStore`, `TurnAway`, `Exit` |
| a killed process | `Kill` |
| seed, and an operator's changes of the member table | `SeedMembers`, `ChangeDirectory` |

A request takes several connections of one pool, one after another: the member
and the roles are read on the first and used after it has gone back, and so the
table may change between the check and the work. `Uses` says how many the
handler of a route takes.

Abstraction. What the store's calls do is the subject of the other modules. A
token verifies or does not (`Claims`); signatures and expiry are a library's. The
authentication mode is demo or oidc: with `disabled`, or without a database,
routes answer 503 and change nothing. A response that was written counts as
answered whether or not its client gets it. A request may still begin at a process
that drains, on a connection accepted before, and `Shutdown` waits for it.

## 3. Runs

All runs of the store use two enrollment ids; where no liveness is checked, sets
of processes and ids are symmetric. Two ids give every case the code distinguishes: the row a transaction
works on and another one; two enrollments of one member, or one each of two
members; an id deleted by a reset and its successor.

| Run | Question | Instance |
| --- | --- | --- |
| `traffic` | Do racing requests enroll twice, record twice, leapfrog a lesson or deadlock? (`OneEnrollment`, `RecordedOnce`, `PrefixClosed`, `DeadlockNeedsCommands`, and `TypeOK`); do requests, resets and repairs lose an update or an event, or show a count ahead of the lessons? (`ProjectionFaithful`, `CompletionDurable`, `CountNeverAhead`); does the store implement `ProgressLog`? (`ImplementsLog`) | two requests of one member, an operator, no hand on the projections; a sequential course of two lessons, in two modules |
| `handwork` | With withdrawals, growing courses and skewed projections: do check constraints reject a legitimate write, is drift reported without a cause, is a withdrawal undone, is a repair exact when it commits? (`ChecksNeverFire`, `NoFalseDrift`, `WithdrawnStays`, `RepairExact`) | one request, one operator, two courses, one skewed row |
| `returns` | Does every call and command come back, whichever it is? (`EveryCallReturns`) | one request (an Enroll, a completion, a dashboard), one operator (a dry run, a repair, a reset), a course of two lessons, one lost projection; under `FairSpec` |
| `returns_commands` | Do two commands that lock many rows in different orders come back, beside an Enroll? (`EveryCallReturns`) | two operators (repair, reset), two members of the demo, one Enroll at a time, no damage; under `FairSpec` |
| `decisions` | Is a decision read in several statements witnessed by what was true meanwhile, and does an undisturbed credentials answer explain it? (`EligibleWasEarned`, `RefusalWasJustified`, `HoldOverrides`, `FlagsExplainDecision`, `TypeOK`); is the next expiration in the compliance list the day the decision stands to? (`NextExpirationHolds`) | two members, any file of six rows and two roles of one of them, one edit or deletion, two midnights |
| `admission` | Does a panic, a refusal or a burst lose a slot, does a client get through too often or is it refused for others, does the sweep forget a window that still counts? (`SlotsExact`, `AnyWindow`, `RefusalIsEarned`, `TypeOK`) | three requests of two addresses, two slots, two per window of two ticks, a clock of five instants |
| `signin` | With requests that overlap, get lost or answer late, and links opened anywhere: does a browser get somebody else's session, does a code make two, is one with its own login's state spent in another browser, is an undisturbed login turned away? (`SessionIsOwn`, `OneSessionPerCode`, `RedirectsSpendAtHome`, `SignsInAlone`, `TypeOK`) | two browsers, two requests at a time, two logins, two codes, one identity, three instants |
| `rollout` | With processes that start together, lose connections and die: is a migration installed twice, out of order or without its record, does one process overtake another's migration, is one up before its files are in, does a start hang? (`NobodyOvertakes`, `LedgerExact`, `ImplementsRollout`, `EveryStartEnds`, `StartupTypeOK`) | three processes of two releases, all migrate, one seeds, one takes the restricted role; under `FairStartupSpec` |
| `service` | While roles change and processes stop or die: is somebody served who never had the role or refused who always had it, is a request cut off by a stop that was in time, does a request or a stop wait for ever? (`RolesDecide`, `CutForAReason`, `EveryRequestEnds`, `EveryDrainEnds`, `TypeOK`) | a process that migrates and seeds, two requests of a learner or the other system, a pool of one, one change of the member table; under `FairSpec` |

`EveryCallReturns` takes two runs, for checking it is dear: `returns` has every
kind of call, a repair with something to rebuild, and the circle of a repair and
an Enroll that inserts the lost projection of an enrollment the repair has locked;
`returns_commands` has the circle of two commands. Requests alone make no circle,
as `DeadlockNeedsCommands` says. `handwork` loses no projection row, for then a
repair need not be exact (`repair_race`); that its other three properties hold
with lost rows too is proved (section 4), and `returns` shows the detector at work.

Members meet only in the ids that are given out and in what a command locks;
`returns_commands` has two, the others one.

In `Eligibility` requests do not write, so one request sees every interleaving
that matters. The rows begin before, on and after the days of the run and end on
each of them; the second member has filed nothing, which is enough for a list of
two whose members differ. A check that is not approved is in no run; the proofs
cover every status.

In `admission` two per window is the least limit for which the bound of three in
any window's length is more than one window and less than two. The glossary
(`docs/glossary.md:109-111`) says "at most `RATE_LIMIT_PER_MINUTE` per client";
with fixed windows that is so per window, and `AnyWindow` is what holds of any
minute. Three requests more than fill two slots, and on five instants two windows
end and a third begins.

In `signin` two of each suffice for another's login, code or request beside the
one in question. Two requests at a time overlap in every way two can, one after
another as often as they like. The identity never decides anything; that a
session is of the identity chosen is compared with what the code was issued for.
A transaction lives two ticks and a code one, so that each expires alone.

In `rollout` three processes give a holder of the lock, a session left behind and
a third party that waits; two files give one to be installed and one before it,
and two releases an older process that starts after a newer one has migrated.

In `service` a pool of one is where a connection held while another is waited for
blocks everything, two requests suffice to block each other, and a learner's
handler takes two connections after the one its role was read on. One change of
the table may fall between any two steps of a request. The learner has the role
from the seed, so that it can be without it at first, get it, and lose it.

Three runs are expected to fail; each shows a disagreement between the code and
what the repository says of it.

- `repair_race`. `reconcile.go:85-86` says that the rows are locked "so a
  concurrent completion, which locks the same row, cannot interleave with the
  rebuild." The snapshot of a REPEATABLE READ transaction is taken by its first
  statement, the one that waits for the locks. A completion that commits during
  the wait normally changes the enrollment row, and the lock then fails. But
  when the projection row is missing, the completion changes no enrollment row
  (`store.go:304-311` joins the missing row), the lock succeeds, and the repair
  writes the count without the completion.
- `readers`. `0005_progress.up.sql:3` says "readers never see drift". The two
  statements of `loadEnrollmentProgress` are two snapshots; a completion between
  them shows more lessons completed than counted. `CountNeverAhead` is what does
  hold: never fewer.
- `flags`. `eligibility.go:57-58` says that "a per-credential valid flag can
  never disagree with the overall eligibility decision." With no edit at all,
  midnight passing after `TakeNow` is enough: a coach's credential issued on the
  new day is in effect for the SQL filter, so the member is eligible, while
  `Build` finds it issued after `Now` and lists it as not valid.
  `FlagsExplainDecision` is what does hold: undisturbed, they agree.
Deadlock is checked in every run but `rollout` and `service`: a state in which
nothing can happen, with PostgreSQL's detector in the model, would be an error.
In those two the system really stops when all its processes are gone; that
nobody waits for ever before that is what their liveness properties say.

Two more statements of the repository are not so, and follow from the model
without a run of their own. `store_test.go:256` says "The next completion
recreates the projection from the event log", but `CompleteProject` only updates
the row. `docs/glossary.md:72-73` calls a login transaction "Single-use", but it
is deleted by a response (`session.ts:92`), and until that arrives another
callback carries it again; `OneSessionPerCode` is what does hold.

Bounds, beyond the sizes of the sets: `IdsLeft` starts an enrollment only while
an unused id is left for it; `MaxFaults` bounds the damage by hand; `Workload`
says which calls and commands an instance makes. In `Eligibility`, `LastDay`
bounds midnights and `MaxChanges` edits; one edit suffices for an edit between
any two statements, since every file is an initial one. In `SignIn` the sets of
logins and codes bound how many are begun and issued, and `LastTick` the clock.
In `Startup` each process starts once; in `Service` each request is sent once, and
`MaxChanges` bounds the changes of the member table.

Fairness. `FairSpec` assumes strong fairness of each process's progress: a
statement that can run does, and a transaction queued for a row lock is not
overtaken for ever, since PostgreSQL's lock queue is first come first served.
It assumes weak fairness of the deadlock detector, which `deadlock_timeout`
guarantees. It assumes nothing of callers, aborts or people.

`FairStartupSpec` assumes weak fairness of each process's progress: a session
executes what it is asked, PostgreSQL ends the session of a client that is gone,
and a process that starts goes on. The lock queue needs no more, since each
process takes the lock once. `FairSpec` of `Service` assumes the same of the
processes; of one that was told to stop, that it goes on with that, for
`Shutdown` has ten seconds and `Close` waits for calls that come back; and of
each request that it is served as connections come free. Weak fairness suffices
there too: `pgxpool` serves who waits in order, but the requests are few, and
a request that waits at a pool that stays busy waits for finitely many others.

## 4. Proofs

TLAPS proves, for any number of members, courses, lessons, requests and
operators, from the assumptions at the head of `LearningStore` (lessons are
finitely many and lie in courses; requests and operators are different
processes; `NoRow` is none of the values it stands for the absence of, the rows
of the log included: `LogRowAssumption`):

| Theorem | Statement |
| --- | --- |
| `Invariance` | `Spec => []IInv` |
| `TypeCorrect` | `Spec => []TypeOK` |
| `EnrollmentUnique` | `Spec => []OneEnrollment` |
| `NothingOutlives` | `Spec => []NoOrphans` |
| `CompletionRecordedOnce` | `Spec => []RecordedOnce` |
| `ProjectionCounts` | `Spec => []ProjectionFaithful` |
| `WithdrawalKept` | `Spec => WithdrawnStays` |
| `RepairsAreExact` | `"lose" \notin FaultKinds`: `Spec => RepairExact` |
| `DerivedInvariance` | `Spec => [](IInv /\ Derived)` |
| `PrefixesClosed` | `Spec => []PrefixClosed` |
| `ConstraintsNeverFire` | `Spec => []ChecksNeverFire` |
| `DriftIsReal` | `Spec => []NoFalseDrift` |
| `CompletionsDurable` | `Spec => []CompletionDurable` |
| `CountsNeverAhead` | `Spec => []CountNeverAhead` |
| `DeadlocksNeedCommands` | `Spec => []DeadlockNeedsCommands` |
| `LogImplemented` | `Spec => ImplementsLog` |

`RepairsAreExact` has a hypothesis because without it the statement is false:
that is the finding of `repair_race`.

The argument. None of these is inductive: that a completion's count is right at
its commit depends on what its lock excluded since it was computed. The
invariant has nine layers, each resting on those before it. The first five are
`IInv`, the others `Derived`.

1. *Control*: types, and what each control point says of a call's arguments.
2. *Locking*: which rows each control point has locked, that locks exclude each
   other, and that locked rows exist. A row locked by one process is changed by
   no other.
3. *Rows*: one enrollment per pair, no orphans, what each uncommitted write may
   be. A pending event is in no committed state, for its writer holds the lock.
4. *Withdrawal*: a completion past its checks works on a row not withdrawn; a
   plan agrees with every row not changed since its snapshot; a locked row has
   not changed since.
5. *Projecting*: pending projections count the events their transactions see,
   plans count the events of every enrollment not changed since the snapshot,
   and, while no projection has been touched by hand, neither has a committed
   one ceased to. The parts that need every enrollment to have a projection are
   stated under `Unlost`.
6. *Placing*: the lessons completed are of the enrollment's course, and what
   `CompletePlace` and `CompleteOrder` found is still so at the commit: the
   events before a lesson cannot go while the enrollment is locked. A reset locks
   the rows of the demo association only.
7. *Totals*: a projection never counts more than its total, in the table, in a
   pending write or in a plan, since what is counted are lessons of the course
   (layer 6, `CompletedFit`). And while no hand and no new lesson interferes, every
   total is the course's size, which with layer 5 leaves a plan nothing to repair.
8. *Answering*: after its commit a completion's event stays until its enrollment
   is deleted, and an id once used never comes back (`Persists`), so each of the
   two statements of the load finds the event or no enrollment, and the second
   counts no fewer events than the first had counted.
9. *Waiting*: an uncommitted insert of a projection row is the only write of that
   row, and what a repair has yet to rewrite is in its report, so locked.

Each layer's step lemma goes through the actions one by one; `Frame` says that
a step of one process leaves the others' part of the state alone, and
`TableSteps` that only commits and hands change tables.

`DeadlockNeedsCommands` follows from layers 2, 3 and 9. Of the requests, one
waits only for those further on (`WaitsFurther`): `EnrollInsert` for ones that
have inserted, `EnrollProject` for ones that have inserted or updated a
projection, `EnrollForeignKey` and `CompleteLock` for ones that have a row lock;
`CompleteInsert` would wait for another's uncommitted event and `CompleteProject`
for another's projection, and the row lock leaves neither; so requests make no
circle. One that has its row lock, or its foreign key
checked, waits for no command either (`LockedWaits`), for who writes a projection
has locked the enrollment. And a command waits for another, or for such a
request, unless an Enroll is inserting the projection of a row the command has
locked (`OperatorWaits`), which takes a lost projection. More cannot be said: TLC
finds a circle of two commands that lock in different orders, and after a
projection is lost one of a repair and an Enroll. `traffic` has one operator and
loses no projection, so there the property leaves no circle at all.

The refinement goes commit by commit: `EnrollCommit`, `CompleteCommit`,
`ResetCommit` and the hands on enrollments and lessons are each the step of
`ProgressLog` named for them, a repair changes no row as the log sees it (layer
4), and every other step leaves the mapped tables alone.

Layers 6 to 9 were found inductive on the instances of the runs (`handwork`,
`repair_race`, `traffic`, and with two operators) before they were proved.

For `Eligibility`, from `RowAssumption` and `BoundAssumption`, for any file and
any number of members, requests, edits and midnights:

| Theorem | Statement |
| --- | --- |
| `FileTypeCorrect` | `Spec => []TypeOK` |
| `ReadingsWitnessed` | `Spec => [](TypeOK /\ Witnessed)` |
| `EligibilityEarned` | `Spec => []EligibleWasEarned` |
| `RefusalJustified` | `Spec => []RefusalWasJustified` |
| `HoldsOverride` | `Spec => []HoldOverrides` |
| `ReadingsUndisturbed` | `Spec => [](TypeOK /\ SnapshotsKept /\ FlagsExplainDecision)` |
| `FlagsExplained` | `Spec => []FlagsExplainDecision` |
| `NextExpirationStands` | `Spec => []NextExpirationHolds` |

The first three decision properties speak of the moment of judgment only; `Witnessed`
says of each input, from the statement that read it on, that a current one was
met at an instant lived through (`Earned`) and one met at every instant is
current (`Justified`). The step that matters is `SomeDay`: the code compares a
row's beginning with the statement's date and its end with the request's
earlier one, and a row that passes both covers a day in between, which the
request has lived through unless the file moved too (`Watching`). The other two
are about requests during which nothing moved. `SnapshotsKept` says that what
such a request has read is what the file says today; `WeakestOnFileFacts`, that
the one date kept for all the roles is current exactly when each role has a
credential that is (`RolesCurrentMeans`). So the flags, computed row by row, and
the decision, computed from the dates, agree, and the earliest of the dates is
the last day on which every requirement is met (`NextStands`). That a set of
rows has a latest date is not proved (it is an induction over the set): `Latest`
is the set of the latest dates, and a statement picks one.

For `Admission`, from `AdmissionAssumption`, for any number of clients, requests,
slots, and any limit, window and headers:

| Theorem | Statement |
| --- | --- |
| `AdmissionTyped` | `Spec => [](TypeOK /\ SlotsExact)` |
| `TypesKept` | `Spec => []TypeOK` |
| `PassesAccounted` | `Spec => [](TypeOK /\ Limited /\ Accounted)` |
| `RateBounded` | `Spec => []AnyWindow` |
| `RefusalsEarned` | `Spec => RefusalIsEarned` |
| `ClientsForgotten` | `Spec => []OldClientsForgotten` |

`Limited` says that the limiter is reached only when there is a limit.
`Accounted` is inductive with it: the windows of a client are disjoint, the map
holds the one that has not ended, and the passes in it are numbered from 1 to its
count. From it the bound is a matter of counting. A stretch of `Window` ticks
meets at most two windows of a client. When it meets two, it contains no first
pass of the earlier one, unless it begins with it, and then it ends before the
later one begins; so it holds at most `Limit - 1` passes of the one and `Limit`
of the other, and numbering them is an injection into `1..2 * Limit - 1`. That a
client's window is its own is `ClientIsOrigin`: the last address of a header to
which the proxy has appended one is that one.

For `SignIn`, from `SignInAssumption`, for any number of browsers, logins, codes,
identities and requests at a time, and any lifetimes:

| Theorem | Statement |
| --- | --- |
| `SignInTyped` | `Spec => []TypeOK` |
| `TracesKept` | `Spec => []Traced` |
| `SessionsOwn` | `Spec => []SessionIsOwn` |
| `CodesMakeOneSession` | `Spec => []OneSessionPerCode` |
| `RedirectedCodesStay` | `Spec => RedirectsSpendAtHome` |
| `AloneUndisturbed` | `Spec => []Undisturbed` |
| `AloneSignsIn` | `Spec => SignsInAlone` |

`Traced` follows what is carried: a transaction, wherever it is, stands for a
login of the browser that has it; a code was issued for a login whose page was
reached; a call past `CallbackOpen` has the transaction of its URL's state, and
one that was granted tokens the transaction of its code's login. Who started a
login and what a code was issued for is settled once (`Settled`), so what is traced stays so. A session is then
its browser's own because a granted code has the login of the transaction.
`CodeStep` lists what a step can do to what is made of one code: nothing is
added, or it is spent by one call, or the response of the call that holds it
arrives; in each case one holder at most is left. `Undisturbed` says that in the
browser of an undisturbed login every other call is answered and leaves the
transaction alone, and that the codes of that login are with the provider, for
a call that spends one is of that browser, or takes it to another login's
transaction (`SpentWhere`), and such a call ended the login's being undisturbed
when it was sent (`DivertedDisturbed`).

For `Startup`, from `StartupAssumption`, for any number of processes, releases and
files:

| Theorem | Statement |
| --- | --- |
| `StartupInvariance` | `StartupSpec => []StartupInv` |
| `StartupTyped` | `StartupSpec => []StartupTypeOK` |
| `Overtaking` | `StartupSpec => []NobodyOvertakes` |
| `LedgerKept` | `StartupSpec => []LedgerExact` |
| `ClaimsUnique` | `StartupSpec => []ClaimedOnce` |
| `ServesComplete` | `StartupSpec => []ServesItsSchema` |
| `RolloutImplemented` | `StartupSpec => ImplementsRollout` |

That nobody overtakes is not inductive: it depends on a session having been told
that its file is missing while it held the lock. `StartupInv` says so. `LockHeld`:
a session past the lock holds it, whether its client lives or not. `Told`: the
files before the one a session stands at are in; its own is not, as long as it
may still install it; and if it was told that its file is found or committed, the
file is in and, for a commit not yet read, claimed by nobody. Only a session that
may install its file changes `schema`, and there is one at most, since it holds
the lock (`InstallersPast`, `SchemaChange`); what the others were told stays so
(`ToldOthers`). The steps of `Rollout` follow: a commit is `Install`, `Listen` is
`Up` for what `ServesItsSchema` says of a process about to listen, `Die` is `Down`.

For `Service`, from `StartupAssumption` and `ServiceAssumption`, for any number of
processes and requests, any tokens, members, roles given and pool:

| Theorem | Statement |
| --- | --- |
| `Deployed` | `Spec => StartupSpec` |
| `ServiceInvariance` | `Spec => []ServiceInv` |
| `ServiceTyped` | `Spec => []TypeOK` |
| `RolesDecideAlways` | `Spec => []RolesDecide` |
| `CutsHaveReasons` | `Spec => []CutForAReason` |
| `SchemaFound` | `Spec => []RequestsFindSchema` |

By `Deployed` everything proved of `Startup` holds of the service, and
`SchemaFound` is made of the two: a request is under way only at a process that
listens (`TypeOK`), and one that listens and migrates has its files
(`ServesComplete`). `RolesTraced` says of a request still to be decided that its
history covers the table as it is, and past the role check that it had the role;
each change of the table extends the histories (`WitnessStep`). `LeftOver` says
that requests are left while the store closes only when `Shutdown` ran out of
time, because it waits for every request, those that begin while it waits
included, and none begins once the store closes.

The inductive invariants (`IInv`, `Derived`, `Witnessed`, `SnapshotsKept`,
`Accounted`, `Traced`, `Undisturbed`, `StartupInv`, `ServiceInv`) and what they
alone need (`NoOrphans`, `OldClientsForgotten`, `ClaimedOnce`,
`ServesItsSchema`, `RequestsFindSchema`) are proved and not in any run.

Model-checked only: the liveness properties `EveryCallReturns`,
`EveryStartEnds`, `EveryRequestEnds` and `EveryDrainEnds`, which are out of the
prover's reach. Every invariant, action property and refinement that a passing
run checks is also proved. The properties of the three runs that are expected to
fail are false, and so not proved.

## 5. Not modelled, and the plan

Left out for good: rendering (`web/app` pages), `web/lib/api.ts`, configuration
parsing, token verification inside the OIDC and JOSE libraries, seed data, the
databases of tests (`testdb`), scripts and CI.

Next, in this order:

1. Proofs: the part of the liveness properties that is safety. A measure of each
   call's remaining steps that every step of its process lowers and no step of
   another raises, so that only enabledness and fairness are left to TLC.
2. The metadata cache of `web/lib/oidc.ts` and the session's lifetime clamp: with
   concurrent fetches, what is served is no older than the cache's lifetime and
   one fetch.
