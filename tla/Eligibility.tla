---------------------------- MODULE Eligibility ----------------------------
(***************************************************************************)
(* Participation eligibility: it is never stored, every request derives it  *)
(* from the safeguarding tables, one SQL statement after another            *)
(* (store.LoadSafeguardingInputs), each statement with the UTC date of its  *)
(* own now(), and judges the result at an instant the Go process took       *)
(* before all of them (safeguarding.Evaluate).  Three routes do so: the     *)
(* eligibility of one member, the credentials contract of one subject, and  *)
(* the compliance list of everybody.  Meanwhile people record and revise    *)
(* checks, trainings, credentials, roles and holds, delete members          *)
(* (external: SQL at a prompt), and midnight passes.                        *)
(*                                                                          *)
(* Time is a UTC date: an expiry date is valid to the end of its day, so    *)
(* now.Before(expires + 1 day) is now <= expires.                           *)
(***************************************************************************)
EXTENDS Naturals

CONSTANTS
    Members, CredentialRoles,    \* people; the roles that need a credential
    RoleRows, CheckRows,         \* the rows that may ever be on file
    TrainingRows, CredentialRows, HoldRows,
    Requests, Workload,          \* processes; the routes an instance uses
    LastDay, MaxChanges,         \* bounds on midnights and on edits of the file
    NoDate                       \* a nil *time.Time, SQL null

Term == [from : Nat, to : Nat]
Statuses == {"approved", "pending", "rejected"}
CheckRow == [member : Members, status : Statuses, from : Nat, to : Nat]
TrainingRow == [member : Members, from : Nat, to : Nat]
CredentialRow == [member : Members, role : CredentialRoles, from : Nat, to : Nat]
HoldRow == [member : Members, placed : Nat]

(* The columns, and the check constraints on the order of their dates.      *)
ASSUME RowAssumption ==
    /\ RoleRows \subseteq Members \X CredentialRoles
    /\ CheckRows \subseteq CheckRow /\ TrainingRows \subseteq TrainingRow
    /\ CredentialRows \subseteq CredentialRow /\ HoldRows \subseteq HoldRow
    /\ \A r \in CheckRows \cup TrainingRows \cup CredentialRows : r.from <= r.to

ASSUME BoundAssumption ==
    /\ LastDay \in Nat /\ MaxChanges \in Nat /\ NoDate \notin Nat
    /\ CredentialRoles \cap {"hold", "check", "training"} = {}

VARIABLES
    today,          \* the UTC date, for the Go process and for PostgreSQL
    members, roles, checks, trainings, credentials, holds, lifted,   \* tables
    changes,        \* edits of the file so far
    pc, arg,        \* where a request is, and for whom
    todo,           \* members the compliance list has still to judge
    inputs, out,    \* safeguarding.Inputs being gathered; the answer
    ever, always,   \* history: requirements met at some, at every instant
    moved           \* history: what changed since the request began

file == <<members, roles, checks, trainings, credentials, holds, lifted>>
world == <<today, file, changes>>
request == <<pc, arg, todo, inputs, out>>
memory == <<ever, always, moved>>
vars == <<world, request, memory>>

----------------------------------------------------------------------------
(* What the rule asks for, day by day: domain-model.md, section 4.          *)

Requirements == {"hold", "check", "training"} \cup CredentialRoles
Covers(r, m, d) == r.member = m /\ r.from <= d /\ d <= r.to
ActiveHolds(m, d) == {h \in holds \ lifted : h.member = m /\ h.placed <= d}
RequiredRoles(m) == {role \in CredentialRoles : <<m, role>> \in roles}

MetOn(m, d) ==
    {q \in Requirements :
        /\ q = "hold" => ActiveHolds(m, d) = {}
        /\ q = "check" => \E r \in checks : r.status = "approved" /\ Covers(r, m, d)
        /\ q = "training" => \E r \in trainings : Covers(r, m, d)
        /\ q \in RequiredRoles(m) =>
               \E r \in credentials : r.role = q /\ Covers(r, m, d)}

----------------------------------------------------------------------------
(* The rule as the code computes it *)

(* max(expires_at): the latest date of a table's rows, null when it has none. *)
Latest(rows) ==
    IF rows = {} THEN {NoDate}
    ELSE {d \in {r.to : r \in rows} : \A r \in rows : r.to <= d}

(* The earliest of some dates that are not nil. *)
Earliest(dates) ==
    LET D == dates \ {NoDate}
    IN  IF D = {} THEN {NoDate} ELSE {d \in D : \A e \in D : d <= e}

(* One role without a credential is "missing"; else the earliest counts. *)
WeakestLink(dates) == IF NoDate \in dates THEN {NoDate} ELSE Earliest(dates)

(* Mutant: the expiry day itself is no longer valid. *)
CurrentExclusive(now, expires, graceDays) ==
    expires # NoDate /\ now < expires + graceDays

Current(now, expires, graceDays) ==
    expires # NoDate /\ now <= expires + graceDays

(* Mutant: credentials are looked at before holds. *)
EvaluateHoldLast(in) ==
    IF \/ ~ Current(in.now, in.training, in.graceDays)
       \/ ~ Current(in.now, in.check, in.graceDays)
       \/ in.required /\ ~ Current(in.now, in.role, in.graceDays)
    THEN "ineligible_lapsed"
    ELSE IF in.holds # {} THEN "suspended" ELSE "eligible"

Evaluate(in) ==
    IF in.holds # {} THEN "suspended"
    ELSE IF /\ Current(in.now, in.training, in.graceDays)
            /\ Current(in.now, in.check, in.graceDays)
            /\ in.required => Current(in.now, in.role, in.graceDays)
         THEN "eligible"
    ELSE "ineligible_lapsed"

(* Mutant: the role credential is left out. *)
NextExpirationNoRole(in) == Earliest({in.check, in.training})

(* NextExpiration of the compliance list. *)
NextExpiration(in) == Earliest({in.check, in.training, in.role})

----------------------------------------------------------------------------
(* Requests *)

Reading == {"resolve", "load", "member", "check", "training", "hold", "role"}
NoArg == [op |-> "none", member |-> NoDate]
NoInputs == [now |-> 0, check |-> NoDate, training |-> NoDate, holds |-> {},
             required |-> FALSE, role |-> NoDate, graceDays |-> 0]
NoAnswer == [kind |-> "none", roles |-> {}, decisions |-> {}, listed |-> {},
             check |-> FALSE, training |-> FALSE]

Goto(p, label) == pc' = [pc EXCEPT ![p] = label]

(* A request turns to member m: its history begins. *)
TurnTo(p, op, m, label) ==
    /\ Goto(p, label)
    /\ arg' = [arg EXCEPT ![p] = [op |-> op, member |-> m]]
    /\ ever' = [ever EXCEPT ![p] = MetOn(m, today)]
    /\ always' = [always EXCEPT ![p] = MetOn(m, today)]
    /\ moved' = [moved EXCEPT ![p] = {}]

Answer(p, answer) ==
    /\ Goto(p, "replied")
    /\ out' = [out EXCEPT ![p] = answer]

(* One more statement ran, and set the inputs. *)
Gather(p, in, label) ==
    /\ inputs' = [inputs EXCEPT ![p] = in]
    /\ Goto(p, label)
    /\ UNCHANGED <<world, arg, todo, out, memory>>

(* The caller takes the answer, or a statement fails: 500, or the client    *)
(* is gone.  One member that cannot be judged fails the whole list.         *)
Return(p) ==
    /\ pc[p] # "idle"
    /\ Goto(p, "idle")
    /\ arg' = [arg EXCEPT ![p] = NoArg] /\ todo' = [todo EXCEPT ![p] = {}]
    /\ inputs' = [inputs EXCEPT ![p] = NoInputs]
    /\ out' = [out EXCEPT ![p] = NoAnswer]
    /\ ever' = [ever EXCEPT ![p] = {}] /\ always' = [always EXCEPT ![p] = {}]
    /\ moved' = [moved EXCEPT ![p] = {}]
    /\ UNCHANGED world

EligibilityBegin(p, m) ==
    /\ pc[p] = "idle"
    /\ TurnTo(p, "eligibility", m, "load")
    /\ UNCHANGED <<world, todo, inputs, out>>

CredentialsBegin(p, m) ==
    /\ pc[p] = "idle"
    /\ TurnTo(p, "credentials", m, "resolve")
    /\ UNCHANGED <<world, todo, inputs, out>>

(* The first statement of ListCompliance: who there is. *)
ComplianceBegin(p) ==
    /\ pc[p] = "idle"
    /\ IF members = {}
       THEN /\ Answer(p, [NoAnswer EXCEPT !.kind = "ok"])
            /\ UNCHANGED <<arg, todo, memory>>
       ELSE /\ \E m \in members :
                 /\ TurnTo(p, "compliance", m, "load")
                 /\ todo' = [todo EXCEPT ![p] = members \ {m}]
            /\ UNCHANGED out
    /\ UNCHANGED <<world, inputs>>

(* ResolveMemberBySubject: a member's subject is unique and never changes.  *)
Resolve(p) ==
    /\ pc[p] = "resolve"
    /\ IF arg[p].member \notin members
       THEN Answer(p, [NoAnswer EXCEPT !.kind = "not_found"])
       ELSE /\ out' = [out EXCEPT ![p].roles = RequiredRoles(arg[p].member)]
            /\ Goto(p, "load")
    /\ UNCHANGED <<world, arg, todo, inputs, memory>>

(* Inputs{Now: time.Now().UTC()}: nothing but the clock is read here. *)
TakeNow(p) ==
    /\ pc[p] = "load"
    /\ Gather(p, [NoInputs EXCEPT !.now = today], "member")

FindMember(p) ==
    /\ pc[p] = "member"
    /\ IF arg[p].member \notin members
       THEN Answer(p, [NoAnswer EXCEPT !.kind = "not_found"])
       ELSE Goto(p, "check") /\ UNCHANGED out
    /\ UNCHANGED <<world, arg, todo, inputs, memory>>

(* Mutant: checks that are not yet in effect count. *)
ReadFutureCheck(p) ==
    /\ pc[p] = "check"
    /\ \E d \in Latest({r \in checks : r.member = arg[p].member /\ r.status = "approved"}) :
           Gather(p, [inputs[p] EXCEPT !.check = d], "training")

ReadChecks(p) ==
    /\ pc[p] = "check"
    /\ \E d \in Latest({r \in checks : /\ r.member = arg[p].member
                                       /\ r.status = "approved"
                                       /\ r.from <= today}) :
           Gather(p, [inputs[p] EXCEPT !.check = d], "training")

ReadTrainings(p) ==
    /\ pc[p] = "training"
    /\ \E d \in Latest({r \in trainings : r.member = arg[p].member /\ r.from <= today}) :
           Gather(p, [inputs[p] EXCEPT !.training = d], "hold")

ReadHolds(p) ==
    /\ pc[p] = "hold"
    /\ Gather(p, [inputs[p] EXCEPT !.holds = ActiveHolds(arg[p].member, today)], "role")

(* Credentials in effect for a role that needs one. *)
OwnCredentials(m, role) ==
    {r \in credentials : r.member = m /\ r.role = role /\ r.from <= today}
Expiries == {r.to : r \in CredentialRows} \cup {NoDate}

(* The latest credential of each such role; the weakest of them decides.    *)
ReadRoles(p) ==
    LET m == arg[p].member
        due == RequiredRoles(m)
    IN  /\ pc[p] = "role"
        /\ \E latest \in [due -> Expiries] :
             /\ \A role \in due : latest[role] \in Latest(OwnCredentials(m, role))
             /\ \E d \in WeakestLink({latest[role] : role \in due}) :
                  Gather(p, [inputs[p] EXCEPT !.required = due # {}, !.role = d], "judged")

Decision(p, next) ==
    [member |-> arg[p].member, status |-> Evaluate(inputs[p]), next |-> next]

(* handleEligibility, and the body of ListCompliance's loop. *)
Judge(p) ==
    /\ pc[p] = "judged" /\ arg[p].op # "credentials"
    /\ \E d \in IF arg[p].op = "compliance" THEN NextExpiration(inputs[p]) ELSE {NoDate} :
         LET decided == [out[p] EXCEPT !.decisions = @ \cup {Decision(p, d)}]
         IN  IF todo[p] = {}
             THEN /\ Answer(p, [decided EXCEPT !.kind = "ok"])
                  /\ UNCHANGED <<arg, todo, memory>>
             ELSE /\ \E m \in todo[p] :
                       /\ TurnTo(p, arg[p].op, m, "load")
                       /\ todo' = [todo EXCEPT ![p] = @ \ {m}]
                  /\ out' = [out EXCEPT ![p] = decided]
    /\ UNCHANGED <<world, inputs>>

(* Mutant: a listed credential is valid until it expires. *)
BuildWithoutStart(p, rows) ==
    LET in == inputs[p]
        valid(r) == Current(in.now, r.to, in.graceDays)
    IN  [out[p] EXCEPT !.kind = "ok",
            !.listed = {[row |-> r, valid |-> valid(r)] : r \in rows},
            !.decisions = {Decision(p, NoDate)},
            !.check = Current(in.now, in.check, in.graceDays),
            !.training = Current(in.now, in.training, in.graceDays)]

(* credentials.Build, with expiringFact for check and training. *)
Build(p, rows) ==
    LET in == inputs[p]
        valid(r) == r.from <= in.now /\ Current(in.now, r.to, in.graceDays)
    IN  [out[p] EXCEPT !.kind = "ok",
            !.listed = {[row |-> r, valid |-> valid(r)] : r \in rows},
            !.decisions = {Decision(p, NoDate)},
            !.check = Current(in.now, in.check, in.graceDays),
            !.training = Current(in.now, in.training, in.graceDays)]

(* The last statement of LoadMemberCredentials, then Build. *)
ListCredentials(p) ==
    /\ pc[p] = "judged" /\ arg[p].op = "credentials"
    /\ Answer(p, Build(p, {r \in credentials : r.member = arg[p].member}))
    /\ UNCHANGED <<world, arg, todo, inputs, memory>>

----------------------------------------------------------------------------
(* Time and the file (external) *)

(* What every request under way lives through. *)
Remember(what) ==
    /\ UNCHANGED request
    /\ ever' = [p \in Requests |->
                  IF pc[p] \in Reading
                  THEN ever[p] \cup MetOn(arg[p].member, today)' ELSE ever[p]]
    /\ always' = [p \in Requests |->
                  IF pc[p] \in Reading
                  THEN always[p] \cap MetOn(arg[p].member, today)' ELSE always[p]]
    /\ moved' = [p \in Requests |->
                  IF pc[p] \in {"idle", "replied"} THEN moved[p] ELSE moved[p] \cup {what}]

Midnight ==
    /\ today < LastDay
    /\ today' = today + 1
    /\ UNCHANGED <<file, changes>>
    /\ Remember("date")

Edit == changes < MaxChanges /\ changes' = changes + 1 /\ UNCHANGED today

(* A row is filed, or one on file is taken back. *)
Flip(rows, r) == (rows \ {r}) \cup ({r} \ rows)

EditChecks(r) ==
    /\ Edit /\ r.member \in members
    /\ checks' = Flip(checks, r)
    /\ UNCHANGED <<members, roles, trainings, credentials, holds, lifted>>
    /\ Remember("file")

EditTrainings(r) ==
    /\ Edit /\ r.member \in members
    /\ trainings' = Flip(trainings, r)
    /\ UNCHANGED <<members, roles, checks, credentials, holds, lifted>>
    /\ Remember("file")

EditCredentials(r) ==
    /\ Edit /\ r.member \in members
    /\ credentials' = Flip(credentials, r)
    /\ UNCHANGED <<members, roles, checks, trainings, holds, lifted>>
    /\ Remember("file")

EditRoles(m, role) ==
    /\ Edit /\ m \in members /\ <<m, role>> \in RoleRows
    /\ roles' = Flip(roles, <<m, role>>)
    /\ UNCHANGED <<members, checks, trainings, credentials, holds, lifted>>
    /\ Remember("file")

PlaceHold(h) ==
    /\ Edit /\ h.member \in members /\ h \notin holds
    /\ holds' = holds \cup {h}
    /\ UNCHANGED <<members, roles, checks, trainings, credentials, lifted>>
    /\ Remember("file")

LiftHold(h) ==
    /\ Edit /\ h \in holds \ lifted
    /\ lifted' = lifted \cup {h}
    /\ UNCHANGED <<members, roles, checks, trainings, credentials, holds>>
    /\ Remember("file")

(* Mutant: member_role does not cascade. *)
DeleteMemberKeepsRoles(m) ==
    LET others(rows) == {r \in rows : r.member # m}
    IN  /\ Edit /\ m \in members
        /\ members' = members \ {m}
        /\ checks' = others(checks) /\ trainings' = others(trainings)
        /\ credentials' = others(credentials)
        /\ holds' = others(holds) /\ lifted' = others(lifted)
        /\ UNCHANGED roles
        /\ Remember("file")

(* Every safeguarding row references its member on delete cascade. *)
DeleteMember(m) ==
    LET others(rows) == {r \in rows : r.member # m}
    IN  /\ Edit /\ m \in members
        /\ members' = members \ {m}
        /\ roles' = {r \in roles : r[1] # m}
        /\ checks' = others(checks) /\ trainings' = others(trainings)
        /\ credentials' = others(credentials)
        /\ holds' = others(holds) /\ lifted' = others(lifted)
        /\ Remember("file")

----------------------------------------------------------------------------

Init ==
    /\ today = 0 /\ changes = 0
    /\ members = Members /\ roles \in SUBSET RoleRows
    /\ checks \in SUBSET CheckRows /\ trainings \in SUBSET TrainingRows
    /\ credentials \in SUBSET CredentialRows
    /\ holds \in SUBSET HoldRows /\ lifted = {}
    /\ pc = [p \in Requests |-> "idle"] /\ arg = [p \in Requests |-> NoArg]
    /\ todo = [p \in Requests |-> {}]
    /\ inputs = [p \in Requests |-> NoInputs] /\ out = [p \in Requests |-> NoAnswer]
    /\ ever = [p \in Requests |-> {}] /\ always = [p \in Requests |-> {}]
    /\ moved = [p \in Requests |-> {}]

Call(p) ==
    \/ "eligibility" \in Workload /\ \E m \in Members : EligibilityBegin(p, m)
    \/ "credentials" \in Workload /\ \E m \in Members : CredentialsBegin(p, m)
    \/ "compliance" \in Workload /\ ComplianceBegin(p)

Statement(p) ==
    \/ Resolve(p) \/ TakeNow(p) \/ FindMember(p) \/ ReadChecks(p)
    \/ ReadTrainings(p) \/ ReadHolds(p) \/ ReadRoles(p) \/ Judge(p)
    \/ ListCredentials(p)

Paperwork ==
    \/ \E r \in CheckRows : EditChecks(r)
    \/ \E r \in TrainingRows : EditTrainings(r)
    \/ \E r \in CredentialRows : EditCredentials(r)
    \/ \E m \in Members, role \in CredentialRoles : EditRoles(m, role)
    \/ \E h \in HoldRows : PlaceHold(h) \/ LiftHold(h)
    \/ \E m \in Members : DeleteMember(m)

Next ==
    \/ \E p \in Requests : Call(p) \/ Statement(p) \/ Return(p)
    \/ Midnight
    \/ Paperwork

Spec == Init /\ [][Next]_vars

=============================================================================
