------------------------- MODULE EligibilityProps -------------------------
(***************************************************************************)
(* The properties of Eligibility: a decision read in several statements     *)
(* against what was true meanwhile.                                         *)
(***************************************************************************)
EXTENDS Eligibility

Dates == Nat \cup {NoDate}
Inputs == [now : Nat, check : Dates, training : Dates, holds : SUBSET HoldRow,
           required : BOOLEAN, role : Dates, graceDays : {0}]
DecisionRow == [member : Members, next : Dates,
             status : {"eligible", "suspended", "ineligible_lapsed"}]
AnswerType == [kind : {"none", "ok", "not_found"}, roles : SUBSET CredentialRoles,
               decisions : SUBSET DecisionRow,
               listed : SUBSET [row : CredentialRow, valid : BOOLEAN],
               check : BOOLEAN, training : BOOLEAN]

(* The tables hold rows of their columns' types and nothing of members that *)
(* are gone; requests hold the values the Go variables can hold.            *)
TypeOK ==
    /\ today \in Nat /\ changes \in Nat
    /\ members \subseteq Members /\ roles \subseteq members \X CredentialRoles
    /\ checks \subseteq CheckRows /\ trainings \subseteq TrainingRows
    /\ credentials \subseteq CredentialRows
    /\ holds \subseteq HoldRows /\ lifted \subseteq holds
    /\ pc \in [Requests -> Reading \cup {"idle", "judged", "replied"}]
    /\ arg \in [Requests -> [op : {"none", "eligibility", "credentials", "compliance"},
                             member : Members \cup {NoDate}]]
    /\ \A p \in Requests : pc[p] \in Reading \cup {"judged"} =>
           arg[p].op # "none" /\ arg[p].member \in Members
    /\ todo \in [Requests -> SUBSET Members]
    /\ inputs \in [Requests -> Inputs] /\ out \in [Requests -> AnswerType]
    /\ ever \in [Requests -> SUBSET Requirements]
    /\ always \in [Requests -> SUBSET Requirements]
    /\ moved \in [Requests -> SUBSET {"date", "file"}]

Decided(p, status) == pc[p] = "judged" /\ Evaluate(inputs[p]) = status

(* Nobody is called eligible without having earned it: each requirement was *)
(* met at some instant of the request, although the statements that looked  *)
(* at them are not one snapshot.  (When the file changes and midnight       *)
(* passes both, a row filed after midnight for the day before is an         *)
(* exception: it was never in effect while on file.)                        *)
EligibleWasEarned ==
    \A p \in Requests :
        Decided(p, "eligible") /\ moved[p] # {"date", "file"} =>
            Requirements \subseteq ever[p]

(* Nobody is refused unjustly: who is called lapsed missed a requirement at *)
(* some instant of the request, who is called suspended was under a hold.   *)
RefusalWasJustified ==
    \A p \in Requests :
        /\ Decided(p, "ineligible_lapsed") => ~ (Requirements \ {"hold"} \subseteq always[p])
        /\ Decided(p, "suspended") => "hold" \notin always[p]

(* A hold overrides everything: with one in force all along, the answer is  *)
(* "suspended", whatever is missing or expires meanwhile.                   *)
HoldOverrides ==
    \A p \in Requests :
        pc[p] = "judged" /\ "hold" \notin ever[p] => Decided(p, "suspended")

(* NextExpiration is the day the decision stands to: by the rows in effect  *)
(* today, every credential requirement is met through it, and one of them   *)
(* is not the day after.                                                    *)
MetFromToday(m, d) ==
    LET held(rows) == {r \in rows : r.member = m /\ r.from <= today /\ d <= r.to}
    IN  /\ \E r \in held(checks) : r.status = "approved"
        /\ held(trainings) # {}
        /\ \A role \in RequiredRoles(m) : \E r \in held(credentials) : r.role = role

NextExpirationHolds ==
    \A p \in Requests :
        Decided(p, "eligible") /\ moved[p] = {} =>
            \A next \in NextExpiration(inputs[p]) :
                /\ MetFromToday(arg[p].member, next)
                /\ ~ MetFromToday(arg[p].member, next + 1)

(* What the flags of a credentials answer say about each role the record    *)
(* lists, and about the rest.                                               *)
Credentialed(p) == pc[p] = "replied" /\ arg[p].op = "credentials" /\ out[p].kind = "ok"
SaysEligible(p) == \E row \in out[p].decisions : row.status = "eligible"
AllValid(p) ==
    /\ out[p].check /\ out[p].training
    /\ \A role \in out[p].roles : \E c \in out[p].listed : c.row.role = role /\ c.valid

(* While neither the file nor the date moves, the contract calls a member   *)
(* eligible exactly when it shows no hold and a valid credential for every  *)
(* requirement, though decision and flags come from different queries.      *)
FlagsExplainDecision ==
    \A p \in Requests :
        Credentialed(p) /\ moved[p] = {} =>
            (SaysEligible(p) <=> inputs[p].holds = {} /\ AllValid(p))

(* A per-credential valid flag never disagrees with the overall decision.   *)
FlagsNeverDisagree ==
    \A p \in Requests : Credentialed(p) /\ SaysEligible(p) => AllValid(p)

----------------------------------------------------------------------------
(* The strengthening of the three decision properties that is inductive:    *)
(* what a request has read so far, against what it has lived through.       *)

AfterRole == {"judged"}
AfterHold == {"role"} \cup AfterRole
AfterTraining == {"hold"} \cup AfterHold
AfterCheck == {"training"} \cup AfterTraining
AfterNow == {"member", "check"} \cup AfterCheck

RolesCurrent(in) == in.required => Current(in.now, in.role, in.graceDays)

(* The history of a request under way holds the present instant; its own    *)
(* clock is not ahead, and only behind when midnight has passed; while the  *)
(* file has not moved, every day since then has been lived through.         *)
Watching(p) ==
    /\ pc[p] \in Reading =>
         /\ MetOn(arg[p].member, today) \subseteq ever[p]
         /\ always[p] \subseteq MetOn(arg[p].member, today)
    /\ pc[p] \in Reading \cap AfterNow =>
         /\ inputs[p].now <= today
         /\ "date" \notin moved[p] => inputs[p].now = today
         /\ "file" \notin moved[p] =>
              \A d \in inputs[p].now..today : MetOn(arg[p].member, d) \subseteq ever[p]

(* What has been found current was met at some instant. *)
Earned(p) ==
    LET in == inputs[p]
    IN  /\ pc[p] \in AfterHold /\ in.holds = {} => "hold" \in ever[p]
        /\ moved[p] # {"date", "file"} =>
             /\ pc[p] \in AfterCheck /\ Current(in.now, in.check, in.graceDays)
                    => "check" \in ever[p]
             /\ pc[p] \in AfterTraining /\ Current(in.now, in.training, in.graceDays)
                    => "training" \in ever[p]
             /\ pc[p] \in AfterRole /\ RolesCurrent(in) => CredentialRoles \subseteq ever[p]

(* What was met at every instant has been found current. *)
Justified(p) ==
    LET in == inputs[p]
    IN  /\ pc[p] \in AfterHold /\ "hold" \in always[p] => in.holds = {}
        /\ pc[p] \in AfterCheck /\ "check" \in always[p]
               => Current(in.now, in.check, in.graceDays)
        /\ pc[p] \in AfterTraining /\ "training" \in always[p]
               => Current(in.now, in.training, in.graceDays)
        /\ pc[p] \in AfterRole /\ CredentialRoles \subseteq always[p] => RolesCurrent(in)

Witnessed == \A p \in Requests : Watching(p) /\ Earned(p) /\ Justified(p)

----------------------------------------------------------------------------
(* The strengthening of NextExpirationHolds and FlagsExplainDecision: while *)
(* neither the file nor the date has moved, what a request has read is what *)
(* the file still says today.                                               *)

(* The one date each query keeps. *)
CheckOnFile(m, d) ==
    d \in Latest({r \in checks : /\ r.member = m /\ r.status = "approved" /\ r.from <= today})
TrainingOnFile(m, d) ==
    d \in Latest({r \in trainings : r.member = m /\ r.from <= today})
WeakestOnFile(m, d) ==
    \E latest \in [RequiredRoles(m) -> Expiries] :
        /\ \A role \in RequiredRoles(m) : latest[role] \in Latest(OwnCredentials(m, role))
        /\ d \in WeakestLink({latest[role] : role \in RequiredRoles(m)})

Snapshot(p) ==
    LET in == inputs[p]
        m == arg[p].member
    IN  /\ pc[p] \in {"load"} \cup AfterNow /\ arg[p].op = "credentials" =>
             out[p].roles = RequiredRoles(m)
        /\ pc[p] \in AfterNow => in.now = today
        /\ pc[p] \in AfterCheck => CheckOnFile(m, in.check)
        /\ pc[p] \in AfterTraining => TrainingOnFile(m, in.training)
        /\ pc[p] \in AfterRole =>
             in.required = (RequiredRoles(m) # {}) /\ WeakestOnFile(m, in.role)

SnapshotsKept == \A p \in Requests : moved[p] = {} => Snapshot(p)

=============================================================================
