------------------------ MODULE EligibilityTheorems ------------------------
(***************************************************************************)
(* Proofs about Eligibility: for any file, any number of requests, members  *)
(* and midnights, a decision is witnessed by what was true meanwhile; and   *)
(* while nothing moves, it is what its flags and its next date say.         *)
(***************************************************************************)
EXTENDS EligibilityProps, TLAPS

----------------------------------------------------------------------------
(* Dates *)

(* The latest expiry of some rows is null only when there are none, is the  *)
(* expiry of one of them, and not before that of any.                       *)
LEMMA LatestFacts ==
    ASSUME NEW rows, \A r \in rows : r.to \in Nat, NEW d \in Latest(rows)
    PROVE  /\ d = NoDate <=> rows = {}
           /\ rows # {} => /\ d \in Nat
                           /\ \E r \in rows : r.to = d
                           /\ \A r \in rows : r.to <= d
<1>1. CASE rows = {}
  BY <1>1 DEF Latest
<1>2. CASE rows # {}
  <2>1. d \in {r.to : r \in rows} /\ \A r \in rows : r.to <= d
    BY <1>2 DEF Latest
  <2>2. PICK r \in rows : r.to = d
    BY <2>1
  <2>3. d \in Nat /\ d # NoDate
    BY <2>2, BoundAssumption
  <2> QED BY <1>2, <2>1, <2>2, <2>3
<1> QED BY <1>1, <1>2

LEMMA LatestDates ==
    ASSUME NEW rows, \A r \in rows : r.to \in Nat, NEW d \in Latest(rows)
    PROVE  d \in Dates
BY LatestFacts DEF Dates

(* The weakest link is null when a role has no credential, and otherwise a  *)
(* date that no role's credential ends before.                              *)
LEMMA WeakestFacts ==
    ASSUME NEW dates \in SUBSET Dates, NEW d \in WeakestLink(dates)
    PROVE  /\ d \in Dates
           /\ NoDate \in dates => d = NoDate
           /\ NoDate \notin dates /\ dates # {} =>
                d \in dates /\ \A e \in dates : d <= e
BY BoundAssumption DEF WeakestLink, Earliest, Dates

----------------------------------------------------------------------------
(* Types *)

LEMMA RowFacts ==
    ASSUME TypeOK
    PROVE  /\ \A r \in checks : r \in CheckRow /\ r.from \in Nat /\ r.to \in Nat
           /\ \A r \in trainings : r \in TrainingRow /\ r.from \in Nat /\ r.to \in Nat
           /\ \A r \in credentials : r \in CredentialRow /\ r.from \in Nat /\ r.to \in Nat
           /\ \A h \in holds : h \in HoldRow /\ h.placed \in Nat
<1>1. \A r \in checks : r \in CheckRow
  BY RowAssumption DEF TypeOK
<1>2. \A r \in trainings : r \in TrainingRow
  BY RowAssumption DEF TypeOK
<1>3. \A r \in credentials : r \in CredentialRow
  BY RowAssumption DEF TypeOK
<1>4. \A h \in holds : h \in HoldRow
  BY RowAssumption DEF TypeOK
<1> QED BY <1>1, <1>2, <1>3, <1>4 DEF CheckRow, TrainingRow, CredentialRow, HoldRow

LEMMA TypeInit == Init => TypeOK
<1> SUFFICES ASSUME Init PROVE TypeOK
  OBVIOUS
<1>1. NoInputs \in Inputs
  BY DEF NoInputs, Inputs, Dates
<1>2. NoAnswer \in AnswerType
  BY DEF NoAnswer, AnswerType
<1>3. NoArg \in [op : {"none", "eligibility", "credentials", "compliance"},
                 member : Members \cup {NoDate}]
  BY DEF NoArg
<1>4. roles \subseteq members \X CredentialRoles
  BY RowAssumption DEF Init
<1> QED BY <1>1, <1>2, <1>3, <1>4 DEF Init, TypeOK, Reading

(* The variables of requests keep their types when a request turns to a     *)
(* member, answers, or gathers what a statement returned.                   *)
RequestTypes ==
    /\ pc \in [Requests -> Reading \cup {"idle", "judged", "replied"}]
    /\ arg \in [Requests -> [op : {"none", "eligibility", "credentials", "compliance"},
                             member : Members \cup {NoDate}]]
    /\ \A p \in Requests : pc[p] \in Reading \cup {"judged"} =>
           arg[p].op # "none" /\ arg[p].member \in Members
    /\ todo \in [Requests -> SUBSET Members]
    /\ inputs \in [Requests -> Inputs] /\ out \in [Requests -> AnswerType]
MemoryTypes ==
    /\ ever \in [Requests -> SUBSET Requirements]
    /\ always \in [Requests -> SUBSET Requirements]
    /\ moved \in [Requests -> SUBSET {"date", "file"}]
WorldTypes ==
    /\ today \in Nat /\ changes \in Nat
    /\ members \subseteq Members /\ roles \subseteq members \X CredentialRoles
    /\ checks \subseteq CheckRows /\ trainings \subseteq TrainingRows
    /\ credentials \subseteq CredentialRows
    /\ holds \subseteq HoldRows /\ lifted \subseteq holds

LEMMA TypeParts == TypeOK <=> WorldTypes /\ RequestTypes /\ MemoryTypes
BY DEF TypeOK, WorldTypes, RequestTypes, MemoryTypes

LEMMA WorldFrame == ASSUME WorldTypes, UNCHANGED world PROVE WorldTypes'
BY DEF WorldTypes, world, file

LEMMA MemoryFrame == ASSUME MemoryTypes, UNCHANGED memory PROVE MemoryTypes'
BY DEF MemoryTypes, memory

LEMMA MetTypes == \A m, d : MetOn(m, d) \subseteq Requirements
BY DEF MetOn

LEMMA TurnToTypes ==
    ASSUME MemoryTypes, RequestTypes, NEW p \in Requests, NEW m \in Members,
           NEW op \in {"eligibility", "credentials", "compliance"},
           NEW label \in Reading, TurnTo(p, op, m, label)
    PROVE  /\ MemoryTypes'
           /\ pc' \in [Requests -> Reading \cup {"idle", "judged", "replied"}]
           /\ arg' \in [Requests -> [op : {"none", "eligibility", "credentials", "compliance"},
                                     member : Members \cup {NoDate}]]
           /\ \A q \in Requests : pc'[q] \in Reading \cup {"judged"} =>
                  arg'[q].op # "none" /\ arg'[q].member \in Members
BY MetTypes DEF MemoryTypes, RequestTypes, TurnTo, Goto

LEMMA GatherTypes ==
    ASSUME TypeOK, NEW p \in Requests, pc[p] \in Reading, NEW in \in Inputs,
           NEW label \in Reading \cup {"judged"}, Gather(p, in, label)
    PROVE  TypeOK'
<1>1. WorldTypes /\ RequestTypes /\ MemoryTypes
  BY TypeParts
<1>2. WorldTypes' /\ MemoryTypes'
  BY <1>1, WorldFrame, MemoryFrame DEF Gather
<1>3. RequestTypes'
  BY <1>1 DEF Gather, Goto, RequestTypes
<1> QED BY <1>2, <1>3 DEF TypeOK, WorldTypes, RequestTypes, MemoryTypes

LEMMA AnswerTypes ==
    ASSUME TypeOK, NEW p \in Requests, NEW answer \in AnswerType, Answer(p, answer),
           UNCHANGED <<world, arg, todo, inputs, memory>>
    PROVE  TypeOK'
<1>1. WorldTypes /\ RequestTypes /\ MemoryTypes
  BY TypeParts
<1>2. WorldTypes' /\ MemoryTypes'
  BY <1>1, WorldFrame, MemoryFrame
<1>3. RequestTypes'
  BY <1>1 DEF Answer, Goto, RequestTypes, Reading
<1> QED BY <1>2, <1>3 DEF TypeOK, WorldTypes, RequestTypes, MemoryTypes

LEMMA RememberTypes ==
    ASSUME RequestTypes, MemoryTypes, NEW what \in {"date", "file"}, Remember(what)
    PROVE  RequestTypes' /\ MemoryTypes'
<1>1. RequestTypes'
  BY DEF Remember, request, RequestTypes
<1>2. \A p \in Requests : MetOn(arg[p].member, today)' \subseteq Requirements
  BY MetTypes DEF MetOn
<1>3. ever' \in [Requests -> SUBSET Requirements] /\ always' \in [Requests -> SUBSET Requirements]
  BY <1>2 DEF Remember, MemoryTypes
<1>4. moved' \in [Requests -> SUBSET {"date", "file"}]
  BY DEF Remember, MemoryTypes
<1> QED BY <1>1, <1>3, <1>4 DEF MemoryTypes

LEMMA InputFields ==
    ASSUME NEW in \in Inputs
    PROVE  /\ \A d \in Dates : [in EXCEPT !.check = d] \in Inputs
           /\ \A d \in Dates : [in EXCEPT !.training = d] \in Inputs
           /\ \A H \in SUBSET HoldRow : [in EXCEPT !.holds = H] \in Inputs
           /\ \A d \in Dates, b \in BOOLEAN :
                 [in EXCEPT !.required = b, !.role = d] \in Inputs
BY DEF Inputs

LEMMA DecisionTypes ==
    ASSUME NEW in \in Inputs
    PROVE  /\ Evaluate(in) \in {"eligible", "suspended", "ineligible_lapsed"}
           /\ NextExpiration(in) \subseteq Dates
<1>1. Evaluate(in) \in {"eligible", "suspended", "ineligible_lapsed"}
  BY DEF Evaluate
<1>2. {in.check, in.training, in.role} \subseteq Dates
  BY DEF Inputs
<1>3. NextExpiration(in) \subseteq Dates
  BY <1>2 DEF NextExpiration, Earliest, Dates
<1> QED BY <1>1, <1>3

LEMMA ExpiryDates == Expiries \subseteq Dates
BY RowAssumption DEF Expiries, CredentialRow, Dates

(* Every statement, call and answer of a request keeps the types. *)
LEMMA RequestTypeStep ==
    ASSUME TypeOK, NEW p \in Requests, Call(p) \/ Statement(p) \/ Return(p)
    PROVE  TypeOK'
<1>0. WorldTypes /\ RequestTypes /\ MemoryTypes
  BY TypeParts
<1>1. inputs[p] \in Inputs /\ out[p] \in AnswerType
  BY DEF TypeOK
<1>2. ASSUME NEW m \in Members, EligibilityBegin(p, m) \/ CredentialsBegin(p, m)
      PROVE  TypeOK'
  <2>1. MemoryTypes' /\ RequestTypes'
    BY <1>0, <1>2, TurnToTypes DEF EligibilityBegin, CredentialsBegin, Reading, RequestTypes
  <2>2. WorldTypes'
    BY <1>0, <1>2, WorldFrame DEF EligibilityBegin, CredentialsBegin
  <2> QED BY <2>1, <2>2 DEF TypeOK, WorldTypes, RequestTypes, MemoryTypes
<1>3. CASE ComplianceBegin(p)
  <2>1. WorldTypes'
    BY <1>0, <1>3, WorldFrame DEF ComplianceBegin
  <2>2. CASE members = {}
    <3>1. [NoAnswer EXCEPT !.kind = "ok"] \in AnswerType
      BY DEF NoAnswer, AnswerType
    <3> QED BY <1>3, <2>2, <3>1, AnswerTypes DEF ComplianceBegin
  <2>3. CASE members # {}
    <3>1. PICK m \in members : /\ TurnTo(p, "compliance", m, "load")
                               /\ todo' = [todo EXCEPT ![p] = members \ {m}]
      BY <1>3, <2>3 DEF ComplianceBegin
    <3>2. m \in Members /\ members \ {m} \in SUBSET Members
      BY DEF TypeOK
    <3>3. MemoryTypes' /\ RequestTypes'
      BY <1>0, <1>3, <2>3, <3>1, <3>2, TurnToTypes DEF ComplianceBegin, Reading, RequestTypes
    <3> QED BY <2>1, <3>3 DEF TypeOK, WorldTypes, RequestTypes, MemoryTypes
  <2> QED BY <2>2, <2>3
<1>4. [NoAnswer EXCEPT !.kind = "not_found"] \in AnswerType
  BY DEF NoAnswer, AnswerType
<1>5. CASE Resolve(p)
  <2>1. CASE arg[p].member \notin members
    BY <1>4, <1>5, <2>1, AnswerTypes DEF Resolve
  <2>2. CASE arg[p].member \in members
    <3>1. [out[p] EXCEPT !.roles = RequiredRoles(arg[p].member)] \in AnswerType
      BY <1>1 DEF AnswerType, RequiredRoles
    <3>2. RequestTypes'
      BY <1>0, <1>5, <2>2, <3>1 DEF Resolve, Goto, RequestTypes, Reading
    <3>3. WorldTypes' /\ MemoryTypes'
      BY <1>0, <1>5, WorldFrame, MemoryFrame DEF Resolve
    <3> QED BY <3>2, <3>3 DEF TypeOK, WorldTypes, RequestTypes, MemoryTypes
  <2> QED BY <2>1, <2>2
<1>6. CASE TakeNow(p)
  <2>1. [NoInputs EXCEPT !.now = today] \in Inputs
    BY DEF NoInputs, Inputs, TypeOK, Dates
  <2> QED BY <1>6, <2>1, GatherTypes DEF TakeNow, Reading
<1>7. CASE FindMember(p)
  <2>1. CASE arg[p].member \notin members
    BY <1>4, <1>7, <2>1, AnswerTypes DEF FindMember
  <2>2. CASE arg[p].member \in members
    <3>2. RequestTypes'
      BY <1>0, <1>7, <2>2 DEF FindMember, Goto, RequestTypes, Reading
    <3>3. WorldTypes' /\ MemoryTypes'
      BY <1>0, <1>7, WorldFrame, MemoryFrame DEF FindMember
    <3> QED BY <3>2, <3>3 DEF TypeOK, WorldTypes, RequestTypes, MemoryTypes
  <2> QED BY <2>1, <2>2
<1>8. CASE ReadChecks(p)
  <2> DEFINE rows == {r \in checks : /\ r.member = arg[p].member
                                     /\ r.status = "approved" /\ r.from <= today}
  <2>1. PICK d \in Latest(rows) : Gather(p, [inputs[p] EXCEPT !.check = d], "training")
    BY <1>8 DEF ReadChecks
  <2>2. \A r \in rows : r.to \in Nat
    BY RowFacts
  <2>3. d \in Dates
    <3> HIDE DEF rows
    <3> QED BY <2>2, LatestDates
  <2> QED BY <1>1, <1>8, <2>1, <2>3, InputFields, GatherTypes DEF ReadChecks, Reading
<1>9. CASE ReadTrainings(p)
  <2> DEFINE rows == {r \in trainings : r.member = arg[p].member /\ r.from <= today}
  <2>1. PICK d \in Latest(rows) : Gather(p, [inputs[p] EXCEPT !.training = d], "hold")
    BY <1>9 DEF ReadTrainings
  <2>2. \A r \in rows : r.to \in Nat
    BY RowFacts
  <2>3. d \in Dates
    <3> HIDE DEF rows
    <3> QED BY <2>2, LatestDates
  <2> QED BY <1>1, <1>9, <2>1, <2>3, InputFields, GatherTypes DEF ReadTrainings, Reading
<1>10. CASE ReadHolds(p)
  <2>1. ActiveHolds(arg[p].member, today) \in SUBSET HoldRow
    BY RowFacts DEF ActiveHolds
  <2> QED BY <1>1, <1>10, <2>1, InputFields, GatherTypes DEF ReadHolds, Reading
<1>11. CASE ReadRoles(p)
  <2> DEFINE due == RequiredRoles(arg[p].member)
  <2>1. PICK latest \in [due -> Expiries] :
           \E d \in WeakestLink({latest[role] : role \in due}) :
             Gather(p, [inputs[p] EXCEPT !.required = due # {}, !.role = d], "judged")
    BY <1>11 DEF ReadRoles
  <2>2. PICK d \in WeakestLink({latest[role] : role \in due}) :
             Gather(p, [inputs[p] EXCEPT !.required = due # {}, !.role = d], "judged")
    BY <2>1
  <2>3. {latest[role] : role \in due} \in SUBSET Dates
    BY ExpiryDates
  <2>4. d \in Dates
    BY <2>3, WeakestFacts
  <2>5. [inputs[p] EXCEPT !.required = due # {}, !.role = d] \in Inputs
    <3>1. (due # {}) \in BOOLEAN
      OBVIOUS
    <3> QED BY <1>1, <2>4, <3>1, InputFields
  <2> QED BY <1>11, <2>2, <2>5, GatherTypes DEF ReadRoles, Reading
<1>12. CASE Judge(p)
  <2>0. arg[p].member \in Members /\ arg[p].op \in {"eligibility", "credentials", "compliance"}
    BY <1>12 DEF Judge, TypeOK
  <2>1. PICK d \in IF arg[p].op = "compliance" THEN NextExpiration(inputs[p]) ELSE {NoDate} :
           IF todo[p] = {}
           THEN /\ Answer(p, [out[p] EXCEPT !.decisions = @ \cup {Decision(p, d)},
                                            !.kind = "ok"])
                /\ UNCHANGED <<arg, todo, memory>>
           ELSE /\ \E m \in todo[p] :
                     /\ TurnTo(p, arg[p].op, m, "load")
                     /\ todo' = [todo EXCEPT ![p] = @ \ {m}]
                /\ out' = [out EXCEPT ![p].decisions = @ \cup {Decision(p, d)}]
    BY <1>1, <1>12 DEF Judge, AnswerType
  <2>2. d \in Dates
    BY <1>1, DecisionTypes DEF Dates
  <2>3. Decision(p, d) \in DecisionRow
    BY <1>1, <2>0, <2>2, DecisionTypes DEF Decision, DecisionRow
  <2>4. CASE todo[p] = {}
    <3>1. [out[p] EXCEPT !.decisions = @ \cup {Decision(p, d)}, !.kind = "ok"] \in AnswerType
      BY <1>1, <2>3 DEF AnswerType
    <3> QED BY <1>12, <2>1, <2>4, <3>1, AnswerTypes DEF Judge
  <2>5. CASE todo[p] # {}
    <3>1. PICK m \in todo[p] : /\ TurnTo(p, arg[p].op, m, "load")
                               /\ todo' = [todo EXCEPT ![p] = @ \ {m}]
      BY <2>1, <2>5
    <3>2. m \in Members
      BY DEF TypeOK
    <3>3. [out[p] EXCEPT !.decisions = @ \cup {Decision(p, d)}] \in AnswerType
      BY <1>1, <2>3 DEF AnswerType
    <3>4. out' \in [Requests -> AnswerType]
      BY <2>1, <2>5, <3>3 DEF TypeOK
    <3>5. MemoryTypes' /\ RequestTypes'
      BY <1>0, <1>12, <2>0, <3>1, <3>2, <3>4, TurnToTypes DEF Judge, Reading, RequestTypes
    <3>6. WorldTypes'
      BY <1>0, <1>12, WorldFrame DEF Judge
    <3> QED BY <3>5, <3>6 DEF TypeOK, WorldTypes, RequestTypes, MemoryTypes
  <2> QED BY <2>4, <2>5
<1>13. CASE ListCredentials(p)
  <2> DEFINE in == inputs[p]
             valid(r) == r.from <= in.now /\ Current(in.now, r.to, in.graceDays)
             listed == {[row |-> r, valid |-> valid(r)] :
                          r \in {r \in credentials : r.member = arg[p].member}}
             c == Current(in.now, in.check, in.graceDays)
             t == Current(in.now, in.training, in.graceDays)
  <2>1. listed \in SUBSET [row : CredentialRow, valid : BOOLEAN]
    <3>1. ASSUME NEW r \in credentials PROVE valid(r) \in BOOLEAN /\ r \in CredentialRow
      BY RowFacts
    <3> HIDE DEF valid
    <3> QED BY <3>1
  <2>2. c \in BOOLEAN /\ t \in BOOLEAN
    BY DEF Current
  <2>3. Decision(p, NoDate) \in DecisionRow
    BY <1>1, <1>13, DecisionTypes DEF ListCredentials, Decision, DecisionRow, TypeOK, Dates
  <2>4. Answer(p, [out[p] EXCEPT !.kind = "ok", !.listed = listed,
              !.decisions = {Decision(p, NoDate)}, !.check = c, !.training = t])
    BY <1>13 DEF ListCredentials, Build
  <2>5. [out[p] EXCEPT !.kind = "ok", !.listed = listed, !.decisions = {Decision(p, NoDate)},
              !.check = c, !.training = t] \in AnswerType
    <3> HIDE DEF listed, c, t
    <3> QED BY <1>1, <2>1, <2>2, <2>3 DEF AnswerType
  <2>6. UNCHANGED <<world, arg, todo, inputs, memory>>
    BY <1>13 DEF ListCredentials
  <2> HIDE DEF listed, c, t
  <2> QED BY <2>4, <2>5, <2>6, AnswerTypes
<1>14. CASE Return(p)
  <2>1. RequestTypes' /\ MemoryTypes'
    BY <1>0, <1>14 DEF Return, Goto, Reading, RequestTypes, MemoryTypes, NoArg, NoInputs,
       NoAnswer, Inputs, AnswerType, Dates
  <2>2. WorldTypes'
    BY <1>0, <1>14, WorldFrame DEF Return
  <2> QED BY <2>1, <2>2 DEF TypeOK, WorldTypes, RequestTypes, MemoryTypes
<1> QED BY <1>2, <1>3, <1>5, <1>6, <1>7, <1>8, <1>9, <1>10, <1>11, <1>12, <1>13, <1>14
        DEF Call, Statement

(* A midnight or an edit: requests only remember it. *)
LEMMA WorldStep ==
    ASSUME TypeOK, Midnight \/ Paperwork
    PROVE  /\ WorldTypes' /\ today' \in {today, today + 1}
           /\ \/ Remember("date") /\ UNCHANGED file /\ today' = today + 1
              \/ Remember("file") /\ today' = today
<1>1. CASE Midnight
  BY <1>1 DEF Midnight, file, TypeOK, WorldTypes
<1>2. ASSUME Edit PROVE changes' \in Nat /\ today' = today
  BY <1>2 DEF Edit, TypeOK
<1>3. CASE \E r \in CheckRows : EditChecks(r)
  BY <1>2, <1>3 DEF EditChecks, Flip, TypeOK, WorldTypes
<1>4. CASE \E r \in TrainingRows : EditTrainings(r)
  BY <1>2, <1>4 DEF EditTrainings, Flip, TypeOK, WorldTypes
<1>5. CASE \E r \in CredentialRows : EditCredentials(r)
  BY <1>2, <1>5 DEF EditCredentials, Flip, TypeOK, WorldTypes
<1>6. CASE \E m \in Members, role \in CredentialRoles : EditRoles(m, role)
  BY <1>2, <1>6 DEF EditRoles, Flip, TypeOK, WorldTypes
<1>7. CASE \E h \in HoldRows : PlaceHold(h) \/ LiftHold(h)
  BY <1>2, <1>7 DEF PlaceHold, LiftHold, TypeOK, WorldTypes
<1>8. CASE \E m \in Members : DeleteMember(m)
  BY <1>2, <1>8 DEF DeleteMember, TypeOK, WorldTypes
<1> QED BY <1>1, <1>3, <1>4, <1>5, <1>6, <1>7, <1>8 DEF Paperwork

LEMMA TypeStep == TypeOK /\ [Next]_vars => TypeOK'
<1> SUFFICES ASSUME TypeOK, [Next]_vars PROVE TypeOK'
  OBVIOUS
<1>0. WorldTypes /\ RequestTypes /\ MemoryTypes
  BY TypeParts
<1>1. ASSUME NEW p \in Requests, Call(p) \/ Statement(p) \/ Return(p) PROVE TypeOK'
  BY <1>1, RequestTypeStep
<1>2. CASE Midnight \/ Paperwork
  <2>1. WorldTypes'
    BY <1>2, WorldStep
  <2>2. RequestTypes' /\ MemoryTypes'
    BY <1>0, <1>2, WorldStep, RememberTypes
  <2> QED BY <2>1, <2>2 DEF TypeOK, WorldTypes, RequestTypes, MemoryTypes
<1>3. CASE UNCHANGED vars
  BY <1>3 DEF vars, world, file, request, memory, TypeOK
<1> QED BY <1>1, <1>2, <1>3 DEF Next

(* The tables never hold a row of a wrong type or of a member that is gone, *)
(* and no request a value its Go variables cannot hold.                     *)
THEOREM FileTypeCorrect == Spec => []TypeOK
BY TypeInit, TypeStep, PTL DEF Spec

----------------------------------------------------------------------------
(* Witnesses *)

(* What a row of the file that covers a day says about that day. *)
LEMMA MetByRow ==
    ASSUME NEW m, NEW e
    PROVE  /\ "hold" \in MetOn(m, e) <=> ActiveHolds(m, e) = {}
           /\ "check" \in MetOn(m, e) <=>
                \E r \in checks : r.status = "approved" /\ Covers(r, m, e)
           /\ "training" \in MetOn(m, e) <=> \E r \in trainings : Covers(r, m, e)
           /\ \A q \in CredentialRoles :
                q \in MetOn(m, e) <=>
                  (q \in RequiredRoles(m) =>
                     \E r \in credentials : r.role = q /\ Covers(r, m, e))
<1>1. RequiredRoles(m) \subseteq CredentialRoles
  BY DEF RequiredRoles
<1> QED BY <1>1, BoundAssumption DEF MetOn, Requirements

LEMMA MetFrame == ASSUME UNCHANGED file PROVE \A m, d : MetOn(m, d)' = MetOn(m, d)
BY DEF file, MetOn, ActiveHolds, RequiredRoles

(* A term that has begun by the SQL's today and not ended by the request's  *)
(* now covers a day the request lived through, unless both the file and the *)
(* date have moved.                                                         *)
LEMMA SomeDay ==
    ASSUME TypeOK, NEW p \in Requests, Watching(p), pc[p] \in Reading \cap AfterNow,
           moved[p] # {"date", "file"}, NEW from \in Nat, NEW to \in Nat,
           from <= to, from <= today, inputs[p].now <= to
    PROVE  \E e \in Nat : from <= e /\ e <= to /\ MetOn(arg[p].member, e) \subseteq ever[p]
<1> DEFINE now == inputs[p].now
           day == IF now <= from THEN from ELSE now
<1>1. now \in Nat /\ today \in Nat /\ now <= today
  BY DEF TypeOK, Inputs, Watching
<1>2. day \in Nat /\ from <= day /\ day <= to /\ day \in now..today
  BY <1>1
<1>3. CASE "file" \notin moved[p]
  BY <1>2, <1>3 DEF Watching
<1>4. CASE "date" \notin moved[p]
  <2>1. now = today /\ MetOn(arg[p].member, today) \subseteq ever[p]
    BY <1>4 DEF Watching
  <2>2. day = today
    BY <1>1, <1>2, <2>1
  <2> QED BY <1>2, <2>1, <2>2
<1>5. moved[p] \in SUBSET {"date", "file"}
  BY DEF TypeOK
<1> QED BY <1>3, <1>4, <1>5

LEMMA MemberFacts ==
    ASSUME TypeOK
    PROVE  \A r \in checks \cup trainings \cup credentials :
              r.from \in Nat /\ r.to \in Nat /\ r.from <= r.to
BY RowFacts, RowAssumption DEF TypeOK

(* A date kept from some rows in effect is current only by a row that       *)
(* covers a day lived through, and is current if a row covers today.        *)
LEMMA LatestEarned ==
    ASSUME TypeOK, NEW p \in Requests, Watching(p), pc[p] \in Reading \cap AfterNow,
           moved[p] # {"date", "file"},
           NEW rows, rows \subseteq checks \cup trainings \cup credentials,
           \A r \in rows : r.member = arg[p].member /\ r.from <= today,
           NEW d \in Latest(rows), d # NoDate, inputs[p].now <= d
    PROVE  \E r \in rows : \E e \in Nat :
              Covers(r, arg[p].member, e) /\ MetOn(arg[p].member, e) \subseteq ever[p]
<1>1. \A r \in rows : r.from \in Nat /\ r.to \in Nat /\ r.from <= r.to
  BY MemberFacts
<1>2. PICK r \in rows : r.to = d
  BY <1>1, LatestFacts
<1>3. PICK e \in Nat : /\ r.from <= e /\ e <= r.to
                       /\ MetOn(arg[p].member, e) \subseteq ever[p]
  BY <1>1, <1>2, SomeDay
<1> QED BY <1>2, <1>3 DEF Covers

LEMMA LatestJustified ==
    ASSUME TypeOK, NEW p \in Requests, Watching(p), pc[p] \in Reading \cap AfterNow,
           NEW rows, rows \subseteq checks \cup trainings \cup credentials,
           NEW r \in rows, Covers(r, arg[p].member, today), NEW d \in Latest(rows)
    PROVE  d \in Nat /\ d # NoDate /\ inputs[p].now <= d
<1>1. \A x \in rows : x.from \in Nat /\ x.to \in Nat
  BY MemberFacts
<1>2. d \in Nat /\ d # NoDate /\ r.to <= d
  BY <1>1, LatestFacts
<1>3. inputs[p].now \in Nat /\ today \in Nat /\ inputs[p].now <= today /\ today <= r.to
  BY DEF TypeOK, Inputs, Watching, Covers
<1> QED BY <1>1, <1>2, <1>3

LEMMA NoGrace == TypeOK => \A p \in Requests : inputs[p].graceDays = 0 /\ inputs[p].now \in Nat
BY DEF TypeOK, Inputs

Witness(p) == Watching(p) /\ Earned(p) /\ Justified(p)

(* A statement that only advances p, or sets one of its inputs, leaves its  *)
(* history and therefore what it watches alone.                             *)
LEMMA WatchingKept ==
    ASSUME TypeOK, NEW p \in Requests, Watching(p), pc[p] \in Reading \cap AfterNow,
           UNCHANGED <<world, memory>>, arg'[p] = arg[p],
           inputs'[p].now = inputs[p].now
    PROVE  Watching(p)'
<1>1. UNCHANGED file /\ UNCHANGED <<today, ever, always, moved>>
  BY DEF world, memory
<1>2. \A m, d : MetOn(m, d)' = MetOn(m, d)
  BY <1>1, MetFrame
<1> QED BY <1>1, <1>2 DEF Watching

(* So for a request that takes no step while another one does. *)
LEMMA WitnessKept ==
    ASSUME NEW p \in Requests, Witness(p), UNCHANGED world,
           pc'[p] = pc[p], arg'[p] = arg[p], inputs'[p] = inputs[p],
           ever'[p] = ever[p], always'[p] = always[p], moved'[p] = moved[p]
    PROVE  Witness(p)'
<1>1. UNCHANGED file /\ today' = today
  BY DEF world
<1>2. \A m, d : MetOn(m, d)' = MetOn(m, d)
  BY <1>1, MetFrame
<1>3. Watching(p)'
  BY <1>1, <1>2 DEF Witness, Watching
<1>4. Earned(p)' /\ Justified(p)'
  BY DEF Witness, Earned, Justified
<1> QED BY <1>3, <1>4 DEF Witness

(* A request that turns to a member has read nothing yet; one that has      *)
(* answered or returned claims nothing.                                     *)
LEMMA WitnessFresh ==
    ASSUME TypeOK, NEW p \in Requests, NEW op, NEW m, NEW label \in {"resolve", "load"},
           TurnTo(p, op, m, label), UNCHANGED world
    PROVE  Witness(p)'
<1>1. UNCHANGED file /\ today' = today
  BY DEF world
<1>2. MetOn(m, today)' = MetOn(m, today)
  BY <1>1, MetFrame
<1>3. pc'[p] = label /\ arg'[p].member = m
      /\ ever'[p] = MetOn(m, today) /\ always'[p] = MetOn(m, today)
  BY DEF TurnTo, Goto, TypeOK
<1>4. MetOn(arg[p].member, today)' = MetOn(m, today)
  BY <1>1, <1>3 DEF MetOn, ActiveHolds, RequiredRoles, file
<1> QED BY <1>3, <1>4 DEF Witness, Watching, Earned, Justified, AfterNow, AfterCheck,
        AfterTraining, AfterHold, AfterRole

LEMMA WitnessDone ==
    ASSUME NEW p \in Requests, pc'[p] \in {"idle", "replied"}
    PROVE  Witness(p)'
BY DEF Witness, Watching, Earned, Justified, Reading, AfterNow, AfterCheck, AfterTraining,
   AfterHold, AfterRole

(* The other requests. *)
LEMMA Others ==
    ASSUME TypeOK, NEW p \in Requests, Call(p) \/ Statement(p) \/ Return(p),
           NEW q \in Requests \ {p}
    PROVE  /\ UNCHANGED world
           /\ pc'[q] = pc[q] /\ arg'[q] = arg[q] /\ inputs'[q] = inputs[q]
           /\ ever'[q] = ever[q] /\ always'[q] = always[q] /\ moved'[q] = moved[q]
<1>1. CASE Call(p)
  BY <1>1 DEF Call, EligibilityBegin, CredentialsBegin, ComplianceBegin, TurnTo, Goto, Answer,
     TypeOK, memory
<1>2. CASE Return(p)
  BY <1>2 DEF Return, Goto, TypeOK
<1>3. CASE Resolve(p) \/ TakeNow(p) \/ FindMember(p)
  BY <1>3 DEF Resolve, TakeNow, FindMember, Gather, Goto, Answer, TypeOK, memory
<1>4. CASE ReadChecks(p) \/ ReadTrainings(p) \/ ReadHolds(p)
  BY <1>4 DEF ReadChecks, ReadTrainings, ReadHolds, Gather, Goto, TypeOK, memory
<1>5. CASE ReadRoles(p)
  BY <1>5 DEF ReadRoles, Gather, Goto, TypeOK, memory
<1>6. CASE Judge(p)
  BY <1>6 DEF Judge, TurnTo, Answer, Goto, TypeOK, memory
<1>7. CASE ListCredentials(p)
  BY <1>7 DEF ListCredentials, Answer, Goto, TypeOK, memory
<1> QED BY <1>1, <1>2, <1>3, <1>4, <1>5, <1>6, <1>7 DEF Statement

LEMMA OtherAnswers ==
    ASSUME TypeOK, NEW p \in Requests, Call(p) \/ Statement(p) \/ Return(p),
           NEW q \in Requests \ {p}
    PROVE  out'[q] = out[q]
<1>1. CASE Call(p) \/ Return(p)
  BY <1>1 DEF Call, EligibilityBegin, CredentialsBegin, ComplianceBegin, Answer, Return, TypeOK
<1>2. CASE Resolve(p) \/ FindMember(p) \/ ListCredentials(p)
  BY <1>2 DEF Resolve, FindMember, ListCredentials, Answer, TypeOK
<1>3. CASE TakeNow(p) \/ ReadChecks(p) \/ ReadTrainings(p) \/ ReadHolds(p) \/ ReadRoles(p)
  BY <1>3 DEF TakeNow, ReadChecks, ReadTrainings, ReadHolds, ReadRoles, Gather
<1>4. CASE Judge(p)
  BY <1>4 DEF Judge, Answer, TypeOK
<1> QED BY <1>1, <1>2, <1>3, <1>4 DEF Statement

(* One lemma for every statement. *)
LEMMA NowWitness == ASSUME TypeOK, NEW p \in Requests, Witness(p), TakeNow(p) PROVE Witness(p)'
<1>1. UNCHANGED <<world, memory>> /\ arg' = arg /\ pc[p] = "load"
      /\ pc'[p] = "member" /\ inputs'[p].now = today
  BY DEF TakeNow, Gather, Goto, NoInputs, TypeOK
<1>2. UNCHANGED file /\ UNCHANGED <<today, ever, always, moved>>
  BY <1>1 DEF world, memory
<1>3. \A m, d : MetOn(m, d)' = MetOn(m, d)
  BY <1>2, MetFrame
<1>4. /\ MetOn(arg[p].member, today) \subseteq ever[p]
      /\ always[p] \subseteq MetOn(arg[p].member, today)
  BY <1>1 DEF Witness, Watching, Reading
<1>5. today \in Nat /\ \A d \in today..today : d = today
  BY DEF TypeOK
<1>6. Watching(p)'
  BY <1>1, <1>2, <1>3, <1>4, <1>5 DEF Watching
<1>7. Earned(p)' /\ Justified(p)'
  BY <1>1 DEF Earned, Justified, AfterCheck, AfterTraining, AfterHold, AfterRole
<1> QED BY <1>6, <1>7 DEF Witness

LEMMA CheckWitness ==
    ASSUME TypeOK, NEW p \in Requests, Witness(p), ReadChecks(p) PROVE Witness(p)'
<1> DEFINE m == arg[p].member
           rows == {r \in checks : r.member = m /\ r.status = "approved" /\ r.from <= today}
<1>1. PICK d \in Latest(rows) : Gather(p, [inputs[p] EXCEPT !.check = d], "training")
  BY DEF ReadChecks
<1>2. /\ pc[p] = "check" /\ pc'[p] = "training" /\ UNCHANGED <<world, memory>> /\ arg' = arg
      /\ inputs'[p].check = d
      /\ inputs'[p].now = inputs[p].now /\ inputs'[p].graceDays = 0
  BY <1>1 DEF ReadChecks, Gather, Goto, TypeOK, Inputs
<1>3. pc[p] \in Reading \cap AfterNow /\ Watching(p)
  BY <1>2 DEF Reading, AfterNow, Witness
<1>4. Watching(p)'
  BY <1>2, <1>3, WatchingKept
<1>5. ASSUME moved[p] # {"date", "file"}, d # NoDate, inputs[p].now <= d
      PROVE  "check" \in ever[p]
  <2>1. PICK r \in rows : \E e \in Nat : Covers(r, m, e) /\ MetOn(m, e) \subseteq ever[p]
    <3>1. rows \subseteq checks \cup trainings \cup credentials
      OBVIOUS
    <3>2. \A r \in rows : r.member = m /\ r.from <= today
      OBVIOUS
    <3> HIDE DEF rows
    <3> QED BY <1>3, <1>5, <3>1, <3>2, LatestEarned
  <2> QED BY <2>1, MetByRow
<1>6. ASSUME "check" \in always[p] PROVE d # NoDate /\ inputs[p].now <= d
  <2>1. "check" \in MetOn(m, today)
    BY <1>3, <1>6 DEF Watching
  <2>2. PICK r \in checks : r.status = "approved" /\ Covers(r, m, today)
    BY <2>1, MetByRow
  <2>3. r \in rows
    BY <2>2 DEF Covers
  <2>4. rows \subseteq checks \cup trainings \cup credentials
    OBVIOUS
  <2> HIDE DEF rows
  <2> QED BY <1>3, <2>2, <2>3, <2>4, LatestJustified
<1>7. ever' = ever /\ always' = always /\ moved' = moved
  BY <1>2 DEF memory
<1>8. Current(inputs[p].now, d, 0) <=> d # NoDate /\ inputs[p].now <= d
  BY NoGrace, LatestDates, MemberFacts DEF Current, Dates
<1>9. Earned(p)'
  BY <1>2, <1>5, <1>7, <1>8 DEF Earned, AfterHold, AfterRole, AfterTraining
<1>10. Justified(p)'
  BY <1>2, <1>6, <1>7, <1>8 DEF Justified, AfterHold, AfterRole, AfterTraining
<1> QED BY <1>4, <1>9, <1>10 DEF Witness

LEMMA TrainingWitness ==
    ASSUME TypeOK, NEW p \in Requests, Witness(p), ReadTrainings(p) PROVE Witness(p)'
<1> DEFINE m == arg[p].member
           rows == {r \in trainings : r.member = m /\ r.from <= today}
<1>1. PICK d \in Latest(rows) : Gather(p, [inputs[p] EXCEPT !.training = d], "hold")
  BY DEF ReadTrainings
<1>2. /\ pc[p] = "training" /\ pc'[p] = "hold" /\ UNCHANGED <<world, memory>> /\ arg' = arg
      /\ inputs'[p].training = d /\ inputs'[p].check = inputs[p].check
      /\ inputs'[p].now = inputs[p].now /\ inputs'[p].graceDays = 0 /\ inputs[p].graceDays = 0
  BY <1>1 DEF ReadTrainings, Gather, Goto, TypeOK, Inputs
<1>3. pc[p] \in Reading \cap AfterNow /\ Watching(p)
  BY <1>2 DEF Reading, AfterNow, AfterCheck, Witness
<1>4. Watching(p)'
  BY <1>2, <1>3, WatchingKept
<1>5. ASSUME moved[p] # {"date", "file"}, d # NoDate, inputs[p].now <= d
      PROVE  "training" \in ever[p]
  <2>1. PICK r \in rows : \E e \in Nat : Covers(r, m, e) /\ MetOn(m, e) \subseteq ever[p]
    <3>1. rows \subseteq checks \cup trainings \cup credentials
      OBVIOUS
    <3>2. \A r \in rows : r.member = m /\ r.from <= today
      OBVIOUS
    <3> HIDE DEF rows
    <3> QED BY <1>3, <1>5, <3>1, <3>2, LatestEarned
  <2> QED BY <2>1, MetByRow
<1>6. ASSUME "training" \in always[p] PROVE d # NoDate /\ inputs[p].now <= d
  <2>1. "training" \in MetOn(m, today)
    BY <1>3, <1>6 DEF Watching
  <2>2. PICK r \in trainings : Covers(r, m, today)
    BY <2>1, MetByRow
  <2>3. r \in rows
    BY <2>2 DEF Covers
  <2>4. rows \subseteq checks \cup trainings \cup credentials
    OBVIOUS
  <2> HIDE DEF rows
  <2> QED BY <1>3, <2>2, <2>3, <2>4, LatestJustified
<1>7. ever' = ever /\ always' = always /\ moved' = moved
  BY <1>2 DEF memory
<1>8. Current(inputs[p].now, d, 0) <=> d # NoDate /\ inputs[p].now <= d
  BY NoGrace, LatestDates, MemberFacts DEF Current, Dates
<1>9. Earned(p)'
  BY <1>2, <1>5, <1>7, <1>8 DEF Witness, Earned, AfterHold, AfterRole, AfterTraining, AfterCheck
<1>10. Justified(p)'
  BY <1>2, <1>6, <1>7, <1>8 DEF Witness, Justified, AfterHold, AfterRole, AfterTraining,
     AfterCheck
<1> QED BY <1>4, <1>9, <1>10 DEF Witness

LEMMA HoldWitness ==
    ASSUME TypeOK, NEW p \in Requests, Witness(p), ReadHolds(p) PROVE Witness(p)'
<1> DEFINE m == arg[p].member
<1>2. /\ pc[p] = "hold" /\ pc'[p] = "role" /\ UNCHANGED <<world, memory>> /\ arg' = arg
      /\ inputs'[p].holds = ActiveHolds(m, today)
      /\ inputs'[p].check = inputs[p].check /\ inputs'[p].training = inputs[p].training
      /\ inputs'[p].now = inputs[p].now /\ inputs'[p].graceDays = inputs[p].graceDays
  BY DEF ReadHolds, Gather, Goto, TypeOK, Inputs
<1>3. pc[p] \in Reading \cap AfterNow /\ Watching(p)
  BY <1>2 DEF Reading, AfterNow, AfterCheck, AfterTraining, Witness
<1>4. Watching(p)'
  BY <1>2, <1>3, WatchingKept
<1>5. /\ ActiveHolds(m, today) = {} => "hold" \in ever[p]
      /\ "hold" \in always[p] => ActiveHolds(m, today) = {}
  BY <1>3, MetByRow DEF Watching
<1>7. ever' = ever /\ always' = always /\ moved' = moved
  BY <1>2 DEF memory
<1>9. Earned(p)'
  BY <1>2, <1>5, <1>7 DEF Witness, Earned, AfterHold, AfterRole, AfterTraining, AfterCheck
<1>10. Justified(p)'
  BY <1>2, <1>5, <1>7 DEF Witness, Justified, AfterHold, AfterRole, AfterTraining, AfterCheck
<1> QED BY <1>4, <1>9, <1>10 DEF Witness

LEMMA RoleWitness ==
    ASSUME TypeOK, NEW p \in Requests, Witness(p), ReadRoles(p) PROVE Witness(p)'
<1> DEFINE m == arg[p].member
           due == RequiredRoles(m)
           now == inputs[p].now
<1>1. PICK latest \in [due -> Expiries] :
         /\ \A role \in due : latest[role] \in Latest(OwnCredentials(m, role))
         /\ \E d \in WeakestLink({latest[role] : role \in due}) :
              Gather(p, [inputs[p] EXCEPT !.required = due # {}, !.role = d], "judged")
  BY DEF ReadRoles
<1>2. PICK d \in WeakestLink({latest[role] : role \in due}) :
         Gather(p, [inputs[p] EXCEPT !.required = due # {}, !.role = d], "judged")
  BY <1>1
<1>3. /\ pc[p] = "role" /\ pc'[p] = "judged" /\ UNCHANGED <<world, memory>> /\ arg' = arg
      /\ inputs'[p].required = (due # {}) /\ inputs'[p].role = d
      /\ inputs'[p].holds = inputs[p].holds
      /\ inputs'[p].check = inputs[p].check /\ inputs'[p].training = inputs[p].training
      /\ inputs'[p].now = inputs[p].now /\ inputs'[p].graceDays = inputs[p].graceDays
      /\ inputs[p].graceDays = 0 /\ now \in Nat
  <2> DEFINE b == due # {}
             in == [inputs[p] EXCEPT !.required = b, !.role = d]
  <2>1. Gather(p, in, "judged") /\ pc[p] = "role" /\ inputs[p] \in Inputs
    BY <1>2 DEF ReadRoles, TypeOK
  <2>2. /\ in.required = b /\ in.role = d /\ in.holds = inputs[p].holds
        /\ in.check = inputs[p].check /\ in.training = inputs[p].training
        /\ in.now = inputs[p].now /\ in.graceDays = inputs[p].graceDays
        /\ inputs[p].graceDays = 0 /\ now \in Nat
    <3> HIDE DEF b
    <3> QED BY <2>1 DEF Inputs
  <2> HIDE DEF in, b
  <2>3. /\ pc'[p] = "judged" /\ UNCHANGED <<world, memory>> /\ arg' = arg /\ inputs'[p] = in
    BY <2>1 DEF Gather, Goto, TypeOK
  <2>4. inputs'[p].required = b
    BY <2>2, <2>3
  <2> QED BY <2>1, <2>2, <2>3, <2>4 DEF b
<1>4. pc[p] \in Reading \cap AfterNow /\ Watching(p)
  BY <1>3 DEF Reading, AfterNow, AfterCheck, AfterTraining, AfterHold, Witness
<1>5. Watching(p)'
  BY <1>3, <1>4, WatchingKept
<1>6. {latest[role] : role \in due} \in SUBSET Dates
  BY ExpiryDates
<1>7. /\ d \in Dates
      /\ \A role \in due : latest[role] = NoDate => d = NoDate
      /\ \A role \in due : d # NoDate => d <= latest[role]
      /\ due # {} /\ (\A role \in due : latest[role] # NoDate) =>
            d # NoDate /\ \E role \in due : d = latest[role]
  <2> DEFINE dates == {latest[role] : role \in due}
  <2>1. /\ d \in Dates
        /\ NoDate \in dates => d = NoDate
        /\ NoDate \notin dates /\ dates # {} => d \in dates /\ \A e \in dates : d <= e
    <3>1. dates \in SUBSET Dates /\ d \in WeakestLink(dates)
      BY <1>2, <1>6
    <3> HIDE DEF dates
    <3> QED BY <3>1, WeakestFacts
  <2>2. \A role \in due : latest[role] \in dates
    OBVIOUS
  <2>3. \A e \in dates : \E role \in due : e = latest[role]
    OBVIOUS
  <2>4. NoDate \notin dates /\ due # {} => d # NoDate
    BY <2>1, <2>2
  <2> HIDE DEF dates
  <2>5. d # NoDate /\ due # {} => NoDate \notin dates /\ dates # {}
    BY <2>1, <2>2
  <2>6. \A role \in due : d # NoDate => d <= latest[role]
    BY <2>1, <2>2, <2>5
  <2> QED BY <2>1, <2>2, <2>3, <2>4, <2>6
<1>8. ever' = ever /\ always' = always /\ moved' = moved
  BY <1>3 DEF memory
<1>9. RolesCurrent(inputs[p])' <=> (due # {} => d # NoDate /\ now <= d)
  <2>1. RolesCurrent(inputs[p])' <=> (due # {} => Current(now, d, 0))
    BY <1>3 DEF RolesCurrent
  <2>2. Current(now, d, 0) <=> d # NoDate /\ now <= d
    BY <1>3, <1>7 DEF Current, Dates
  <2> QED BY <2>1, <2>2
<1>10. ASSUME moved[p] # {"date", "file"}, due # {} => d # NoDate /\ now <= d
       PROVE  CredentialRoles \subseteq ever[p]
  <2> SUFFICES ASSUME NEW role \in CredentialRoles PROVE role \in ever[p]
    OBVIOUS
  <2>1. CASE role \notin due
    BY <1>4, <2>1, MetByRow DEF Watching
  <2>2. CASE role \in due
    <3> DEFINE rows == OwnCredentials(m, role)
    <3>1. rows \subseteq checks \cup trainings \cup credentials
          /\ \A r \in rows : r.member = m /\ r.role = role /\ r.from <= today
      BY DEF OwnCredentials
    <3>2. latest[role] \in Latest(rows) /\ latest[role] # NoDate /\ now <= latest[role]
      <4>1. d # NoDate /\ now <= d /\ d <= latest[role] /\ latest[role] # NoDate
        BY <1>7, <1>10, <2>2
      <4>2. latest[role] \in Dates /\ d \in Dates
        BY <1>6, <1>7, <2>2
      <4> QED BY <1>1, <1>3, <2>2, <4>1, <4>2 DEF Dates
    <3>3. PICK r \in rows : \E e \in Nat : Covers(r, m, e) /\ MetOn(m, e) \subseteq ever[p]
      <4> HIDE DEF rows
      <4> QED BY <1>4, <1>10, <3>1, <3>2, LatestEarned
    <3>4. r \in credentials /\ r.role = role
      BY DEF OwnCredentials
    <3>5. PICK e \in Nat : Covers(r, m, e) /\ MetOn(m, e) \subseteq ever[p]
      BY <3>3
    <3>6. role \in MetOn(m, e)
      BY <3>4, <3>5, MetByRow
    <3> QED BY <3>5, <3>6
  <2> QED BY <2>1, <2>2
<1>11. ASSUME CredentialRoles \subseteq always[p], due # {} PROVE d # NoDate /\ now <= d
  <2>1. \A role \in due : latest[role] \in Nat /\ latest[role] # NoDate /\ now <= latest[role]
    <3> SUFFICES ASSUME NEW role \in due
                 PROVE  latest[role] \in Nat /\ latest[role] # NoDate /\ now <= latest[role]
      OBVIOUS
    <3>1. role \in CredentialRoles /\ role \in MetOn(m, today)
      BY <1>4, <1>11 DEF Watching, RequiredRoles
    <3>2. PICK r \in credentials : r.role = role /\ Covers(r, m, today)
      BY <3>1, MetByRow
    <3>3. r \in OwnCredentials(m, role)
      BY <3>2 DEF OwnCredentials, Covers
    <3>4. OwnCredentials(m, role) \subseteq checks \cup trainings \cup credentials
      BY DEF OwnCredentials
    <3>5. latest[role] \in Latest(OwnCredentials(m, role))
      BY <1>1
    <3> QED BY <1>4, <3>2, <3>3, <3>4, <3>5, LatestJustified
  <2> QED BY <1>7, <1>11, <2>1
<1> HIDE DEF due
<1>12. Earned(p)'
  BY <1>3, <1>8, <1>9, <1>10 DEF Witness, Earned, AfterHold, AfterRole, AfterTraining, AfterCheck
<1>13. Justified(p)'
  BY <1>3, <1>8, <1>9, <1>11 DEF Witness, Justified, AfterHold, AfterRole, AfterTraining,
     AfterCheck
<1> QED BY <1>5, <1>12, <1>13 DEF Witness

LEMMA RequestWitness ==
    ASSUME TypeOK, NEW p \in Requests, Witness(p), Call(p) \/ Statement(p) \/ Return(p)
    PROVE  Witness(p)'
<1>1. ASSUME NEW m \in Members, EligibilityBegin(p, m) \/ CredentialsBegin(p, m)
      PROVE  Witness(p)'
  BY <1>1, WitnessFresh DEF EligibilityBegin, CredentialsBegin
<1>2. CASE ComplianceBegin(p)
  <2>1. CASE members = {}
    BY <1>2, <2>1, WitnessDone DEF ComplianceBegin, Answer, Goto, TypeOK
  <2>2. CASE members # {}
    BY <1>2, <2>2, WitnessFresh DEF ComplianceBegin
  <2> QED BY <2>1, <2>2
<1>3. CASE Resolve(p)
  <2>1. CASE arg[p].member \notin members
    BY <1>3, <2>1, WitnessDone DEF Resolve, Answer, Goto, TypeOK
  <2>2. CASE arg[p].member \in members
    <3>1. /\ pc[p] = "resolve" /\ pc'[p] = "load" /\ arg' = arg
          /\ UNCHANGED file /\ UNCHANGED <<today, ever, always, moved>>
      BY <1>3, <2>2 DEF Resolve, Goto, TypeOK, world, memory
    <3>2. \A m, d : MetOn(m, d)' = MetOn(m, d)
      BY <3>1, MetFrame
    <3>3. Watching(p)'
      BY <3>1, <3>2 DEF Witness, Watching, Reading, AfterNow, AfterCheck, AfterTraining,
         AfterHold, AfterRole
    <3> QED BY <3>1, <3>3 DEF Witness, Earned, Justified, AfterCheck, AfterTraining,
            AfterHold, AfterRole
  <2> QED BY <2>1, <2>2
<1>4. CASE FindMember(p)
  <2>1. CASE arg[p].member \notin members
    BY <1>4, <2>1, WitnessDone DEF FindMember, Answer, Goto, TypeOK
  <2>2. CASE arg[p].member \in members
    <3>1. /\ pc[p] = "member" /\ pc'[p] = "check" /\ arg' = arg /\ inputs' = inputs
          /\ UNCHANGED <<world, memory>>
      BY <1>4, <2>2 DEF FindMember, Goto, TypeOK
    <3>2. Watching(p)'
      BY <3>1, WatchingKept DEF Witness, Reading, AfterNow
    <3> QED BY <3>1, <3>2 DEF Witness, Earned, Justified, AfterCheck, AfterTraining,
            AfterHold, AfterRole
  <2> QED BY <2>1, <2>2
<1>5. CASE Judge(p)
  <2>1. CASE todo[p] = {}
    BY <1>5, <2>1, WitnessDone DEF Judge, Answer, Goto, TypeOK
  <2>2. CASE todo[p] # {}
    <3>1. UNCHANGED world /\ \E m \in todo[p] : TurnTo(p, arg[p].op, m, "load")
      BY <1>5, <2>2 DEF Judge
    <3> QED BY <3>1, WitnessFresh
  <2> QED BY <2>1, <2>2
<1>6. CASE ListCredentials(p) \/ Return(p)
  BY <1>6, WitnessDone DEF ListCredentials, Return, Answer, Goto, TypeOK
<1> QED BY <1>1, <1>2, <1>3, <1>4, <1>5, <1>6, NowWitness, CheckWitness, TrainingWitness,
        HoldWitness, RoleWitness DEF Call, Statement

(* Midnights and edits: the history grows with what it is about. *)
LEMMA WorldWitness ==
    ASSUME TypeOK, Midnight \/ Paperwork, NEW p \in Requests, Witness(p)
    PROVE  Witness(p)'
<1>1. /\ pc' = pc /\ arg' = arg /\ inputs' = inputs
      /\ today \in Nat /\ inputs[p].now \in Nat /\ moved[p] \in SUBSET {"date", "file"}
  BY WorldStep DEF Remember, request, TypeOK, Inputs
<1>2. PICK what \in {"date", "file"} :
         /\ Remember(what)
         /\ what = "date" => UNCHANGED file /\ today' = today + 1
         /\ what = "file" => today' = today
  BY WorldStep
<1>3. /\ ever[p] \subseteq ever'[p] /\ always'[p] \subseteq always[p]
      /\ moved'[p] \subseteq moved[p] \cup {what} /\ moved[p] \subseteq moved'[p]
  BY <1>2 DEF Remember, TypeOK
<1>4. pc[p] \in Reading =>
         /\ MetOn(arg[p].member, today)' \subseteq ever'[p]
         /\ always'[p] \subseteq MetOn(arg[p].member, today)'
         /\ what \in moved'[p]
  BY <1>2 DEF Remember, Reading
<1>5. ASSUME pc[p] \in Reading \cap AfterNow
      PROVE  /\ inputs[p].now <= today'
             /\ "date" \notin moved'[p] => inputs[p].now = today'
  BY <1>1, <1>2, <1>3, <1>4, <1>5 DEF Witness, Watching
<1>6. ASSUME pc[p] \in Reading \cap AfterNow, "file" \notin moved'[p],
             NEW d \in inputs[p].now..today'
      PROVE  MetOn(arg[p].member, d)' \subseteq ever'[p]
  <2>1. what = "date" /\ UNCHANGED file /\ today' = today + 1
    BY <1>2, <1>4, <1>6
  <2>2. \A m, e : MetOn(m, e)' = MetOn(m, e)
    BY <2>1, MetFrame
  <2>3. CASE d = today'
    BY <1>4, <1>6, <2>3, <2>2, <1>1 DEF MetOn, ActiveHolds, RequiredRoles
  <2>4. CASE d # today'
    <3>1. d \in inputs[p].now..today
      BY <1>1, <1>6, <2>1, <2>4
    <3>2. MetOn(arg[p].member, d) \subseteq ever[p]
      BY <1>3, <1>6, <3>1 DEF Witness, Watching
    <3> QED BY <1>1, <1>3, <2>2, <3>2
  <2> QED BY <2>3, <2>4
<1>7. Watching(p)'
  BY <1>1, <1>4, <1>5, <1>6 DEF Watching
<1>8. moved'[p] # {"date", "file"} => moved[p] # {"date", "file"}
  BY <1>1, <1>2, <1>3
<1>9. Earned(p)'
  BY <1>1, <1>3, <1>8 DEF Witness, Earned, RolesCurrent
<1>10. Justified(p)'
  BY <1>1, <1>3 DEF Witness, Justified, RolesCurrent
<1> QED BY <1>7, <1>9, <1>10 DEF Witness

LEMMA WitnessInit == Init => Witnessed
BY WitnessDone DEF Init, Witnessed, Watching, Earned, Justified, Reading, AfterNow, AfterCheck,
   AfterTraining, AfterHold, AfterRole

LEMMA WitnessStep == TypeOK /\ Witnessed /\ [Next]_vars => Witnessed'
<1> SUFFICES ASSUME TypeOK, Witnessed, [Next]_vars, NEW q \in Requests PROVE Witness(q)'
  BY DEF Witnessed, Witness
<1>0. Witness(q)
  BY DEF Witnessed, Witness
<1>1. ASSUME NEW p \in Requests, Call(p) \/ Statement(p) \/ Return(p) PROVE Witness(q)'
  <2>1. CASE p = q
    BY <1>0, <1>1, <2>1, RequestWitness
  <2>2. CASE p # q
    BY <1>0, <1>1, <2>2, Others, WitnessKept
  <2> QED BY <2>1, <2>2
<1>2. CASE Midnight \/ Paperwork
  BY <1>0, <1>2, WorldWitness
<1>3. CASE UNCHANGED vars
  BY <1>0, <1>3, WitnessKept DEF vars, request, memory
<1> QED BY <1>1, <1>2, <1>3 DEF Next

(* What a request has read is witnessed by what it has lived through. *)
THEOREM ReadingsWitnessed == Spec => [](TypeOK /\ Witnessed)
<1>1. Init => TypeOK /\ Witnessed
  BY TypeInit, WitnessInit
<1>2. (TypeOK /\ Witnessed) /\ [Next]_vars => (TypeOK /\ Witnessed)'
  BY TypeStep, WitnessStep
<1> QED BY <1>1, <1>2, PTL DEF Spec

(* Nobody is called eligible without having met each requirement at some    *)
(* instant of the request.                                                  *)
THEOREM EligibilityEarned == Spec => []EligibleWasEarned
<1>1. TypeOK /\ Witnessed => EligibleWasEarned
  BY DEF EligibleWasEarned, Decided, Evaluate, Witnessed, Earned, RolesCurrent, Requirements,
     AfterRole, AfterHold, AfterTraining, AfterCheck
<1> QED BY <1>1, ReadingsWitnessed, PTL

(* Nobody is called lapsed who met every requirement all along, nobody is   *)
(* called suspended who was under no hold all along.                        *)
THEOREM RefusalJustified == Spec => []RefusalWasJustified
<1>1. TypeOK /\ Witnessed => RefusalWasJustified
  BY BoundAssumption DEF RefusalWasJustified, Decided, Evaluate, Witnessed, Justified,
     RolesCurrent, Requirements, AfterRole, AfterHold, AfterTraining, AfterCheck
<1> QED BY <1>1, ReadingsWitnessed, PTL

(* Under a hold all along, the decision is "suspended", whatever else.      *)
THEOREM HoldsOverride == Spec => []HoldOverrides
<1>1. TypeOK /\ Witnessed => HoldOverrides
  BY DEF HoldOverrides, Decided, Evaluate, Witnessed, Earned, AfterRole, AfterHold
<1> QED BY <1>1, ReadingsWitnessed, PTL
----------------------------------------------------------------------------
(* Undisturbed requests *)

FlagsExplain(p) ==
    Credentialed(p) /\ moved[p] = {} =>
        (SaysEligible(p) <=> inputs[p].holds = {} /\ AllValid(p))
Explained(p) ==
    /\ pc[p] = "idle" => arg[p].op = "none"
    /\ moved[p] = {} => Snapshot(p)
    /\ FlagsExplain(p)

(* The one date kept for the roles that need a credential: null when one of *)
(* them has none, otherwise no role's credentials end before it, and those  *)
(* of one role end with it.                                                 *)
LEMMA WeakestOnFileFacts ==
    ASSUME TypeOK, NEW m, NEW d, WeakestOnFile(m, d)
    PROVE  /\ d \in Dates
           /\ RequiredRoles(m) = {} => d = NoDate
           /\ d = NoDate /\ RequiredRoles(m) # {} =>
                \E role \in RequiredRoles(m) : OwnCredentials(m, role) = {}
           /\ d # NoDate =>
                /\ \A role \in RequiredRoles(m) : \E r \in OwnCredentials(m, role) : d <= r.to
                /\ \E role \in RequiredRoles(m) : \A r \in OwnCredentials(m, role) : r.to <= d
<1> DEFINE due == RequiredRoles(m)
<1>1. PICK latest \in [due -> Expiries] :
         /\ \A role \in due : latest[role] \in Latest(OwnCredentials(m, role))
         /\ d \in WeakestLink({latest[role] : role \in due})
  BY DEF WeakestOnFile
<1> DEFINE dates == {latest[role] : role \in due}
<1>2. dates \in SUBSET Dates /\ d \in WeakestLink(dates)
  BY <1>1, ExpiryDates
<1>3. /\ \A role \in due : latest[role] \in dates
      /\ \A e \in dates : \E role \in due : e = latest[role]
  OBVIOUS
<1>4. ASSUME NEW role \in due
      PROVE  /\ latest[role] = NoDate <=> OwnCredentials(m, role) = {}
             /\ latest[role] # NoDate =>
                  /\ latest[role] \in Nat
                  /\ \E r \in OwnCredentials(m, role) : r.to = latest[role]
                  /\ \A r \in OwnCredentials(m, role) : r.to <= latest[role]
  <2>1. \A r \in OwnCredentials(m, role) : r.to \in Nat
    BY RowFacts DEF OwnCredentials
  <2>2. latest[role] \in Latest(OwnCredentials(m, role))
    BY <1>1
  <2> QED BY <2>1, <2>2, LatestFacts
<1> HIDE DEF dates, due
<1>5. /\ d \in Dates
      /\ NoDate \in dates => d = NoDate
      /\ NoDate \notin dates /\ dates # {} => d \in dates /\ \A e \in dates : d <= e
  BY <1>2, WeakestFacts
<1>6. dates = {} => d = NoDate
  BY <1>2 DEF WeakestLink, Earliest
<1>7. d = NoDate /\ due # {} => \E role \in due : OwnCredentials(m, role) = {}
  <2> SUFFICES ASSUME d = NoDate, due # {} PROVE \E role \in due : OwnCredentials(m, role) = {}
    OBVIOUS
  <2>1. NoDate \in dates
    BY <1>3, <1>5
  <2> QED BY <1>3, <1>4, <2>1
<1>8. ASSUME d # NoDate
      PROVE  /\ \A role \in due : \E r \in OwnCredentials(m, role) : d <= r.to
             /\ \E role \in due : \A r \in OwnCredentials(m, role) : r.to <= d
  <2>1. NoDate \notin dates /\ d \in dates /\ \A e \in dates : d <= e
    BY <1>5, <1>6, <1>8
  <2>2. ASSUME NEW role \in due PROVE \E r \in OwnCredentials(m, role) : d <= r.to
    BY <1>3, <1>4, <2>1
  <2>3. \E role \in due : \A r \in OwnCredentials(m, role) : r.to <= d
    <3>1. PICK role \in due : d = latest[role]
      BY <1>3, <2>1
    <3> QED BY <1>4, <1>8, <3>1
  <2> QED BY <2>2, <2>3
<1>9. due = {} => d = NoDate
  BY <1>3, <1>6
<1> QED BY <1>5, <1>7, <1>8, <1>9 DEF due

(* What is on file depends on nothing but the file and the date. *)
LEMMA OnFileFrame ==
    ASSUME UNCHANGED world
    PROVE  \A m, d : /\ CheckOnFile(m, d)' = CheckOnFile(m, d)
                     /\ TrainingOnFile(m, d)' = TrainingOnFile(m, d)
                     /\ WeakestOnFile(m, d)' = WeakestOnFile(m, d)
                     /\ RequiredRoles(m)' = RequiredRoles(m)
BY DEF world, file, CheckOnFile, TrainingOnFile, WeakestOnFile, OwnCredentials, RequiredRoles

(* A request that takes no step while another one does, or while nothing    *)
(* happens.                                                                 *)
LEMMA ExplainedKept ==
    ASSUME NEW p \in Requests, Explained(p), UNCHANGED world,
           pc'[p] = pc[p], arg'[p] = arg[p], inputs'[p] = inputs[p],
           out'[p] = out[p], moved'[p] = moved[p]
    PROVE  Explained(p)'
<1>1. today' = today
  BY DEF world
<1>2. \A m, d : /\ CheckOnFile(m, d)' = CheckOnFile(m, d)
                /\ TrainingOnFile(m, d)' = TrainingOnFile(m, d)
                /\ WeakestOnFile(m, d)' = WeakestOnFile(m, d)
                /\ RequiredRoles(m)' = RequiredRoles(m)
  BY OnFileFrame
<1>3. ASSUME moved[p] = {} PROVE Snapshot(p)'
  <2>1. Snapshot(p)
    BY <1>3 DEF Explained
  <2> QED BY <1>1, <1>2, <2>1 DEF Snapshot
<1>4. FlagsExplain(p)'
  BY DEF Explained, FlagsExplain, Credentialed, SaysEligible, AllValid
<1> QED BY <1>3, <1>4 DEF Explained

(* A request that has only begun claims nothing; one that has answered      *)
(* explains itself by the answer.                                           *)
LEMMA ExplainedFresh ==
    ASSUME NEW p \in Requests,
           \/ pc'[p] = "resolve"
           \/ pc'[p] = "load" /\ arg'[p].op # "credentials"
    PROVE  Explained(p)'
BY DEF Explained, Snapshot, FlagsExplain, Credentialed, AfterNow, AfterCheck, AfterTraining,
   AfterHold, AfterRole

LEMMA ExplainedDone ==
    ASSUME NEW p \in Requests,
           \/ pc'[p] = "idle" /\ arg'[p].op = "none"
           \/ pc'[p] = "replied" /\ (arg'[p].op # "credentials" \/ out'[p].kind # "ok")
    PROVE  Explained(p)'
BY DEF Explained, Snapshot, FlagsExplain, Credentialed, AfterNow, AfterCheck, AfterTraining,
   AfterHold, AfterRole

(* A statement that gathers inputs: the snapshot is what it read before and *)
(* what it reads now.                                                       *)
LEMMA GatherKept ==
    ASSUME TypeOK, NEW p \in Requests, NEW in, NEW label \in Reading \cup {"judged"},
           Gather(p, in, label)
    PROVE  /\ pc'[p] = label /\ arg'[p] = arg[p] /\ out'[p] = out[p] /\ moved'[p] = moved[p]
           /\ inputs'[p] = in /\ today' = today /\ UNCHANGED world
           /\ FlagsExplain(p)'
<1>1. /\ pc'[p] = label /\ arg'[p] = arg[p] /\ out'[p] = out[p] /\ moved'[p] = moved[p]
      /\ inputs'[p] = in /\ today' = today /\ UNCHANGED world
  BY DEF Gather, Goto, memory, world, TypeOK
<1>2. FlagsExplain(p)'
  BY <1>1 DEF FlagsExplain, Credentialed, Reading
<1> QED BY <1>1, <1>2

LEMMA NowExplained ==
    ASSUME TypeOK, NEW p \in Requests, Explained(p), TakeNow(p) PROVE Explained(p)'
<1> DEFINE in == [NoInputs EXCEPT !.now = today]
<1>1. Gather(p, in, "member") /\ pc[p] = "load" /\ in.now = today
  BY DEF TakeNow, NoInputs
<1> HIDE DEF in
<1>2. /\ pc'[p] = "member" /\ arg'[p] = arg[p] /\ out'[p] = out[p] /\ moved'[p] = moved[p]
      /\ inputs'[p] = in /\ today' = today /\ UNCHANGED world
      /\ FlagsExplain(p)'
  BY <1>1, GatherKept DEF Reading
<1>3. \A m : RequiredRoles(m)' = RequiredRoles(m)
  BY <1>2, OnFileFrame
<1>4. moved[p] = {} => Snapshot(p)'
  BY <1>1, <1>2, <1>3 DEF Explained, Snapshot, AfterNow, AfterCheck, AfterTraining,
     AfterHold, AfterRole
<1> QED BY <1>2, <1>4 DEF Explained

LEMMA CheckExplained ==
    ASSUME TypeOK, NEW p \in Requests, Explained(p), ReadChecks(p) PROVE Explained(p)'
<1>1. PICK d : /\ CheckOnFile(arg[p].member, d)
               /\ Gather(p, [inputs[p] EXCEPT !.check = d], "training")
  BY DEF ReadChecks, CheckOnFile
<1> DEFINE in == [inputs[p] EXCEPT !.check = d]
<1>2. pc[p] = "check" /\ in.check = d /\ in.now = inputs[p].now
  BY DEF ReadChecks, TypeOK, Inputs
<1> HIDE DEF in
<1>3. /\ pc'[p] = "training" /\ arg'[p] = arg[p] /\ out'[p] = out[p] /\ moved'[p] = moved[p]
      /\ inputs'[p] = in /\ today' = today /\ UNCHANGED world
      /\ FlagsExplain(p)'
  BY <1>1, GatherKept DEF Reading, in
<1>4. /\ \A m : RequiredRoles(m)' = RequiredRoles(m)
      /\ \A m, e : CheckOnFile(m, e)' = CheckOnFile(m, e)
  BY <1>3, OnFileFrame
<1>5. moved[p] = {} => Snapshot(p)'
  BY <1>1, <1>2, <1>3, <1>4 DEF Explained, Snapshot, AfterNow, AfterCheck, AfterTraining,
     AfterHold, AfterRole
<1> QED BY <1>3, <1>5 DEF Explained

LEMMA TrainingExplained ==
    ASSUME TypeOK, NEW p \in Requests, Explained(p), ReadTrainings(p) PROVE Explained(p)'
<1>1. PICK d : /\ TrainingOnFile(arg[p].member, d)
               /\ Gather(p, [inputs[p] EXCEPT !.training = d], "hold")
  BY DEF ReadTrainings, TrainingOnFile
<1> DEFINE in == [inputs[p] EXCEPT !.training = d]
<1>2. /\ pc[p] = "training" /\ in.training = d /\ in.now = inputs[p].now
      /\ in.check = inputs[p].check
  BY DEF ReadTrainings, TypeOK, Inputs
<1> HIDE DEF in
<1>3. /\ pc'[p] = "hold" /\ arg'[p] = arg[p] /\ out'[p] = out[p] /\ moved'[p] = moved[p]
      /\ inputs'[p] = in /\ today' = today /\ UNCHANGED world
      /\ FlagsExplain(p)'
  BY <1>1, GatherKept DEF Reading, in
<1>4. /\ \A m : RequiredRoles(m)' = RequiredRoles(m)
      /\ \A m, e : CheckOnFile(m, e)' = CheckOnFile(m, e)
      /\ \A m, e : TrainingOnFile(m, e)' = TrainingOnFile(m, e)
  BY <1>3, OnFileFrame
<1>5. moved[p] = {} => Snapshot(p)'
  BY <1>1, <1>2, <1>3, <1>4 DEF Explained, Snapshot, AfterNow, AfterCheck, AfterTraining,
     AfterHold, AfterRole
<1> QED BY <1>3, <1>5 DEF Explained

LEMMA HoldExplained ==
    ASSUME TypeOK, NEW p \in Requests, Explained(p), ReadHolds(p) PROVE Explained(p)'
<1> DEFINE in == [inputs[p] EXCEPT !.holds = ActiveHolds(arg[p].member, today)]
<1>1. Gather(p, in, "role")
  BY DEF ReadHolds
<1>2. /\ pc[p] = "hold" /\ in.training = inputs[p].training /\ in.now = inputs[p].now
      /\ in.check = inputs[p].check
  BY DEF ReadHolds, TypeOK, Inputs
<1> HIDE DEF in
<1>3. /\ pc'[p] = "role" /\ arg'[p] = arg[p] /\ out'[p] = out[p] /\ moved'[p] = moved[p]
      /\ inputs'[p] = in /\ today' = today /\ UNCHANGED world
      /\ FlagsExplain(p)'
  BY <1>1, GatherKept DEF Reading
<1>4. /\ \A m : RequiredRoles(m)' = RequiredRoles(m)
      /\ \A m, e : CheckOnFile(m, e)' = CheckOnFile(m, e)
      /\ \A m, e : TrainingOnFile(m, e)' = TrainingOnFile(m, e)
  BY <1>3, OnFileFrame
<1>5. moved[p] = {} => Snapshot(p)'
  BY <1>1, <1>2, <1>3, <1>4 DEF Explained, Snapshot, AfterNow, AfterCheck, AfterTraining,
     AfterHold, AfterRole
<1> QED BY <1>3, <1>5 DEF Explained

LEMMA RoleExplained ==
    ASSUME TypeOK, NEW p \in Requests, Explained(p), ReadRoles(p) PROVE Explained(p)'
<1>0. PICK b : b = (RequiredRoles(arg[p].member) # {})
  OBVIOUS
<1>1. PICK d : /\ WeakestOnFile(arg[p].member, d)
               /\ Gather(p, [inputs[p] EXCEPT !.required = b, !.role = d], "judged")
  BY <1>0 DEF ReadRoles, WeakestOnFile
<1> DEFINE in == [inputs[p] EXCEPT !.required = b, !.role = d]
<1>2. /\ pc[p] = "role" /\ in.training = inputs[p].training /\ in.now = inputs[p].now
      /\ in.check = inputs[p].check /\ in.required = b /\ in.role = d
  BY DEF ReadRoles, TypeOK, Inputs
<1> HIDE DEF in
<1>3. /\ pc'[p] = "judged" /\ arg'[p] = arg[p] /\ out'[p] = out[p] /\ moved'[p] = moved[p]
      /\ inputs'[p] = in /\ today' = today /\ UNCHANGED world
      /\ FlagsExplain(p)'
  BY <1>1, GatherKept DEF in
<1>4. /\ \A m : RequiredRoles(m)' = RequiredRoles(m)
      /\ \A m, e : CheckOnFile(m, e)' = CheckOnFile(m, e)
      /\ \A m, e : TrainingOnFile(m, e)' = TrainingOnFile(m, e)
      /\ \A m, e : WeakestOnFile(m, e)' = WeakestOnFile(m, e)
  BY <1>3, OnFileFrame
<1>5. moved[p] = {} => Snapshot(p)'
  <2> SUFFICES ASSUME moved[p] = {} PROVE Snapshot(p)'
    OBVIOUS
  <2>1. /\ arg[p].op = "credentials" => out[p].roles = RequiredRoles(arg[p].member)
        /\ inputs[p].now = today /\ CheckOnFile(arg[p].member, inputs[p].check)
        /\ TrainingOnFile(arg[p].member, inputs[p].training)
    BY <1>2 DEF Explained, Snapshot, AfterNow, AfterCheck, AfterTraining, AfterHold
  <2>2. inputs'[p].required = (RequiredRoles(arg[p].member) # {})
    BY <1>0, <1>2, <1>3
  <2>3. inputs'[p].required = (RequiredRoles(arg[p].member)' # {})
    BY <1>3, <1>4, <2>2 DEF RequiredRoles
  <2> QED BY <1>1, <1>2, <1>3, <1>4, <2>1, <2>3 DEF Snapshot
<1> QED BY <1>3, <1>5 DEF Explained

(* A rule on the weakest date is a rule on every role's credentials. *)
LEMMA RolesCurrentMeans ==
    ASSUME TypeOK, NEW p \in Requests, inputs[p].now = today,
           inputs[p].required = (RequiredRoles(arg[p].member) # {}),
           WeakestOnFile(arg[p].member, inputs[p].role)
    PROVE  RolesCurrent(inputs[p]) <=>
             \A role \in RequiredRoles(arg[p].member) :
                \E r \in OwnCredentials(arg[p].member, role) : today <= r.to
<1> DEFINE due == RequiredRoles(arg[p].member)
           own(role) == OwnCredentials(arg[p].member, role)
           d == inputs[p].role
<1>1. /\ d \in Dates
      /\ d = NoDate /\ due # {} => \E role \in due : own(role) = {}
      /\ d # NoDate => /\ \A role \in due : \E r \in own(role) : d <= r.to
                       /\ \E role \in due : \A r \in own(role) : r.to <= d
  BY WeakestOnFileFacts
<1>2. inputs[p].graceDays = 0 /\ today \in Nat
  BY NoGrace DEF TypeOK
<1>3. \A role : \A r \in own(role) : r.to \in Nat
  BY RowFacts DEF OwnCredentials
<1>4. RolesCurrent(inputs[p]) <=> (due # {} => d # NoDate /\ today <= d)
  <2>1. RolesCurrent(inputs[p]) <=> (due # {} => Current(today, d, 0))
    BY <1>2 DEF RolesCurrent
  <2>2. Current(today, d, 0) <=> d # NoDate /\ today <= d
    BY <1>1, <1>2 DEF Current, Dates
  <2> QED BY <2>1, <2>2
<1> HIDE DEF due, own, d
<1>5. ASSUME d # NoDate, today <= d, NEW role \in due
      PROVE  \E r \in own(role) : today <= r.to
  <2>1. PICK r \in own(role) : d <= r.to
    BY <1>1, <1>5
  <2>2. r.to \in Nat /\ d \in Nat
    BY <1>1, <1>3, <1>5 DEF Dates
  <2> QED BY <1>2, <1>5, <2>1, <2>2
<1>6. ASSUME \A role \in due : \E r \in own(role) : today <= r.to, due # {}
      PROVE  d # NoDate /\ today <= d
  <2>1. d # NoDate
    BY <1>1, <1>6
  <2>2. PICK role \in due : \A r \in own(role) : r.to <= d
    BY <1>1, <2>1
  <2>3. PICK r \in own(role) : today <= r.to
    BY <1>6
  <2>4. r.to \in Nat /\ d \in Nat
    BY <1>1, <1>3, <2>1 DEF Dates
  <2> QED BY <1>2, <2>1, <2>2, <2>3, <2>4
<1>7. RolesCurrent(inputs[p]) <=> \A role \in due : \E r \in own(role) : today <= r.to
  BY <1>4, <1>5, <1>6
<1> QED BY <1>7 DEF due, own

(* The credentials answer: its flags are computed from another query than   *)
(* the decision, and say the same.                                          *)
LEMMA ListExplained ==
    ASSUME TypeOK, NEW p \in Requests, Explained(p), ListCredentials(p) PROVE Explained(p)'
<1>1. PICK c, t : /\ c = Current(inputs[p].now, inputs[p].check, inputs[p].graceDays)
                  /\ t = Current(inputs[p].now, inputs[p].training, inputs[p].graceDays)
  OBVIOUS
<1> DEFINE in == inputs[p]
           m == arg[p].member
           valid(r) == r.from <= in.now /\ Current(in.now, r.to, in.graceDays)
           listed == {[row |-> r, valid |-> valid(r)] : r \in {x \in credentials : x.member = m}}
           answer == [out[p] EXCEPT !.kind = "ok", !.listed = listed,
                        !.decisions = {Decision(p, NoDate)}, !.check = c, !.training = t]
<1>2. /\ pc[p] = "judged" /\ pc'[p] = "replied" /\ arg[p].op = "credentials"
      /\ out'[p] = answer /\ UNCHANGED <<world, arg, inputs, memory>>
  BY <1>1 DEF ListCredentials, Answer, Goto, Build, TypeOK
<1>3. /\ answer.roles = out[p].roles /\ answer.listed = listed
      /\ answer.decisions = {Decision(p, NoDate)} /\ answer.check = c /\ answer.training = t
  <2>1. out[p] \in AnswerType
    BY DEF TypeOK
  <2> HIDE DEF listed
  <2> QED BY <2>1 DEF AnswerType
<1> HIDE DEF listed, answer
<1>4. moved' = moved /\ inputs' = inputs /\ arg' = arg
  BY <1>2 DEF memory
<1>5. Snapshot(p)'
  BY <1>2 DEF Snapshot, AfterNow, AfterCheck, AfterTraining, AfterHold, AfterRole
<1>6. ASSUME moved[p] = {}
      PROVE  SaysEligible(p)' <=> inputs'[p].holds = {} /\ AllValid(p)'
  <2>1. /\ out[p].roles = RequiredRoles(m) /\ in.now = today
        /\ in.required = (RequiredRoles(m) # {}) /\ WeakestOnFile(m, in.role)
    BY <1>2, <1>6 DEF Explained, Snapshot, AfterNow, AfterCheck, AfterTraining, AfterHold,
       AfterRole
  <2>2. SaysEligible(p)' <=> Evaluate(in) = "eligible"
    <3>1. SaysEligible(p)' <=> Decision(p, NoDate).status = "eligible"
      BY <1>2, <1>3 DEF SaysEligible
    <3> QED BY <3>1 DEF Decision
  <2>3. Evaluate(in) = "eligible" <=>
          /\ in.holds = {} /\ RolesCurrent(in)
          /\ Current(in.now, in.check, in.graceDays)
          /\ Current(in.now, in.training, in.graceDays)
    BY DEF Evaluate, RolesCurrent
  <2>4. RolesCurrent(in) <=>
          \A role \in RequiredRoles(m) : \E r \in OwnCredentials(m, role) : today <= r.to
    BY <2>1, RolesCurrentMeans
  <2>5. AllValid(p)' <=>
          /\ c /\ t
          /\ \A role \in RequiredRoles(m) : \E x \in listed : x.row.role = role /\ x.valid
    BY <1>2, <1>3, <2>1 DEF AllValid
  <2>6. ASSUME NEW role
        PROVE  (\E x \in listed : x.row.role = role /\ x.valid) <=>
                  \E r \in OwnCredentials(m, role) : today <= r.to
    <3>1. ASSUME NEW r \in credentials
          PROVE  valid(r) <=> r.from <= today /\ today <= r.to
      <4>1. r.from \in Nat /\ r.to \in Nat /\ r.to # NoDate /\ today \in Nat /\ in.graceDays = 0
        BY RowFacts, NoGrace, BoundAssumption DEF TypeOK
      <4> QED BY <2>1, <4>1 DEF Current
    <3>2. (\E x \in listed : x.row.role = role /\ x.valid) <=>
            \E r \in credentials : r.member = m /\ r.role = role /\ valid(r)
      <4> HIDE DEF valid, m
      <4>1. ASSUME NEW x \in listed, x.row.role = role, x.valid
            PROVE  \E r \in credentials : r.member = m /\ r.role = role /\ valid(r)
        <5>1. PICK r \in credentials : r.member = m /\ x = [row |-> r, valid |-> valid(r)]
          BY Zenon DEF listed
        <5>2. x.row = r /\ x.valid = valid(r)
          BY <5>1, Zenon
        <5> QED BY <4>1, <5>1, <5>2, Zenon
      <4>2. ASSUME NEW r \in credentials, r.member = m, r.role = role, valid(r)
            PROVE  \E x \in listed : x.row.role = role /\ x.valid
        <5>1. [row |-> r, valid |-> valid(r)] \in listed
          BY <4>2, Zenon DEF listed
        <5> QED BY <4>2, <5>1, Zenon
      <4> QED BY <4>1, <4>2
    <3> HIDE DEF valid
    <3> QED BY <3>1, <3>2 DEF OwnCredentials
  <2> HIDE DEF in, m
  <2>7. inputs'[p].holds = in.holds
    BY <1>4 DEF in
  <2>8. /\ c <=> Current(in.now, in.check, in.graceDays)
        /\ t <=> Current(in.now, in.training, in.graceDays)
    BY <1>1, Zenon DEF in
  <2> QED BY <2>2, <2>3, <2>4, <2>5, <2>6, <2>7, <2>8, Zenon
<1>7. FlagsExplain(p)'
  BY <1>4, <1>6 DEF FlagsExplain
<1> QED BY <1>2, <1>5, <1>7 DEF Explained

LEMMA RequestExplained ==
    ASSUME TypeOK, NEW p \in Requests, Explained(p), Call(p) \/ Statement(p) \/ Return(p)
    PROVE  Explained(p)'
<1>1. ASSUME NEW m \in Members, EligibilityBegin(p, m) \/ CredentialsBegin(p, m)
      PROVE  Explained(p)'
  <2>1. CASE EligibilityBegin(p, m)
    <3>1. pc'[p] = "load" /\ arg'[p].op = "eligibility"
      BY <2>1 DEF EligibilityBegin, TurnTo, Goto, TypeOK
    <3> QED BY <3>1, ExplainedFresh
  <2>2. CASE CredentialsBegin(p, m)
    <3>1. pc'[p] = "resolve"
      BY <2>2 DEF CredentialsBegin, TurnTo, Goto, TypeOK
    <3> QED BY <3>1, ExplainedFresh
  <2> QED BY <1>1, <2>1, <2>2
<1>2. CASE ComplianceBegin(p)
  <2>1. CASE members = {}
    <3>1. pc'[p] = "replied" /\ arg'[p] = arg[p] /\ moved'[p] = moved[p]
      BY <1>2, <2>1 DEF ComplianceBegin, Answer, Goto, memory, TypeOK
    <3>2. arg[p].op = "none"
      BY <1>2 DEF ComplianceBegin, Explained
    <3>3. arg'[p].op # "credentials"
      BY <3>1, <3>2
    <3> QED BY <3>1, <3>3, ExplainedDone
  <2>2. CASE members # {}
    <3>1. pc'[p] = "load" /\ arg'[p].op = "compliance"
      BY <1>2, <2>2 DEF ComplianceBegin, TurnTo, Goto, TypeOK
    <3> QED BY <3>1, ExplainedFresh
  <2> QED BY <2>1, <2>2
<1>3. CASE Resolve(p)
  <2>1. CASE arg[p].member \notin members
    BY <1>3, <2>1, ExplainedDone DEF Resolve, Answer, Goto, NoAnswer, TypeOK
  <2>2. CASE arg[p].member \in members
    <3>1. /\ pc'[p] = "load" /\ arg'[p] = arg[p] /\ moved'[p] = moved[p] /\ UNCHANGED world
          /\ out'[p].roles = RequiredRoles(arg[p].member)
      BY <1>3, <2>2 DEF Resolve, Goto, memory, TypeOK, AnswerType
    <3>2. \A m : RequiredRoles(m)' = RequiredRoles(m)
      BY <3>1, OnFileFrame
    <3> QED BY <3>1, <3>2 DEF Explained, Snapshot, FlagsExplain, Credentialed, AfterNow,
            AfterCheck, AfterTraining, AfterHold, AfterRole
  <2> QED BY <2>1, <2>2
<1>4. CASE FindMember(p)
  <2>1. CASE arg[p].member \notin members
    BY <1>4, <2>1, ExplainedDone DEF FindMember, Answer, Goto, NoAnswer, TypeOK
  <2>2. CASE arg[p].member \in members
    <3>1. /\ pc[p] = "member" /\ pc'[p] = "check" /\ arg'[p] = arg[p] /\ moved'[p] = moved[p]
          /\ UNCHANGED world /\ today' = today /\ out'[p] = out[p] /\ inputs'[p] = inputs[p]
      BY <1>4, <2>2 DEF FindMember, Goto, memory, world, TypeOK
    <3>2. \A m : RequiredRoles(m)' = RequiredRoles(m)
      BY <3>1, OnFileFrame
    <3> QED BY <3>1, <3>2 DEF Explained, Snapshot, FlagsExplain, Credentialed, AfterNow,
            AfterCheck, AfterTraining, AfterHold, AfterRole
  <2> QED BY <2>1, <2>2
<1>5. CASE Judge(p)
  <2>1. CASE todo[p] = {}
    BY <1>5, <2>1, ExplainedDone DEF Judge, Answer, Goto, TypeOK
  <2>2. CASE todo[p] # {}
    BY <1>5, <2>2, ExplainedFresh DEF Judge, TurnTo, Goto, TypeOK
  <2> QED BY <2>1, <2>2
<1>6. CASE Return(p)
  BY <1>6, ExplainedDone DEF Return, Goto, NoArg, TypeOK
<1> QED BY <1>1, <1>2, <1>3, <1>4, <1>5, <1>6, NowExplained, CheckExplained,
        TrainingExplained, HoldExplained, RoleExplained, ListExplained DEF Call, Statement

(* A midnight or an edit disturbs every request under way; one that has     *)
(* answered keeps its answer.                                               *)
LEMMA WorldExplained ==
    ASSUME TypeOK, Midnight \/ Paperwork, NEW p \in Requests, Explained(p)
    PROVE  Explained(p)'
<1>1. PICK what \in {"date", "file"} : Remember(what)
  BY WorldStep
<1>2. /\ pc' = pc /\ arg' = arg /\ inputs' = inputs /\ out' = out
      /\ moved'[p] = IF pc[p] \in {"idle", "replied"} THEN moved[p] ELSE moved[p] \cup {what}
  BY <1>1 DEF Remember, request
<1>3. CASE pc[p] \in {"idle", "replied"}
  <2>1. Snapshot(p)'
    BY <1>2, <1>3 DEF Snapshot, AfterNow, AfterCheck, AfterTraining, AfterHold, AfterRole
  <2>2. FlagsExplain(p)'
    BY <1>2, <1>3 DEF Explained, FlagsExplain, Credentialed, SaysEligible, AllValid
  <2> QED BY <1>2, <2>1, <2>2 DEF Explained
<1>4. CASE pc[p] \notin {"idle", "replied"}
  <2>1. moved'[p] # {}
    BY <1>2, <1>4
  <2> QED BY <1>2, <1>4, <2>1 DEF Explained, FlagsExplain
<1> QED BY <1>3, <1>4

LEMMA ExplainedInit == Init => \A p \in Requests : Explained(p)
BY DEF Init, NoArg, Explained, Snapshot, FlagsExplain, Credentialed, AfterNow, AfterCheck,
   AfterTraining, AfterHold, AfterRole

LEMMA ExplainedStep ==
    ASSUME TypeOK, \A p \in Requests : Explained(p), [Next]_vars, NEW q \in Requests
    PROVE  Explained(q)'
<1>1. ASSUME NEW p \in Requests, Call(p) \/ Statement(p) \/ Return(p) PROVE Explained(q)'
  <2>1. CASE p = q
    BY <1>1, <2>1, RequestExplained
  <2>2. CASE p # q
    BY <1>1, <2>2, Others, OtherAnswers, ExplainedKept
  <2> QED BY <2>1, <2>2
<1>2. CASE Midnight \/ Paperwork
  BY <1>2, WorldExplained
<1>3. CASE UNCHANGED vars
  BY <1>3, ExplainedKept DEF vars, request, memory
<1> QED BY <1>1, <1>2, <1>3 DEF Next

(* What the file said when an undisturbed request read it, it says still,   *)
(* and an undisturbed answer is explained by its flags.                     *)
THEOREM ReadingsUndisturbed == Spec => [](TypeOK /\ SnapshotsKept /\ FlagsExplainDecision)
<1> DEFINE Inv == TypeOK /\ \A p \in Requests : Explained(p)
<1>1. Init => Inv
  BY TypeInit, ExplainedInit
<1>2. Inv /\ [Next]_vars => Inv'
  BY TypeStep, ExplainedStep
<1>3. Inv => TypeOK /\ SnapshotsKept /\ FlagsExplainDecision
  BY DEF Explained, SnapshotsKept, FlagsExplain, FlagsExplainDecision
<1> HIDE DEF Inv
<1> QED BY <1>1, <1>2, <1>3, PTL DEF Spec

(* While nothing moves, the credentials contract calls a member eligible    *)
(* exactly when it shows no hold and a valid credential for everything.     *)
THEOREM FlagsExplained == Spec => []FlagsExplainDecision
BY ReadingsUndisturbed, PTL

(* The day a decision stands to, from the rows on file. *)
LEMMA NextStands ==
    ASSUME TypeOK, NEW p \in Requests, pc[p] = "judged", Snapshot(p),
           Evaluate(inputs[p]) = "eligible", NEW next \in NextExpiration(inputs[p])
    PROVE  /\ MetFromToday(arg[p].member, next)
           /\ ~ MetFromToday(arg[p].member, next + 1)
<1> DEFINE in == inputs[p]
           m == arg[p].member
           due == RequiredRoles(m)
           own(role) == OwnCredentials(m, role)
           approved == {r \in checks : /\ r.member = m /\ r.status = "approved"
                                       /\ r.from <= today}
           taken == {r \in trainings : r.member = m /\ r.from <= today}
<1>1. /\ in.required = (due # {}) /\ WeakestOnFile(m, in.role)
      /\ in.check \in Latest(approved) /\ in.training \in Latest(taken)
  BY DEF Snapshot, CheckOnFile, TrainingOnFile, AfterNow, AfterCheck, AfterTraining,
     AfterHold, AfterRole
<1>2. /\ in.check # NoDate /\ in.training # NoDate
      /\ due # {} => in.role # NoDate
  BY <1>1 DEF Evaluate, Current
<1>3. /\ \A r \in approved : r.to \in Nat
      /\ \A r \in taken : r.to \in Nat
      /\ \A role : \A r \in own(role) : r.to \in Nat
  BY RowFacts DEF OwnCredentials
<1>4. MetFromToday(m, next) <=>
        /\ \E r \in approved : next <= r.to
        /\ \E r \in taken : next <= r.to
        /\ \A role \in due : \E r \in own(role) : next <= r.to
  BY DEF MetFromToday, OwnCredentials
<1>5. MetFromToday(m, next + 1) <=>
        /\ \E r \in approved : next + 1 <= r.to
        /\ \E r \in taken : next + 1 <= r.to
        /\ \A role \in due : \E r \in own(role) : next + 1 <= r.to
  BY DEF MetFromToday, OwnCredentials
<1>6. /\ in.role \in Dates
      /\ due = {} => in.role = NoDate
      /\ in.role # NoDate =>
           /\ \A role \in due : \E r \in own(role) : in.role <= r.to
           /\ \E role \in due : \A r \in own(role) : r.to <= in.role
  BY <1>1, WeakestOnFileFacts
<1> HIDE DEF approved, taken, own, due
<1>7. /\ in.check \in Nat /\ \E r \in approved : r.to = in.check
      /\ \A r \in approved : r.to <= in.check
  BY <1>1, <1>2, <1>3, LatestFacts
<1>8. /\ in.training \in Nat /\ \E r \in taken : r.to = in.training
      /\ \A r \in taken : r.to <= in.training
  BY <1>1, <1>2, <1>3, LatestFacts
<1>9. in.role \in Nat \/ (in.role = NoDate /\ due = {})
  BY <1>2, <1>6 DEF Dates
<1>10. /\ next \in Nat /\ next <= in.check /\ next <= in.training
       /\ in.role # NoDate => next <= in.role
       /\ next \in {in.check, in.training, in.role}
  BY <1>7, <1>8, <1>9, BoundAssumption DEF NextExpiration, Earliest
<1>11. MetFromToday(m, next)
  <2>1. \E r \in approved : next <= r.to
    BY <1>7, <1>10
  <2>2. \E r \in taken : next <= r.to
    BY <1>8, <1>10
  <2>3. ASSUME NEW role \in due PROVE \E r \in own(role) : next <= r.to
    <3>1. in.role \in Nat /\ in.role # NoDate /\ next <= in.role
      BY <1>9, <1>10, BoundAssumption
    <3>2. PICK r \in own(role) : in.role <= r.to
      BY <1>6, <3>1
    <3> QED BY <1>3, <1>10, <3>1, <3>2
  <2> QED BY <1>4, <2>1, <2>2, <2>3
<1>12. ~ MetFromToday(m, next + 1)
  <2>1. CASE next = in.check
    BY <1>3, <1>5, <1>7, <1>10, <2>1
  <2>2. CASE next = in.training
    BY <1>3, <1>5, <1>8, <1>10, <2>2
  <2>3. CASE next = in.role
    <3>1. in.role # NoDate
      BY <1>10, <2>3, BoundAssumption
    <3>2. PICK role \in due : \A r \in own(role) : r.to <= next
      BY <1>6, <2>3, <3>1
    <3>3. \A r \in own(role) : ~ (next + 1 <= r.to)
      BY <1>3, <1>10, <3>2
    <3> QED BY <1>5, <3>2, <3>3
  <2> QED BY <1>10, <2>1, <2>2, <2>3
<1> QED BY <1>11, <1>12

(* The day the compliance list names is the day the decision stands to: by  *)
(* the rows in effect today the requirements are met through it, and one    *)
(* fails the day after.                                                     *)
THEOREM NextExpirationStands == Spec => []NextExpirationHolds
<1>1. TypeOK /\ SnapshotsKept => NextExpirationHolds
  BY NextStands DEF SnapshotsKept, NextExpirationHolds, Decided
<1> QED BY <1>1, ReadingsUndisturbed, PTL

=============================================================================
