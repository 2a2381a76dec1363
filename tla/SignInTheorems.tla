--------------------------- MODULE SignInTheorems ---------------------------
(***************************************************************************)
(* What holds of SignIn for every number of browsers, logins, codes and     *)
(* overlapping requests.  Everything follows from where the cookies, codes  *)
(* and tokens in the system come from (Traced).                             *)
(***************************************************************************)
EXTENDS SignInProps, TLAPS

----------------------------------------------------------------------------
(* Types *)

LEMMA Constants ==
    /\ NoStart = [browser |-> NoBrowser, at |-> 0]
    /\ Kept \in Reply /\ Rejected \in Reply
    /\ NoCall \in CallRecord
BY DEF NoStart, Kept, Rejected, Reply, NoCall, NoIssue, CallRecord

(* A response has its type when its cookies have theirs. *)
LEMMA RespondTyped ==
    ASSUME TypeOK, NEW p \in Calls, NEW reply \in Reply, Respond(p, reply)
    PROVE  pc' \in [Calls -> Labels] /\ call' \in [Calls -> CallRecord]
<1>1. call[p] \in CallRecord
  BY DEF TypeOK
<1>2. [call[p] EXCEPT !.reply = reply] \in CallRecord
  BY <1>1 DEF CallRecord
<1> QED BY <1>2 DEF TypeOK, Respond, Goto, Labels

LEMMA TypeStep ==
    ASSUME TypeOK, Traced, [Next]_vars
    PROVE  TypeOK'
<1> USE SignInAssumption, Constants DEF TypeOK
<1>1. CASE UNCHANGED vars
  BY <1>1 DEF vars, cookies, provider
<1>2. ASSUME NEW p \in Calls, NEW b \in Browsers, NEW t \in Logins, LoginOpen(p, b, t)
      PROVE  TypeOK'
  <2> DEFINE tx == [login |-> t, expiresAt |-> now + TransactionLife]
             r == [NoCall EXCEPT !.browser = b, !.state = t, !.reply.transaction = tx]
  <2>1. tx \in Transaction
    BY DEF Transaction
  <2>2. r \in CallRecord
    <3> HIDE DEF tx
    <3> QED BY <2>1 DEF NoCall, Kept, Reply, CallRecord
  <2>3. call' = [call EXCEPT ![p] = r]
    BY <1>2 DEF LoginOpen
  <2>4. call' \in [Calls -> CallRecord]
    <3> HIDE DEF r
    <3> QED BY <2>2, <2>3
  <2>5. pc' \in [Calls -> Labels]
    BY <1>2 DEF LoginOpen, Goto, Labels
  <2>6. started' \in [Logins -> [browser : Browsers, at : Nat] \cup {NoStart}]
    BY <1>2 DEF LoginOpen
  <2>7. alone' \subseteq Logins
    BY <1>2 DEF LoginOpen, StartedBy
  <2> HIDE DEF tx, r
  <2> QED BY <1>2, <2>4, <2>5, <2>6, <2>7 DEF LoginOpen, cookies, provider
<1>3. ASSUME NEW p \in Calls, NEW b \in Browsers, Logout(p, b)
      PROVE  TypeOK'
  <2> DEFINE r == [NoCall EXCEPT !.browser = b, !.reply.session = NoSession]
  <2>1. r \in CallRecord
    BY DEF NoCall, Kept, Reply, CallRecord
  <2>2. call' = [call EXCEPT ![p] = r]
    BY <1>3 DEF Logout
  <2>3. call' \in [Calls -> CallRecord]
    <3> HIDE DEF r
    <3> QED BY <2>1, <2>2
  <2>4. pc' \in [Calls -> Labels]
    BY <1>3 DEF Logout, Goto, Labels
  <2> HIDE DEF r
  <2> QED BY <1>3, <2>3, <2>4 DEF Logout, cookies, provider
<1>4. ASSUME NEW p \in Calls, NEW b \in Browsers, NEW url \in CallbackURLs, CallbackSend(p, b, url)
      PROVE  TypeOK'
  <2>1. url.code \in Codes \cup {NoCode} /\ url.state \in Logins \cup {NoLogin}
    BY <1>4 DEF CallbackURLs, Issue, NoIssue
  <2> DEFINE mine == url.state \in alone \cap StartedBy(b) /\ Diverted(url, transaction[b]) = {}
             r == [NoCall EXCEPT !.browser = b, !.sent = transaction[b], !.code = url.code,
                     !.state = url.state, !.alone = mine]
  <2>2. r \in CallRecord
    <3>1. mine \in BOOLEAN /\ transaction[b] \in Transaction \cup {NoTransaction}
      OBVIOUS
    <3>2. NoIssue \in Issue \cup {NoIssue} /\ Kept \in Reply
      OBVIOUS
    <3> HIDE DEF mine
    <3> DEFINE base == [NoCall EXCEPT !.browser = b, !.sent = transaction[b], !.code = url.code,
                          !.state = url.state]
    <3>3. base \in CallRecord
      BY <2>1, <3>1, <3>2 DEF NoCall, CallRecord
    <3>4. [base EXCEPT !.alone = mine] \in CallRecord
      <4> HIDE DEF base
      <4> QED BY <3>1, <3>3 DEF CallRecord
    <3> QED BY <3>4, Zenon
  <2> DEFINE others(q) == call[q].browser # b /\ call[q].state \notin Diverted(url, transaction[b])
  <2>3. \A q \in Calls : [call[q] EXCEPT !.alone = @ /\ others(q)] \in CallRecord
    <3> SUFFICES ASSUME NEW q \in Calls PROVE [call[q] EXCEPT !.alone = @ /\ others(q)] \in CallRecord
      OBVIOUS
    <3>1. others(q) \in BOOLEAN
      OBVIOUS
    <3> HIDE DEF others
    <3> QED BY <3>1 DEF CallRecord
  <2>4. call' = [q \in Calls |-> IF q = p THEN r ELSE [call[q] EXCEPT !.alone = @ /\ others(q)]]
    BY <1>4 DEF CallbackSend, Sending
  <2> HIDE DEF others
  <2>5. call' \in [Calls -> CallRecord]
    <3> HIDE DEF r
    <3> QED BY <2>2, <2>3, <2>4
  <2>6. pc' \in [Calls -> Labels]
    BY <1>4 DEF CallbackSend, Goto, Labels
  <2>7. alone' \subseteq Logins
    BY <1>4 DEF CallbackSend
  <2> HIDE DEF r
  <2> QED BY <1>4, <2>5, <2>6, <2>7 DEF CallbackSend, cookies, provider
<1>5. ASSUME NEW p \in Calls, CallbackOpen(p)
      PROVE  TypeOK'
  <2>1. pc' \in [Calls -> Labels] /\ call' \in [Calls -> CallRecord]
    <3>1. CASE Goto(p, "exchange") /\ UNCHANGED call
      BY <3>1 DEF Goto, Labels
    <3>2. CASE Respond(p, Rejected)
      BY <3>2, RespondTyped
    <3> QED BY <1>5, <3>1, <3>2 DEF CallbackOpen
  <2> QED BY <1>5, <2>1 DEF CallbackOpen, cookies, provider
<1>6. ASSUME NEW p \in Calls, Token(p)
      PROVE  TypeOK'
  <2>1. pc' \in [Calls -> Labels] /\ call' \in [Calls -> CallRecord]
    <3>1. CASE /\ Grants(p) /\ Goto(p, "verify")
               /\ call' = [call EXCEPT ![p].token = issued[call[p].code]]
      <4>1. issued[call[p].code] \in Issue \cup {NoIssue}
        BY <3>1 DEF Grants
      <4>2. [call[p] EXCEPT !.token = issued[call[p].code]] \in CallRecord
        BY <4>1 DEF CallRecord
      <4> QED BY <3>1, <4>2 DEF Goto, Labels
    <3>2. CASE Respond(p, Rejected)
      BY <3>2, RespondTyped
    <3> QED BY <1>6, <3>1, <3>2 DEF Token
  <2> QED BY <1>6, <2>1 DEF Token, cookies
<1>7. ASSUME NEW p \in Calls, Verify(p)
      PROVE  TypeOK'
  <2>1. CallTraced(p) /\ pc[p] = "verify"
    BY <1>7 DEF Traced, CallsTraced, Verify
  <2>2. call[p].code \in Codes /\ call[p].token \in Issue
    <3>1. call[p] \in CallRecord
      OBVIOUS
    <3>2. call[p].code # NoCode /\ call[p].token # NoIssue
      BY <2>1 DEF CallTraced
    <3> QED BY <3>1, <3>2 DEF CallRecord
  <2> DEFINE new == [subject |-> call[p].token.subject, token |-> call[p].code]
             reply == IF call[p].token.login = call[p].sent.login
                      THEN [Rejected EXCEPT !.session = new] ELSE Rejected
  <2>3. new \in Session
    BY <2>2 DEF Session, Issue
  <2>4. [Rejected EXCEPT !.session = new] \in Reply
    <3> HIDE DEF new
    <3> QED BY <2>3 DEF Rejected, Kept, Reply
  <2>5. Respond(p, reply)
    BY <1>7 DEF Verify
  <2>6. pc' \in [Calls -> Labels] /\ call' \in [Calls -> CallRecord]
    <3>1. reply \in Reply
      BY <2>4
    <3> HIDE DEF reply
    <3> QED BY <2>5, <3>1, RespondTyped
  <2> HIDE DEF reply
  <2> QED BY <1>7, <2>6 DEF Verify, cookies, provider
<1>8. ASSUME NEW p \in Calls, Fail(p)
      PROVE  TypeOK'
  <2>1. pc' \in [Calls -> Labels] /\ call' \in [Calls -> CallRecord]
    BY <1>8, RespondTyped DEF Fail
  <2> QED BY <1>8, <2>1 DEF Fail, cookies, provider
<1>9. ASSUME NEW p \in Calls, End(p)
      PROVE  pc' \in [Calls -> Labels] /\ call' \in [Calls -> CallRecord]
  BY <1>9 DEF End, Goto, Labels
<1>10. ASSUME NEW p \in Calls, Deliver(p)
      PROVE  TypeOK'
  <2>1. call[p] \in CallRecord /\ call[p].reply \in Reply
    BY DEF CallRecord
  <2>2. CallTraced(p) /\ call[p].browser \in Browsers
    BY <1>10 DEF Traced, CallsTraced, CallTraced, Deliver
  <2>3. transaction' \in [Browsers -> Transaction \cup {NoTransaction}]
    <3>1. CASE call[p].reply.transaction = Keep
      BY <1>10, <3>1 DEF Deliver
    <3>2. CASE call[p].reply.transaction # Keep
      <4>1. call[p].reply.transaction \in Transaction \cup {NoTransaction}
        BY <2>1, <3>2 DEF Reply
      <4> QED BY <1>10, <3>2, <4>1 DEF Deliver
    <3> QED BY <3>1, <3>2
  <2>4. session' \in [Browsers -> Session \cup {NoSession}]
    <3>1. CASE call[p].reply.session = Keep
      BY <1>10, <3>1 DEF Deliver
    <3>2. CASE call[p].reply.session # Keep
      <4>1. call[p].reply.session \in Session \cup {NoSession}
        BY <2>1, <3>2 DEF Reply
      <4> QED BY <1>10, <3>2, <4>1 DEF Deliver
    <3> QED BY <3>1, <3>2
  <2>5. pages' \subseteq Logins
    <3>1. CASE call[p].reply.transaction \in {NoTransaction, Keep}
      BY <1>10, <3>1 DEF Deliver
    <3>2. CASE call[p].reply.transaction \notin {NoTransaction, Keep}
      <4>1. call[p].reply.transaction.login \in Logins
        BY <2>1, <3>2 DEF Reply, Transaction
      <4> QED BY <1>10, <3>2, <4>1 DEF Deliver
    <3> QED BY <3>1, <3>2
  <2> QED BY <1>9, <1>10, <2>3, <2>4, <2>5 DEF Deliver, provider
<1>11. ASSUME NEW p \in Calls, Lose(p)
       PROVE  TypeOK'
  BY <1>9, <1>11 DEF Lose, cookies, provider
<1>12. ASSUME NEW t \in Logins, NEW s \in Subjects, NEW c \in Codes, Authorize(t, s, c)
       PROVE  TypeOK'
  <2>1. [login |-> t, subject |-> s, at |-> now] \in Issue
    BY DEF Issue
  <2>2. issued' \in [Codes -> Issue \cup {NoIssue}] /\ codes' \subseteq Codes
    BY <1>12, <2>1 DEF Authorize
  <2> QED BY <1>12, <2>2 DEF Authorize, cookies
<1>13. ASSUME NEW b \in Browsers, SessionEnds(b)
       PROVE  TypeOK'
  BY <1>13 DEF SessionEnds, provider
<1>14. CASE Tick
  BY <1>14 DEF Tick, cookies, provider
<1> HIDE DEF TypeOK
<1> QED
  BY <1>1, <1>2, <1>3, <1>4, <1>5, <1>6, <1>7, <1>8, <1>10, <1>11, <1>12, <1>13, <1>14
     DEF Next, Serve

----------------------------------------------------------------------------
(* Where everything comes from *)

(* Who started a login and what a code was issued for is settled once. *)
LEMMA Settled ==
    ASSUME TypeOK, [Next]_vars
    PROVE  /\ \A t \in Logins : started[t] # NoStart => started'[t] = started[t]
           /\ \A c \in Codes : issued[c] # NoIssue => issued'[c] = issued[c]
           /\ pages \subseteq pages'
<1> USE DEF TypeOK
<1>1. CASE UNCHANGED <<started, provider>>
  <2>1. pages \subseteq pages'
    BY <1>1 DEF Next, Serve, vars, LoginOpen, Logout, CallbackSend, CallbackOpen, Token, Verify,
                Fail, Deliver, Lose, Authorize, SessionEnds, Tick
  <2> QED BY <1>1, <2>1 DEF provider
<1>2. ASSUME NEW p \in Calls, NEW b \in Browsers, NEW t \in Logins, LoginOpen(p, b, t)
      PROVE  /\ \A u \in Logins : started[u] # NoStart => started'[u] = started[u]
             /\ UNCHANGED <<pages, issued>>
  BY <1>2 DEF LoginOpen, provider
<1>3. ASSUME NEW t \in Logins, NEW s \in Subjects, NEW c \in Codes, Authorize(t, s, c)
      PROVE  /\ \A d \in Codes : issued[d] # NoIssue => issued'[d] = issued[d]
             /\ UNCHANGED <<pages, started>>
  BY <1>3 DEF Authorize
<1>4. ASSUME NEW p \in Calls, Token(p)
      PROVE  UNCHANGED <<issued, pages, started>>
  BY <1>4 DEF Token
<1>5. CASE \/ UNCHANGED <<started, provider>>
           \/ \E p \in Calls, b \in Browsers, t \in Logins : LoginOpen(p, b, t)
           \/ \E t \in Logins, s \in Subjects, c \in Codes : Authorize(t, s, c)
           \/ \E p \in Calls : Token(p)
  BY <1>1, <1>2, <1>3, <1>4, <1>5
<1>6. \/ UNCHANGED <<started, provider>>
      \/ \E p \in Calls, b \in Browsers, t \in Logins : LoginOpen(p, b, t)
      \/ \E t \in Logins, s \in Subjects, c \in Codes : Authorize(t, s, c)
      \/ \E p \in Calls : Token(p)
  BY DEF Next, Serve, vars, Logout, CallbackSend, CallbackOpen, Verify,
         Fail, Deliver, Lose, SessionEnds, Tick
<1> QED BY <1>5, <1>6

LEMMA StartedSettled ==
    ASSUME TypeOK, [Next]_vars, NEW t \in Logins, started[t].browser \in Browsers
    PROVE  started'[t] = started[t]
<1>1. started[t] # NoStart
  BY SignInAssumption DEF NoStart
<1> QED BY <1>1, Settled

StandsNext(b, tx) ==
    /\ started'[tx.login].browser = b
    /\ tx.expiresAt = started'[tx.login].at + TransactionLife

LEMMA StandsStays ==
    ASSUME TypeOK, [Next]_vars, NEW b \in Browsers, NEW tx \in Transaction, Stands(b, tx)
    PROVE  StandsNext(b, tx)
<1>1. tx.login \in Logins
  BY DEF Transaction
<1> QED BY <1>1, StartedSettled DEF Stands, StandsNext

(* What a call carries stays traced, wherever its control goes. *)
CarriedNext(r) ==
    /\ r.sent # NoTransaction => StandsNext(r.browser, r.sent)
    /\ r.reply.transaction \notin {NoTransaction, Keep} => StandsNext(r.browser, r.reply.transaction)
    /\ r.code # NoCode => issued'[r.code] = issued[r.code] /\ issued[r.code] # NoIssue

LEMMA CarriedStays ==
    ASSUME TypeOK, Traced, [Next]_vars, NEW p \in Calls
    PROVE  CarriedNext(call[p])
<1>1. call[p] \in CallRecord /\ CallTraced(p)
  BY DEF TypeOK, Traced, CallsTraced
<1>2. CASE pc[p] = "idle"
  BY <1>1, <1>2 DEF CallTraced, Kept, CarriedNext
<1>3. CASE pc[p] # "idle"
  <2>1. call[p].browser \in Browsers
    BY <1>1, <1>3 DEF CallTraced
  <2>2. call[p].sent # NoTransaction => StandsNext(call[p].browser, call[p].sent)
    <3> SUFFICES ASSUME call[p].sent # NoTransaction
                 PROVE  StandsNext(call[p].browser, call[p].sent)
      OBVIOUS
    <3>1. call[p].sent \in Transaction
      BY <1>1 DEF CallRecord
    <3>2. Stands(call[p].browser, call[p].sent)
      BY <1>1 DEF CallTraced
    <3> QED BY <2>1, <3>1, <3>2, StandsStays
  <2>3. call[p].reply.transaction \notin {NoTransaction, Keep}
           => StandsNext(call[p].browser, call[p].reply.transaction)
    <3> SUFFICES ASSUME call[p].reply.transaction \notin {NoTransaction, Keep}
                 PROVE  StandsNext(call[p].browser, call[p].reply.transaction)
      OBVIOUS
    <3>1. call[p].reply.transaction \in Transaction
      BY <1>1 DEF CallRecord, Reply
    <3>2. Stands(call[p].browser, call[p].reply.transaction)
      BY <1>1 DEF CallTraced
    <3> QED BY <2>1, <3>1, <3>2, StandsStays
  <2>4. call[p].code # NoCode => /\ issued'[call[p].code] = issued[call[p].code]
                                 /\ issued[call[p].code] # NoIssue
    <3>1. call[p].code # NoCode => call[p].code \in Codes
      BY <1>1 DEF CallRecord
    <3> QED BY <1>1, <3>1, Settled DEF CallTraced
  <2> QED BY <2>2, <2>3, <2>4 DEF CarriedNext
<1> QED BY <1>2, <1>3

(* A call that does not move keeps its trace. *)
LEMMA CallStays ==
    ASSUME TypeOK, Traced, [Next]_vars, NEW p \in Calls,
           pc'[p] = pc[p], call'[p] = call[p]
    PROVE  CallTraced(p)'
<1>1. CallTraced(p) /\ CarriedNext(call[p])
  BY CarriedStays DEF Traced, CallsTraced
<1>2. pc[p] = "verify" => call[p].code # NoCode
  BY <1>1 DEF CallTraced
<1> QED BY <1>1, <1>2 DEF CallTraced, CarriedNext, Stands, StandsNext

LEMMA CallStaysUnlessAlone ==
    ASSUME TypeOK, Traced, [Next]_vars, NEW p \in Calls, NEW a \in BOOLEAN,
           pc'[p] = pc[p], call'[p] = [call[p] EXCEPT !.alone = @ /\ a]
    PROVE  CallTraced(p)'
<1>1. CallTraced(p) /\ CarriedNext(call[p]) /\ call[p] \in CallRecord
  BY CarriedStays DEF TypeOK, Traced, CallsTraced
<1>2. pc[p] = "verify" => call[p].code # NoCode
  BY <1>1 DEF CallTraced
<1>3. /\ call'[p].browser = call[p].browser /\ call'[p].sent = call[p].sent
      /\ call'[p].code = call[p].code /\ call'[p].state = call[p].state
      /\ call'[p].token = call[p].token /\ call'[p].reply = call[p].reply
  BY <1>1 DEF CallRecord
<1>4. call'[p].alone => call[p].alone
  BY <1>1 DEF CallRecord
<1> QED BY <1>1, <1>2, <1>3, <1>4 DEF CallTraced, CarriedNext, Stands, StandsNext

(* A callback's response takes the transaction away, and brings a session   *)
(* only for the callback's code.                                            *)
LEMMA RespondTraced ==
    ASSUME TypeOK, Traced, [Next]_vars, NEW p \in Calls, NEW reply \in Reply,
           Respond(p, reply), pc[p] # "idle", reply.transaction = NoTransaction,
           reply.session # Keep => call[p].code # NoCode /\ reply.session.token = call[p].code
    PROVE  CallTraced(p)'
<1>1. CallTraced(p) /\ CarriedNext(call[p]) /\ call[p] \in CallRecord
  BY CarriedStays DEF TypeOK, Traced, CallsTraced
<1>2. call'[p] = [call[p] EXCEPT !.reply = reply] /\ pc'[p] = "reply"
  BY DEF TypeOK, Respond, Goto
<1>3. /\ call'[p].browser = call[p].browser /\ call'[p].sent = call[p].sent
      /\ call'[p].code = call[p].code /\ call'[p].state = call[p].state
      /\ call'[p].reply = reply
  BY <1>1, <1>2 DEF CallRecord
<1> QED BY <1>1, <1>2, <1>3 DEF CallTraced, CarriedNext, Stands, StandsNext

LEMMA CookiesTracedStep ==
    ASSUME TypeOK, Traced, [Next]_vars
    PROVE  CookiesTraced'
<1> SUFFICES ASSUME NEW b \in Browsers, transaction'[b] # NoTransaction
             PROVE  StandsNext(b, transaction'[b])
  BY DEF CookiesTraced, Stands, StandsNext
<1>1. CASE transaction'[b] = transaction[b]
  <2>1. transaction[b] \in Transaction /\ Stands(b, transaction[b])
    BY <1>1 DEF TypeOK, Traced, CookiesTraced
  <2> QED BY <1>1, <2>1, StandsStays
<1>2. ASSUME NEW p \in Calls, Deliver(p), transaction'[b] # transaction[b]
      PROVE  StandsNext(b, transaction'[b])
  <2>1. b = call[p].browser /\ transaction'[b] = call[p].reply.transaction
        /\ call[p].reply.transaction # Keep
    BY <1>2 DEF Deliver, TypeOK
  <2> QED BY <2>1, CarriedStays DEF CarriedNext
<1>3. transaction' = transaction \/ \E p \in Calls : Deliver(p)
  BY DEF Next, Serve, vars, cookies, LoginOpen, Logout, CallbackSend, CallbackOpen, Token, Verify,
         Fail, Lose, Authorize, SessionEnds, Tick
<1> QED BY <1>1, <1>2, <1>3

LEMMA CodesTracedStep ==
    ASSUME TypeOK, Traced, [Next]_vars
    PROVE  CodesTraced'
<1> USE DEF TypeOK
<1>1. CodesTraced /\ CallsTraced
  BY DEF Traced
<1>2. /\ \A t \in Logins : started[t].browser \in Browsers => started'[t] = started[t]
      /\ \A c \in Codes : issued[c] # NoIssue => issued'[c] = issued[c]
      /\ pages \subseteq pages'
  BY Settled, StartedSettled
<1>3. \A c \in Codes : issued'[c] # NoIssue => issued'[c].login \in pages'
  <2>1. CASE issued' = issued
    BY <1>1, <1>2, <2>1 DEF CodesTraced
  <2>2. ASSUME NEW t \in Logins, NEW s \in Subjects, NEW c \in Codes, Authorize(t, s, c)
        PROVE  \A d \in Codes : issued'[d] # NoIssue => issued'[d].login \in pages'
    BY <1>1, <2>2 DEF CodesTraced, Authorize
  <2> QED BY <2>1, <2>2 DEF Next, Serve, vars, provider, LoginOpen, Logout, CallbackSend, CallbackOpen,
                Token, Verify, Fail, Deliver, Lose, SessionEnds, Tick
<1>4. \A c \in codes' : issued'[c] # NoIssue
  <2>1. CASE issued' = issued /\ codes' \subseteq codes
    BY <1>1, <2>1 DEF CodesTraced
  <2>2. ASSUME NEW t \in Logins, NEW s \in Subjects, NEW c \in Codes, Authorize(t, s, c)
        PROVE  \A d \in codes' : issued'[d] # NoIssue
    <3>1. issued'[c] = [login |-> t, subject |-> s, at |-> now] /\ codes' = codes \cup {c}
      BY <2>2 DEF Authorize
    <3>2. issued'[c] # NoIssue
      BY <3>1, SignInAssumption DEF NoIssue
    <3> QED BY <1>1, <1>2, <3>1, <3>2 DEF CodesTraced
  <2> QED BY <2>1, <2>2 DEF Next, Serve, vars, provider, LoginOpen, Logout, CallbackSend, CallbackOpen,
                Token, Verify, Fail, Deliver, Lose, SessionEnds, Tick
<1>5. \A t \in pages' : started'[t].browser \in Browsers
  <2>1. CASE pages' = pages
    BY <1>1, <1>2, <2>1 DEF CodesTraced
  <2>2. ASSUME NEW p \in Calls, Deliver(p)
        PROVE  \A t \in pages' : started'[t].browser \in Browsers
    <3> DEFINE tx == call[p].reply.transaction
    <3>1. CASE tx \in {NoTransaction, Keep}
      BY <2>1, <2>2, <3>1 DEF Deliver
    <3>2. CASE tx \notin {NoTransaction, Keep}
      <4>1. pages' = pages \cup {tx.login}
        BY <2>2, <3>2 DEF Deliver
      <4>2. started'[tx.login].browser = call[p].browser
        BY <3>2, CarriedStays DEF CarriedNext, StandsNext
      <4>3. call[p].browser \in Browsers
        BY <1>1, <2>2 DEF CallsTraced, CallTraced, Deliver
      <4> QED BY <1>1, <1>2, <4>1, <4>2, <4>3 DEF CodesTraced
    <3> QED BY <3>1, <3>2
  <2> QED BY <2>1, <2>2 DEF Next, Serve, vars, LoginOpen, Logout, CallbackSend, CallbackOpen,
                Token, Verify, Fail, Authorize, Lose, SessionEnds, Tick
<1>6. \A t \in alone' : started'[t].browser \in Browsers
  <2>1. CASE alone' \subseteq alone
    BY <1>1, <1>2, <2>1 DEF CodesTraced
  <2>2. ASSUME NEW p \in Calls, NEW b \in Browsers, NEW t \in Logins, LoginOpen(p, b, t)
        PROVE  \A u \in alone' : started'[u].browser \in Browsers
    <3>1. alone' \subseteq alone \cup {t} /\ started'[t].browser = b
      BY <2>2 DEF LoginOpen
    <3> QED BY <1>1, <1>2, <3>1 DEF CodesTraced
  <2> QED BY <2>1, <2>2 DEF Next, Serve, vars, Logout, CallbackSend, CallbackOpen,
                Token, Verify, Fail, Deliver, Authorize, Lose, SessionEnds, Tick
<1> QED BY <1>3, <1>4, <1>5, <1>6 DEF CodesTraced

LEMMA EndTraced ==
    ASSUME TypeOK, NEW p \in Calls, End(p)
    PROVE  CallTraced(p)'
<1>1. pc'[p] = "idle" /\ call'[p] = NoCall
  BY DEF TypeOK, End, Goto
<1> QED BY <1>1 DEF CallTraced, NoCall, Kept

LEMMA CallsTracedStep ==
    ASSUME TypeOK, Traced, [Next]_vars
    PROVE  CallsTraced'
<1> SUFFICES ASSUME NEW p \in Calls PROVE CallTraced(p)'
  BY DEF CallsTraced
<1> USE SignInAssumption DEF TypeOK
<1>a. CallTraced(p) /\ CarriedNext(call[p]) /\ call[p] \in CallRecord
  BY CarriedStays DEF Traced, CallsTraced
<1>b. Rejected.transaction = NoTransaction /\ Rejected.session = Keep /\ Rejected \in Reply
  BY Constants DEF Rejected, Kept
<1>1. CASE UNCHANGED <<pc, call>>
  BY <1>1, CallStays
<1>2. ASSUME NEW q \in Calls, Serve(q), q # p, ~ \E b \in Browsers, url \in CallbackURLs : CallbackSend(q, b, url)
      PROVE  CallTraced(p)'
  <2>1. pc'[p] = pc[p] /\ call'[p] = call[p]
    BY <1>2 DEF Serve, LoginOpen, Logout, CallbackOpen, Token, Verify, Fail, Deliver, Lose, Respond, Goto, End
  <2> QED BY <2>1, CallStays
<1>3. ASSUME NEW q \in Calls, NEW b \in Browsers, NEW url \in CallbackURLs, CallbackSend(q, b, url), q # p
      PROVE  CallTraced(p)'
  <2> DEFINE a == call[p].browser # b /\ call[p].state \notin Diverted(url, transaction[b])
  <2>1. pc'[p] = pc[p] /\ call'[p] = [call[p] EXCEPT !.alone = @ /\ a] /\ a \in BOOLEAN
    BY <1>3 DEF CallbackSend, Sending, Goto
  <2> HIDE DEF a
  <2> QED BY <2>1, CallStaysUnlessAlone
<1>4. ASSUME NEW b \in Browsers, NEW t \in Logins, LoginOpen(p, b, t)
      PROVE  CallTraced(p)'
  <2> DEFINE tx == [login |-> t, expiresAt |-> now + TransactionLife]
             r == [NoCall EXCEPT !.browser = b, !.state = t, !.reply.transaction = tx]
  <2>1. call'[p] = r /\ pc'[p] = "reply"
    BY <1>4 DEF LoginOpen, Goto
  <2>2. /\ r.browser = b /\ r.sent = NoTransaction /\ r.code = NoCode
        /\ r.reply.transaction = tx /\ r.reply.session = Keep
    <3> HIDE DEF tx
    <3> QED BY DEF NoCall, Kept
  <2>3. started'[t] = [browser |-> b, at |-> now]
    BY <1>4 DEF LoginOpen
  <2>4. StandsNext(b, tx)
    BY <2>3 DEF StandsNext
  <2> HIDE DEF r, tx
  <2> QED BY <2>1, <2>2, <2>4 DEF CallTraced, Stands, StandsNext
<1>5. ASSUME NEW b \in Browsers, Logout(p, b)
      PROVE  CallTraced(p)'
  <2> DEFINE r == [NoCall EXCEPT !.browser = b, !.reply.session = NoSession]
  <2>1. call'[p] = r /\ pc'[p] = "reply"
    BY <1>5 DEF Logout, Goto
  <2>2. /\ r.browser = b /\ r.sent = NoTransaction /\ r.code = NoCode
        /\ r.reply.transaction = Keep /\ r.reply.session = NoSession
    BY DEF NoCall, Kept
  <2> HIDE DEF r
  <2> QED BY <2>1, <2>2 DEF CallTraced
<1>6. ASSUME NEW b \in Browsers, NEW url \in CallbackURLs, CallbackSend(p, b, url)
      PROVE  CallTraced(p)'
  <2> DEFINE mine == url.state \in alone \cap StartedBy(b) /\ Diverted(url, transaction[b]) = {}
             r == [NoCall EXCEPT !.browser = b, !.sent = transaction[b], !.code = url.code,
                     !.state = url.state, !.alone = mine]
  <2>1. call'[p] = r /\ pc'[p] = "open"
    BY <1>6 DEF CallbackSend, Sending, Goto
  <2>2. /\ r.browser = b /\ r.sent = transaction[b] /\ r.code = url.code /\ r.state = url.state
        /\ r.reply = Kept
    <3> HIDE DEF mine
    <3> QED BY DEF NoCall
  <2>3. transaction[b] # NoTransaction => StandsNext(b, transaction[b])
    <3>1. transaction[b] # NoTransaction => transaction[b] \in Transaction /\ Stands(b, transaction[b])
      BY DEF Traced, CookiesTraced
    <3> QED BY <3>1, StandsStays
  <2>4. url.code # NoCode => issued'[url.code] # NoIssue
    BY <1>6 DEF CallbackSend, CallbackURLs, provider
  <2>5. Kept.transaction = Keep /\ Kept.session = Keep
    BY DEF Kept
  <2> HIDE DEF r
  <2> QED BY <2>1, <2>2, <2>3, <2>4, <2>5 DEF CallTraced, Stands, StandsNext
<1>7. ASSUME Respond(p, Rejected), pc[p] # "idle" PROVE CallTraced(p)'
  BY <1>7, <1>b, RespondTraced
<1>8. ASSUME CallbackOpen(p) PROVE CallTraced(p)'
  <2>1. CASE Respond(p, Rejected)
    BY <1>7, <1>8, <2>1 DEF CallbackOpen
  <2>2. CASE /\ call[p].code # NoCode /\ call[p].sent # NoTransaction /\ call[p].state = call[p].sent.login
             /\ Goto(p, "exchange") /\ UNCHANGED call
    <3>1. pc[p] = "open" /\ pc'[p] = "exchange" /\ call'[p] = call[p]
      BY <1>8, <2>2 DEF CallbackOpen, Goto
    <3> QED BY <1>a, <2>2, <3>1 DEF CallTraced, CarriedNext, Stands, StandsNext, Kept
  <2> QED BY <1>8, <2>1, <2>2 DEF CallbackOpen
<1>9. ASSUME Token(p) PROVE CallTraced(p)'
  <2>1. CASE Respond(p, Rejected)
    BY <1>7, <1>9, <2>1 DEF Token
  <2>2. CASE call' = [call EXCEPT ![p].token = issued[call[p].code]] /\ Goto(p, "verify")
    <3>1. pc[p] = "exchange" /\ pc'[p] = "verify"
      BY <1>9, <2>2 DEF Token, Goto
    <3>2. /\ call'[p].browser = call[p].browser /\ call'[p].sent = call[p].sent
          /\ call'[p].code = call[p].code /\ call'[p].state = call[p].state
          /\ call'[p].token = issued[call[p].code] /\ call'[p].reply = call[p].reply
      BY <1>a, <2>2 DEF CallRecord
    <3>3. issued[call[p].code].login = call[p].state
      BY <1>a, <1>9, <2>2, <3>1 DEF Token, Grants, CallTraced, Respond, Goto
    <3> QED BY <1>a, <3>1, <3>2, <3>3 DEF CallTraced, CarriedNext, Stands, StandsNext, Kept
  <2> QED BY <1>9, <2>1, <2>2 DEF Token
<1>10. ASSUME Verify(p) PROVE CallTraced(p)'
  <2> DEFINE new == [subject |-> call[p].token.subject, token |-> call[p].code]
  <2>1. pc[p] = "verify" /\ (Respond(p, Rejected) \/ Respond(p, [Rejected EXCEPT !.session = new]))
    BY <1>10 DEF Verify
  <2>2. CASE Respond(p, [Rejected EXCEPT !.session = new])
    <3>1. call[p].code \in Codes /\ call[p].token \in Issue /\ call[p].code # NoCode
      <4>1. call[p].code # NoCode /\ call[p].token # NoIssue
        BY <1>a, <2>1 DEF CallTraced
      <4> QED BY <1>a, <4>1 DEF CallRecord
    <3>2. new \in Session /\ new.token = call[p].code
      BY <3>1 DEF Session, Issue
    <3> DEFINE reply == [Rejected EXCEPT !.session = new]
    <3>3. reply \in Reply /\ reply.transaction = NoTransaction /\ reply.session = new
      <4> HIDE DEF new
      <4> QED BY <3>2 DEF Rejected, Kept, Reply
    <3>4. Respond(p, reply)
      BY <2>2
    <3> HIDE DEF reply, new
    <3> QED BY <2>1, <3>1, <3>2, <3>3, <3>4, RespondTraced
  <2> HIDE DEF new
  <2> QED BY <1>7, <2>1, <2>2
<1>11. ASSUME Fail(p) PROVE CallTraced(p)'
  BY <1>7, <1>11 DEF Fail
<1>12. ASSUME Deliver(p) \/ Lose(p) PROVE CallTraced(p)'
  BY <1>12, EndTraced DEF Deliver, Lose
<1>13. ASSUME Serve(p) PROVE CallTraced(p)'
  BY <1>4, <1>5, <1>6, <1>8, <1>9, <1>10, <1>11, <1>12, <1>13 DEF Serve
<1>14. UNCHANGED <<pc, call>> \/ \E q \in Calls : Serve(q)
  BY DEF Next, vars, Authorize, SessionEnds, Tick
<1> QED BY <1>1, <1>2, <1>3, <1>13, <1>14

LEMMA TracedStep ==
    ASSUME TypeOK, Traced, [Next]_vars
    PROVE  Traced'
BY CookiesTracedStep, CodesTracedStep, CallsTracedStep DEF Traced

LEMMA InitTraced ==
    ASSUME Init
    PROVE  TypeOK /\ Traced
<1> USE SignInAssumption, Constants DEF Init
<1>1. TypeOK
  BY DEF TypeOK, Labels
<1>2. CookiesTraced /\ CodesTraced
  BY DEF CookiesTraced, CodesTraced
<1>3. CallsTraced
  BY DEF CallsTraced, CallTraced, NoCall, Kept
<1> QED BY <1>1, <1>2, <1>3 DEF Traced

(* Cookies and responses hold what belongs in them. *)
THEOREM SignInTyped == Spec => []TypeOK
<1>1. Init => TypeOK /\ Traced
  BY InitTraced
<1>2. TypeOK /\ Traced /\ [Next]_vars => TypeOK' /\ Traced'
  BY TypeStep, TracedStep
<1> QED BY <1>1, <1>2, PTL DEF Spec

(* Every transaction, code, token and session in the system is from the     *)
(* login, browser and identity it stands for.                               *)
THEOREM TracesKept == Spec => []Traced
<1>1. Init => TypeOK /\ Traced
  BY InitTraced
<1>2. TypeOK /\ Traced /\ [Next]_vars => TypeOK' /\ Traced'
  BY TypeStep, TracedStep
<1> QED BY <1>1, <1>2, PTL DEF Spec

----------------------------------------------------------------------------
(* Whose session *)

(* A request leaves the others their control points and what they carry.    *)
LEMMA OthersUntouched ==
    ASSUME TypeOK, NEW p \in Calls, NEW q \in Calls, p # q, Serve(q)
    PROVE  /\ pc'[p] = pc[p]
           /\ call'[p].browser = call[p].browser /\ call'[p].sent = call[p].sent
           /\ call'[p].code = call[p].code /\ call'[p].state = call[p].state
           /\ call'[p].token = call[p].token /\ call'[p].reply = call[p].reply
<1> USE DEF TypeOK
<1>1. ASSUME NEW b \in Browsers, NEW url \in CallbackURLs, CallbackSend(q, b, url)
      PROVE  /\ pc'[p] = pc[p]
             /\ call'[p] = [call[p] EXCEPT !.alone =
                   @ /\ call[p].browser # b /\ call[p].state \notin Diverted(url, transaction[b])]
  BY <1>1 DEF CallbackSend, Sending, Goto
<1>2. call[p] \in CallRecord
  OBVIOUS
<1>3. CASE \E b \in Browsers, url \in CallbackURLs : CallbackSend(q, b, url)
  BY <1>1, <1>2, <1>3 DEF CallRecord
<1>4. CASE ~ \E b \in Browsers, url \in CallbackURLs : CallbackSend(q, b, url)
  BY <1>4 DEF Serve, LoginOpen, Logout, CallbackOpen, Token, Verify, Fail, Deliver, Lose, Respond, Goto, End
<1> QED BY <1>3, <1>4

Bringing(r) == r.reply.session \notin {NoSession, Keep}

(* A response brings a session because it did before, or because the        *)
(* callback was verified.                                                   *)
LEMMA BringingWhence ==
    ASSUME TypeOK, Traced, [Next]_vars, NEW p \in Calls, Bringing(call'[p])
    PROVE  \/ /\ Bringing(call[p]) /\ call'[p].reply.session = call[p].reply.session
              /\ call'[p].browser = call[p].browser /\ call'[p].code = call[p].code
           \/ /\ pc[p] = "verify" /\ call[p].token.login = call[p].sent.login
              /\ call'[p].browser = call[p].browser /\ call'[p].code = call[p].code
              /\ call'[p].reply.session = [subject |-> call[p].token.subject, token |-> call[p].code]
<1> USE DEF TypeOK
<1>a. call[p] \in CallRecord /\ CallTraced(p)
  BY DEF Traced, CallsTraced
<1>1. CASE UNCHANGED call
  BY <1>1 DEF Bringing
<1>2. CASE \E q \in Calls : q # p /\ Serve(q)
  BY <1>2, OthersUntouched DEF Bringing
<1>3. ASSUME call'[p].reply = Rejected \/ call'[p].reply = Kept \/ call'[p].reply.session \in {NoSession, Keep}
      PROVE  FALSE
  BY <1>3 DEF Bringing, Rejected, Kept
<1>4. ASSUME NEW b \in Browsers, NEW t \in Logins, LoginOpen(p, b, t) PROVE FALSE
  <2> DEFINE tx == [login |-> t, expiresAt |-> now + TransactionLife]
             r == [NoCall EXCEPT !.browser = b, !.state = t, !.reply.transaction = tx]
  <2>1. call'[p] = r
    BY <1>4 DEF LoginOpen
  <2>2. r.reply.session = Keep
    <3> HIDE DEF tx
    <3> QED BY DEF NoCall, Kept
  <2> HIDE DEF r
  <2> QED BY <1>3, <2>1, <2>2
<1>5. ASSUME NEW b \in Browsers, Logout(p, b) PROVE FALSE
  <2>1. call'[p] = [NoCall EXCEPT !.browser = b, !.reply.session = NoSession]
    BY <1>5 DEF Logout
  <2>2. call'[p].reply.session = NoSession
    BY <2>1 DEF NoCall, Kept
  <2> QED BY <1>3, <2>2
<1>6. ASSUME NEW b \in Browsers, NEW url \in CallbackURLs, CallbackSend(p, b, url) PROVE FALSE
  <2> DEFINE mine == url.state \in alone \cap StartedBy(b) /\ Diverted(url, transaction[b]) = {}
  <2>1. call'[p] = [NoCall EXCEPT !.browser = b, !.sent = transaction[b], !.code = url.code,
                     !.state = url.state, !.alone = mine]
    BY <1>6 DEF CallbackSend, Sending
  <2> HIDE DEF mine
  <2>2. call'[p].reply = Kept
    BY <2>1 DEF NoCall
  <2> QED BY <1>3, <2>2
<1>7. ASSUME Respond(p, Rejected) PROVE FALSE
  <2>1. call'[p].reply = Rejected
    BY <1>7, <1>a DEF Respond, CallRecord
  <2> QED BY <1>3, <2>1
<1>8. CASE CallbackOpen(p)
  <2>1. UNCHANGED call
    BY <1>7, <1>8 DEF CallbackOpen
  <2> QED BY <1>1, <2>1
<1>9. ASSUME Token(p) PROVE FALSE
  <2>1. call' = [call EXCEPT ![p].token = issued[call[p].code]] /\ pc[p] = "exchange"
    BY <1>7, <1>9 DEF Token
  <2>2. call'[p].reply = Kept
    BY <1>a, <2>1 DEF CallRecord, CallTraced
  <2> QED BY <1>3, <2>2
<1>10. CASE Verify(p)
  <2> DEFINE new == [subject |-> call[p].token.subject, token |-> call[p].code]
             reply == [Rejected EXCEPT !.session = new]
  <2>1. /\ pc[p] = "verify" /\ call[p].token.login = call[p].sent.login
        /\ Respond(p, reply)
    BY <1>7, <1>10 DEF Verify
  <2>2. reply.session = new
    <3> HIDE DEF new
    <3> QED BY DEF Rejected, Kept
  <2> HIDE DEF reply
  <2>3. /\ call'[p].reply = reply /\ call'[p].browser = call[p].browser
        /\ call'[p].code = call[p].code
    BY <1>a, <2>1 DEF Respond, CallRecord
  <2> QED BY <2>1, <2>2, <2>3
<1>11. ASSUME Fail(p) PROVE FALSE
  BY <1>7, <1>11 DEF Fail
<1>12. ASSUME Deliver(p) \/ Lose(p) PROVE FALSE
  <2>1. call'[p] = NoCall
    BY <1>12 DEF Deliver, Lose, End
  <2> QED BY <1>3, <2>1 DEF NoCall
<1>13. UNCHANGED call \/ \E q \in Calls : Serve(q)
  BY DEF Next, vars, Authorize, SessionEnds, Tick
<1>14. CASE Serve(p)
  BY <1>4, <1>5, <1>6, <1>8, <1>9, <1>10, <1>11, <1>12, <1>14 DEF Serve
<1> QED BY <1>1, <1>2, <1>13, <1>14

OwnNext(b, s) ==
    /\ issued'[s.token] = issued[s.token]
    /\ issued[s.token] # NoIssue
    /\ issued[s.token].subject = s.subject
    /\ started'[issued[s.token].login].browser = b

LEMMA OwnStays ==
    ASSUME TypeOK, [Next]_vars, NEW b \in Browsers, NEW s \in Session, Own(b, s)
    PROVE  OwnNext(b, s)
<1>1. s.token \in Codes
  BY DEF Session
<1>2. issued[s.token] \in Issue
  BY <1>1 DEF Own, TypeOK
<1>3. issued[s.token].login \in Logins
  BY <1>2 DEF Issue
<1> QED BY <1>1, <1>3, Settled, StartedSettled DEF Own, OwnNext

(* A session a response brings is of the browser's own login. *)
LEMMA BroughtIsOwn ==
    ASSUME TypeOK, Traced, SessionIsOwn, [Next]_vars, NEW p \in Calls, Bringing(call'[p])
    PROVE  OwnNext(call'[p].browser, call'[p].reply.session)
<1>a. call[p] \in CallRecord /\ CallTraced(p)
  BY DEF TypeOK, Traced, CallsTraced
<1>1. CASE /\ Bringing(call[p]) /\ call'[p].reply.session = call[p].reply.session
           /\ call'[p].browser = call[p].browser
  <2>1. call[p].reply.session \in Session
    BY <1>a, <1>1 DEF Bringing, CallRecord, Reply
  <2>2. call[p].browser \in Browsers
    BY <1>a, <1>1 DEF Bringing, CallTraced, Kept
  <2>3. Own(call[p].browser, call[p].reply.session)
    BY <1>1 DEF SessionIsOwn, Bringing
  <2> QED BY <1>1, <2>1, <2>2, <2>3, OwnStays
<1>2. CASE /\ pc[p] = "verify" /\ call[p].token.login = call[p].sent.login
           /\ call'[p].browser = call[p].browser
           /\ call'[p].reply.session = [subject |-> call[p].token.subject, token |-> call[p].code]
  <2> DEFINE s == [subject |-> call[p].token.subject, token |-> call[p].code]
  <2>1. /\ call[p].code # NoCode /\ call[p].token = issued[call[p].code]
        /\ issued[call[p].code] # NoIssue
        /\ call[p].sent # NoTransaction /\ Stands(call[p].browser, call[p].sent)
        /\ call[p].browser \in Browsers
    BY <1>a, <1>2 DEF CallTraced
  <2>2. call[p].code \in Codes
    BY <1>a, <2>1 DEF CallRecord
  <2>3. call[p].token \in Issue
    BY <2>1, <2>2 DEF TypeOK
  <2>4. s \in Session
    BY <2>2, <2>3 DEF Session, Issue
  <2>5. Own(call[p].browser, s)
    BY <1>2, <2>1 DEF Own, Stands
  <2> HIDE DEF s
  <2>6. OwnNext(call[p].browser, s)
    BY <2>1, <2>4, <2>5, OwnStays
  <2> QED BY <1>2, <2>6 DEF s
<1> QED BY <1>1, <1>2, BringingWhence

LEMMA SessionIsOwnStep ==
    ASSUME TypeOK, Traced, SessionIsOwn, [Next]_vars
    PROVE  SessionIsOwn'
<1>1. ASSUME NEW p \in Calls, Bringing(call'[p])
      PROVE  Own(call[p].browser, call[p].reply.session)'
  BY <1>1, BroughtIsOwn DEF Own, OwnNext
<1>2. ASSUME NEW b \in Browsers, session'[b] # NoSession
      PROVE  OwnNext(b, session'[b])
  <2>1. CASE session'[b] = session[b]
    <3>1. session[b] \in Session /\ Own(b, session[b])
      BY <1>2, <2>1 DEF TypeOK, SessionIsOwn
    <3> QED BY <2>1, <3>1, OwnStays
  <2>2. ASSUME NEW p \in Calls, Deliver(p), session'[b] # session[b]
        PROVE  OwnNext(b, session'[b])
    <3>1. b = call[p].browser /\ session'[b] = call[p].reply.session /\ call[p].reply.session # Keep
      BY <2>2 DEF Deliver, TypeOK
    <3>2. call[p].reply.session \in Session
      <4>1. call[p] \in CallRecord
        BY DEF TypeOK
      <4> QED BY <1>2, <3>1, <4>1 DEF CallRecord, Reply
    <3>3. Own(b, call[p].reply.session)
      BY <1>2, <3>1 DEF SessionIsOwn
    <3> QED BY <3>1, <3>2, <3>3, OwnStays
  <2>3. ASSUME NEW a \in Browsers, SessionEnds(a), session'[b] # session[b]
        PROVE  FALSE
    BY <1>2, <2>3 DEF SessionEnds, TypeOK
  <2>4. session' = session \/ (\E p \in Calls : Deliver(p)) \/ \E a \in Browsers : SessionEnds(a)
    BY DEF Next, Serve, vars, cookies, LoginOpen, Logout, CallbackSend, CallbackOpen, Token, Verify,
           Fail, Lose, Authorize, Tick
  <2> QED BY <2>1, <2>2, <2>3, <2>4
<1> QED BY <1>1, <1>2 DEF SessionIsOwn, Own, OwnNext, Bringing

(* No callback URL, opened wherever, gives a browser the session of another *)
(* one's login.                                                             *)
THEOREM SessionsOwn == Spec => []SessionIsOwn
<1> DEFINE I == TypeOK /\ Traced /\ SessionIsOwn
<1>1. Init => I
  BY InitTraced DEF Init, SessionIsOwn, NoCall, Kept
<1>2. I /\ [Next]_vars => I'
  BY TypeStep, TracedStep, SessionIsOwnStep
<1> QED BY <1>1, <1>2, PTL DEF Spec

(* A code that comes back with its own login's state is spent only in the   *)
(* browser that started the login: an exchange has the transaction of the   *)
(* state it was called with, and a browser only transactions of its own.    *)
THEOREM RedirectedCodesStay == Spec => RedirectsSpendAtHome
<1>1. TypeOK /\ Traced => \A p \in Calls : /\ Token(p) /\ call[p].code \in codes
                                           /\ issued[call[p].code].login = call[p].state
          => started[call[p].state].browser = call[p].browser
  BY DEF Traced, CallsTraced, CallTraced, Token, Stands
<1> QED BY <1>1, SignInTyped, TracesKept, PTL DEF Spec, RedirectsSpendAtHome

----------------------------------------------------------------------------
(* One session for a code *)

(* A call has tokens because it had, or because the provider just granted   *)
(* them for a code it held.                                                 *)
LEMMA GrantWhence ==
    ASSUME TypeOK, Traced, [Next]_vars, NEW p \in Calls, Granted(p)'
    PROVE  \/ Granted(p) /\ call'[p].code = call[p].code
           \/ Token(p) /\ Grants(p) /\ call'[p].code = call[p].code
<1> USE DEF TypeOK
<1>a. call[p] \in CallRecord /\ CallTraced(p)
  BY DEF Traced, CallsTraced
<1>1. CASE Bringing(call'[p])
  BY <1>1, BringingWhence DEF Granted, Bringing
<1>2. CASE pc'[p] = "verify"
  <2>1. CASE UNCHANGED <<pc, call>>
    BY <1>2, <2>1 DEF Granted
  <2>2. CASE \E q \in Calls : q # p /\ Serve(q)
    BY <1>2, <2>2, OthersUntouched DEF Granted
  <2>3. CASE Serve(p)
    <3>1. Token(p)
      BY <1>2, <2>3 DEF Serve, LoginOpen, Logout, CallbackSend, CallbackOpen, Verify, Fail, Deliver, Lose,
                        Respond, Goto, End
    <3>2. Grants(p) /\ call' = [call EXCEPT ![p].token = issued[call[p].code]]
      BY <1>2, <3>1 DEF Token, Respond, Goto
    <3>3. call'[p].code = call[p].code
      BY <1>a, <3>2 DEF CallRecord
    <3> QED BY <3>1, <3>2, <3>3
  <2>4. UNCHANGED <<pc, call>> \/ \E q \in Calls : Serve(q)
    BY DEF Next, vars, Authorize, SessionEnds, Tick
  <2> QED BY <2>1, <2>2, <2>3, <2>4
<1> QED BY <1>1, <1>2 DEF Granted, Bringing

(* A browser has a code's session because it had, or because the response   *)
(* of a call that held the code arrived.                                    *)
LEMMA SignedInWhence ==
    ASSUME TypeOK, Traced, [Next]_vars, NEW c \in Codes, NEW b \in SignedInWith(c)'
    PROVE  \/ b \in SignedInWith(c)
           \/ \E p \in Holding(c) : Deliver(p) /\ call[p].browser = b
<1> USE DEF TypeOK
<1>1. b \in Browsers /\ session'[b] # NoSession /\ session'[b].token = c
  BY DEF SignedInWith
<1>2. CASE session'[b] = session[b]
  BY <1>1, <1>2 DEF SignedInWith
<1>3. ASSUME NEW p \in Calls, Deliver(p), session'[b] # session[b]
      PROVE  p \in Holding(c) /\ call[p].browser = b
  <2>1. b = call[p].browser /\ session'[b] = call[p].reply.session /\ call[p].reply.session # Keep
    BY <1>3 DEF Deliver
  <2>2. call[p].reply.session.token = call[p].code
    BY <1>1, <2>1 DEF Traced, CallsTraced, CallTraced
  <2> QED BY <1>1, <2>1, <2>2 DEF Holding, Granted
<1>4. ASSUME NEW a \in Browsers, SessionEnds(a), session'[b] # session[b]
      PROVE  FALSE
  BY <1>1, <1>4 DEF SessionEnds
<1>5. session' = session \/ (\E p \in Calls : Deliver(p)) \/ \E a \in Browsers : SessionEnds(a)
  BY DEF Next, Serve, vars, cookies, LoginOpen, Logout, CallbackSend, CallbackOpen, Token, Verify,
         Fail, Lose, Authorize, Tick
<1> QED BY <1>2, <1>3, <1>4, <1>5

(* The steps as they bear on one code: nothing is added to what is made of  *)
(* it, or the code is new; it is spent by p; or the response p holds        *)
(* arrives.                                                                 *)
LEMMA CodeStep ==
    ASSUME TypeOK, Traced, [Next]_vars, NEW c \in Codes
    PROVE  \/ /\ Holding(c)' \subseteq Holding(c) /\ SignedInWith(c)' \subseteq SignedInWith(c)
              /\ c \in codes' => c \in codes \/ issued[c] = NoIssue
           \/ \E p \in Calls :
                 /\ c \in codes /\ c \notin codes' /\ Holding(c)' \subseteq Holding(c) \cup {p}
                 /\ SignedInWith(c)' \subseteq SignedInWith(c)
           \/ \E p \in Holding(c) :
                 /\ Holding(c)' \subseteq Holding(c) \ {p}
                 /\ SignedInWith(c)' \subseteq SignedInWith(c) \cup {call[p].browser}
                 /\ codes' = codes
<1> USE DEF TypeOK
<1>1. \A p \in Holding(c)' : p \in Holding(c) \/ (Token(p) /\ Grants(p) /\ call[p].code = c)
  <2> SUFFICES ASSUME NEW p \in Calls, Granted(p)', call'[p].code = c
               PROVE  p \in Holding(c) \/ (Token(p) /\ Grants(p) /\ call[p].code = c)
    BY DEF Holding
  <2> QED BY GrantWhence DEF Holding
<1>2. \A b \in SignedInWith(c)' : \/ b \in SignedInWith(c)
                                   \/ \E p \in Holding(c) : Deliver(p) /\ call[p].browser = b
  BY SignedInWhence
<1>3. ASSUME NEW p \in Calls, Token(p), Grants(p), call[p].code = c
      PROVE  /\ c \in codes /\ c \notin codes' /\ Holding(c)' \subseteq Holding(c) \cup {p}
             /\ SignedInWith(c)' \subseteq SignedInWith(c)
  <2>1. c \in codes /\ c \notin codes'
    BY <1>3 DEF Token, Grants
  <2>2. \A q \in Calls : Token(q) => q = p
    <3> SUFFICES ASSUME NEW q \in Calls, Token(q), q # p PROVE FALSE
      OBVIOUS
    <3>1. pc[p] = "exchange" /\ pc'[p] = "verify"
      BY <1>3 DEF Token, Goto
    <3>2. Serve(q)
      BY DEF Serve
    <3> QED BY <3>1, <3>2, OthersUntouched
  <2>3. session' = session
    BY <1>3 DEF Token, cookies
  <2>4. \A q \in Holding(c)' : q \in Holding(c) \cup {p}
    <3>1. Holding(c)' \subseteq Calls
      BY DEF Holding
    <3> QED BY <1>1, <2>2, <3>1
  <2>5. SignedInWith(c)' = SignedInWith(c)
    BY <2>3 DEF SignedInWith
  <2> QED BY <2>1, <2>4, <2>5
<1>4. ASSUME NEW p \in Holding(c), Deliver(p)
      PROVE  /\ Holding(c)' \subseteq Holding(c) \ {p}
             /\ SignedInWith(c)' \subseteq SignedInWith(c) \cup {call[p].browser}
             /\ codes' = codes
  <2>1. p \in Calls /\ pc[p] = "reply" /\ pc'[p] = "idle" /\ call'[p] = NoCall
    BY <1>4 DEF Holding, Deliver, End, Goto
  <2>2. p \notin Holding(c)'
    BY <2>1, SignInAssumption DEF Holding, NoCall
  <2>3. \A q \in Calls : Deliver(q) => q = p
    <3> SUFFICES ASSUME NEW q \in Calls, Deliver(q), q # p PROVE FALSE
      OBVIOUS
    <3>1. Serve(q)
      BY DEF Serve
    <3> QED BY <2>1, <3>1, OthersUntouched
  <2>4. \A q \in Calls : ~ Token(q)
    <3> SUFFICES ASSUME NEW q \in Calls, Token(q) PROVE FALSE
      OBVIOUS
    <3>1. Serve(q) /\ q # p
      BY <2>1 DEF Serve, Token
    <3> QED BY <2>1, <3>1, OthersUntouched
  <2>5. Holding(c) \subseteq Calls /\ codes' = codes
    BY <1>4 DEF Holding, Deliver, provider
  <2>6. \A q \in Holding(c)' : q \in Holding(c) \ {p}
    <3>1. Holding(c)' \subseteq Calls
      BY DEF Holding
    <3> QED BY <1>1, <2>2, <2>4, <3>1
  <2>7. \A b \in SignedInWith(c)' : b \in SignedInWith(c) \cup {call[p].browser}
    BY <1>2, <2>3, <2>5
  <2> QED BY <2>5, <2>6, <2>7
<1>5. c \in codes' => c \in codes \/ issued[c] = NoIssue
  <2>1. ASSUME NEW t \in Logins, NEW s \in Subjects, NEW d \in Codes, Authorize(t, s, d)
        PROVE  c \in codes' => c \in codes \/ issued[c] = NoIssue
    BY <2>1 DEF Authorize
  <2>2. codes' \subseteq codes \/ \E t \in Logins, s \in Subjects, d \in Codes : Authorize(t, s, d)
    BY DEF Next, Serve, vars, provider, LoginOpen, Logout, CallbackSend, CallbackOpen, Token, Verify,
           Fail, Deliver, Lose, SessionEnds, Tick
  <2> QED BY <2>1, <2>2
<1>6. CASE \E p \in Calls : Token(p) /\ Grants(p) /\ call[p].code = c
  BY <1>3, <1>6
<1>7. CASE \E p \in Holding(c) : Deliver(p)
  BY <1>4, <1>7
<1>8. CASE ~ (\E p \in Calls : Token(p) /\ Grants(p) /\ call[p].code = c) /\ ~ \E p \in Holding(c) : Deliver(p)
  <2>1. Holding(c)' \subseteq Calls
    BY DEF Holding
  <2> QED BY <1>1, <1>2, <1>5, <1>8, <2>1
<1> QED BY <1>6, <1>7, <1>8

LEMMA OneSessionStep ==
    ASSUME TypeOK, Traced, SessionIsOwn, OneSessionPerCode, [Next]_vars
    PROVE  OneSessionPerCode'
<1> SUFFICES ASSUME NEW c \in Codes
             PROVE  /\ \A p, q \in Holding(c)' : p = q
                    /\ \A a, b \in SignedInWith(c)' : a = b
                    /\ Holding(c)' = {} \/ SignedInWith(c)' = {}
                    /\ c \in codes' => Holding(c)' = {} /\ SignedInWith(c)' = {}
  BY DEF OneSessionPerCode
<1>1. /\ \A p, q \in Holding(c) : p = q
      /\ \A a, b \in SignedInWith(c) : a = b
      /\ Holding(c) = {} \/ SignedInWith(c) = {}
      /\ c \in codes => Holding(c) = {} /\ SignedInWith(c) = {}
  BY DEF OneSessionPerCode
<1>2. issued[c] = NoIssue => Holding(c) = {} /\ SignedInWith(c) = {}
  <2> SUFFICES ASSUME issued[c] = NoIssue PROVE Holding(c) = {} /\ SignedInWith(c) = {}
    OBVIOUS
  <2>1. Holding(c) = {}
    <3> SUFFICES ASSUME NEW p \in Calls, call[p].code = c PROVE FALSE
      BY DEF Holding
    <3> QED BY SignInAssumption DEF Traced, CallsTraced, CallTraced
  <2>2. SignedInWith(c) = {}
    BY DEF SignedInWith, SessionIsOwn, Own
  <2> QED BY <2>1, <2>2
<1> DEFINE H == Holding(c)  S == SignedInWith(c)  Hn == Holding(c)'  Sn == SignedInWith(c)'
<1>3. \/ Hn \subseteq H /\ Sn \subseteq S /\ (c \in codes' => c \in codes \/ issued[c] = NoIssue)
      \/ \E p \in Calls : c \in codes /\ c \notin codes' /\ Hn \subseteq H \cup {p} /\ Sn \subseteq S
      \/ \E p \in H : /\ Hn \subseteq H \ {p} /\ Sn \subseteq S \cup {call[p].browser}
                      /\ codes' = codes
  BY CodeStep
<1> HIDE DEF H, S, Hn, Sn
<1>4. CASE Hn \subseteq H /\ Sn \subseteq S /\ (c \in codes' => c \in codes \/ issued[c] = NoIssue)
  BY <1>1, <1>2, <1>4 DEF H, S, Hn, Sn
<1>5. ASSUME NEW p \in Calls, c \in codes /\ c \notin codes' /\ Hn \subseteq H \cup {p} /\ Sn \subseteq S
      PROVE  /\ \A x, y \in Hn : x = y
             /\ Sn = {} /\ c \notin codes'
  BY <1>1, <1>5 DEF H, S
<1>6. ASSUME NEW p \in H, Hn \subseteq H \ {p}, Sn \subseteq S \cup {call[p].browser}, codes' = codes
      PROVE  /\ \A x, y \in Sn : x = y
             /\ Hn = {} /\ c \notin codes'
  <2>1. H = {p} /\ S = {} /\ c \notin codes
    BY <1>1 DEF H, S
  <2> QED BY <1>6, <2>1
<1>7. CASE \E p \in Calls : c \in codes /\ c \notin codes' /\ Hn \subseteq H \cup {p} /\ Sn \subseteq S
  BY <1>5, <1>7 DEF Hn, Sn
<1>8. CASE \E p \in H : /\ Hn \subseteq H \ {p} /\ Sn \subseteq S \cup {call[p].browser}
                        /\ codes' = codes
  BY <1>6, <1>8 DEF Hn, Sn
<1> QED BY <1>3, <1>4, <1>7, <1>8

(* A code makes at most one session. *)
THEOREM CodesMakeOneSession == Spec => []OneSessionPerCode
<1> DEFINE I == TypeOK /\ Traced /\ SessionIsOwn /\ OneSessionPerCode
<1>1. Init => I
  <2> SUFFICES ASSUME Init PROVE I
    OBVIOUS
  <2>1. SessionIsOwn
    BY DEF Init, SessionIsOwn, NoCall, Kept
  <2>2. \A p \in Calls : ~ Granted(p)
    BY DEF Init, Granted, NoCall, Kept
  <2>3. OneSessionPerCode
    BY <2>2 DEF Init, OneSessionPerCode, Holding, SignedInWith
  <2> QED BY InitTraced, <2>1, <2>3
<1>2. I /\ [Next]_vars => I'
  BY TypeStep, TracedStep, SessionIsOwnStep, OneSessionStep
<1> QED BY <1>1, <1>2, PTL DEF Spec

----------------------------------------------------------------------------
(* A login alone in its browser *)

LEMMA AloneStarted ==
    ASSUME TypeOK, Traced, [Next]_vars, NEW t \in alone
    PROVE  started[t].browser \in Browsers /\ started'[t] = started[t] /\ t \in Logins
<1>1. started[t].browser \in Browsers /\ t \in Logins
  BY DEF TypeOK, Traced, CodesTraced
<1> QED BY <1>1, StartedSettled

LEMMA OthersAlone ==
    ASSUME TypeOK, NEW p \in Calls, NEW q \in Calls, p # q, Serve(q), call'[p].alone
    PROVE  call[p].alone
<1> USE DEF TypeOK
<1>1. ASSUME NEW b \in Browsers, NEW url \in CallbackURLs, CallbackSend(q, b, url)
      PROVE  call[p].alone
  <2>1. call'[p] = [call[p] EXCEPT !.alone =
                      @ /\ call[p].browser # b /\ call[p].state \notin Diverted(url, transaction[b])]
    BY <1>1 DEF CallbackSend, Sending
  <2>2. call[p] \in CallRecord
    OBVIOUS
  <2> QED BY <2>1, <2>2 DEF CallRecord
<1>2. CASE ~ \E b \in Browsers, url \in CallbackURLs : CallbackSend(q, b, url)
  BY <1>2 DEF Serve, LoginOpen, Logout, CallbackOpen, Token, Verify, Fail, Deliver, Lose, Respond, Goto, End
<1> QED BY <1>1, <1>2

(* What a request does to its own call. *)
LEMMA LoginCall ==
    ASSUME TypeOK, NEW p \in Calls, NEW b \in Browsers, NEW t \in Logins, LoginOpen(p, b, t)
    PROVE  /\ pc'[p] = "reply" /\ call'[p].browser = b /\ call'[p].alone = FALSE
           /\ call'[p].reply.transaction # NoTransaction
           /\ call'[p].reply.transaction.login = t
<1> DEFINE tx == [login |-> t, expiresAt |-> now + TransactionLife]
           r == [NoCall EXCEPT !.browser = b, !.state = t, !.reply.transaction = tx]
<1>1. call'[p] = r /\ pc'[p] = "reply"
  BY DEF TypeOK, LoginOpen, Goto
<1>2. tx.login = t /\ tx \in Transaction
  BY SignInAssumption DEF TypeOK, Transaction
<1>3. tx # NoTransaction
  <2> HIDE DEF tx
  <2> QED BY <1>2, SignInAssumption
<1>4. r.browser = b /\ r.alone = FALSE /\ r.reply.transaction = tx
  <2> HIDE DEF tx
  <2> QED BY DEF NoCall, Kept
<1> HIDE DEF r, tx
<1> QED BY <1>1, <1>2, <1>3, <1>4

LEMMA LogoutCall ==
    ASSUME TypeOK, NEW p \in Calls, NEW b \in Browsers, Logout(p, b)
    PROVE  /\ pc'[p] = "reply" /\ call'[p].browser = b /\ call'[p].alone = FALSE
           /\ call'[p].reply.transaction = Keep
<1> DEFINE r == [NoCall EXCEPT !.browser = b, !.reply.session = NoSession]
<1>1. call'[p] = r /\ pc'[p] = "reply"
  BY DEF TypeOK, Logout, Goto
<1>2. r.browser = b /\ r.alone = FALSE /\ r.reply.transaction = Keep
  BY DEF NoCall, Kept
<1> HIDE DEF r
<1> QED BY <1>1, <1>2

LEMMA CallbackCall ==
    ASSUME TypeOK, NEW p \in Calls, NEW b \in Browsers, NEW url \in CallbackURLs, CallbackSend(p, b, url)
    PROVE  /\ pc'[p] = "open" /\ call'[p].browser = b /\ call'[p].sent = transaction[b]
           /\ call'[p].code = url.code /\ call'[p].state = url.state
           /\ call'[p].alone => url.state \in alone \cap StartedBy(b) /\ Diverted(url, transaction[b]) = {}
<1> DEFINE mine == url.state \in alone \cap StartedBy(b) /\ Diverted(url, transaction[b]) = {}
           r == [NoCall EXCEPT !.browser = b, !.sent = transaction[b], !.code = url.code,
                   !.state = url.state, !.alone = mine]
<1>1. call'[p] = r /\ pc'[p] = "open"
  BY DEF TypeOK, CallbackSend, Sending, Goto
<1>2. mine \in BOOLEAN
  OBVIOUS
<1>3. /\ r.browser = b /\ r.sent = transaction[b] /\ r.code = url.code /\ r.state = url.state
      /\ r.alone => mine
  <2> HIDE DEF mine
  <2> QED BY <1>2 DEF NoCall
<1> HIDE DEF r
<1> QED BY <1>1, <1>3

LEMMA LaterCall ==
    ASSUME TypeOK, NEW p \in Calls, CallbackOpen(p) \/ Token(p) \/ Verify(p) \/ Fail(p)
    PROVE  /\ pc[p] \in {"open", "exchange", "verify"}
           /\ pc'[p] = "exchange" => pc[p] = "open"
           /\ pc'[p] # "open"
           /\ call'[p].browser = call[p].browser /\ call'[p].sent = call[p].sent
           /\ call'[p].code = call[p].code /\ call'[p].state = call[p].state
           /\ call'[p].alone = call[p].alone
<1> USE DEF TypeOK
<1>1. call[p] \in CallRecord
  OBVIOUS
<1>2. ASSUME NEW reply, Respond(p, reply)
      PROVE  /\ call'[p] = [call[p] EXCEPT !.reply = reply]
             /\ pc'[p] = "reply"
  BY <1>2 DEF Respond, Goto
<1>3. ASSUME NEW reply, Respond(p, reply), pc[p] \in {"open", "exchange", "verify"}
      PROVE  /\ pc[p] \in {"open", "exchange", "verify"}
             /\ pc'[p] = "exchange" => pc[p] = "open"
             /\ pc'[p] # "open"
             /\ call'[p].browser = call[p].browser /\ call'[p].sent = call[p].sent
             /\ call'[p].code = call[p].code /\ call'[p].state = call[p].state
             /\ call'[p].alone = call[p].alone
  BY <1>1, <1>2, <1>3 DEF CallRecord
<1>4. CASE CallbackOpen(p)
  BY <1>3, <1>4 DEF CallbackOpen, Goto
<1>5. CASE Token(p)
  <2>1. CASE Respond(p, Rejected)
    BY <1>3, <1>5, <2>1 DEF Token
  <2>2. CASE call' = [call EXCEPT ![p].token = issued[call[p].code]] /\ Goto(p, "verify")
    BY <1>1, <1>5, <2>2 DEF Token, Goto, CallRecord
  <2> QED BY <1>5, <2>1, <2>2 DEF Token
<1>6. CASE Verify(p)
  BY <1>3, <1>6 DEF Verify
<1>7. CASE Fail(p)
  BY <1>3, <1>7 DEF Fail
<1> QED BY <1>4, <1>5, <1>6, <1>7

LEMMA EndedCall ==
    ASSUME TypeOK, NEW p \in Calls, Deliver(p) \/ Lose(p)
    PROVE  /\ pc'[p] = "idle" /\ call'[p].browser = NoBrowser /\ call'[p].alone = FALSE
           /\ alone' = alone
BY DEF TypeOK, Deliver, Lose, End, Goto, NoCall

(* An undisturbed login's browser has only answered calls about it. *)
LEMMA CallsSettledStep ==
    ASSUME TypeOK, Traced, Undisturbed, [Next]_vars, NEW t \in alone, t \in alone', NEW p \in Calls,
           call'[p].browser = started[t].browser
    PROVE  /\ pc'[p] = "reply"
           /\ call'[p].reply.transaction # Keep =>
                  call'[p].reply.transaction # NoTransaction /\ call'[p].reply.transaction.login = t
<1> DEFINE G == /\ pc'[p] = "reply"
                /\ call'[p].reply.transaction # Keep =>
                      call'[p].reply.transaction # NoTransaction /\ call'[p].reply.transaction.login = t
<1>a. started[t].browser \in Browsers /\ t \in Logins
  BY AloneStarted
<1>b. call[p].browser = started[t].browser =>
        /\ pc[p] = "reply"
        /\ call[p].reply.transaction # Keep =>
              call[p].reply.transaction # NoTransaction /\ call[p].reply.transaction.login = t
  BY DEF Undisturbed, LoginsUndisturbed, CallsSettled
<1> SUFFICES G
  OBVIOUS
<1>1. CASE UNCHANGED <<pc, call>>
  BY <1>b, <1>1
<1>2. CASE \E q \in Calls : q # p /\ Serve(q)
  BY <1>b, <1>2, OthersUntouched
<1>3. ASSUME NEW b \in Browsers, NEW u \in Logins, LoginOpen(p, b, u) PROVE G
  <2>1. b = started[t].browser
    BY <1>3, LoginCall
  <2>2. t \in StartedBy(b)
    BY <1>a, <2>1 DEF StartedBy
  <2>3. t = u
    BY <1>3, <2>2 DEF LoginOpen
  <2> QED BY <1>3, <2>3, LoginCall
<1>4. ASSUME NEW b \in Browsers, Logout(p, b) PROVE G
  BY <1>4, LogoutCall
<1>5. ASSUME NEW b \in Browsers, NEW url \in CallbackURLs, CallbackSend(p, b, url) PROVE G
  <2>1. b = started[t].browser
    BY <1>5, CallbackCall
  <2>2. t \in StartedBy(b)
    BY <1>a, <2>1 DEF StartedBy
  <2> QED BY <1>5, <2>2 DEF CallbackSend
<1>6. ASSUME CallbackOpen(p) \/ Token(p) \/ Verify(p) \/ Fail(p) PROVE G
  <2>1. call[p].browser = started[t].browser /\ pc[p] # "reply"
    BY <1>6, LaterCall
  <2> QED BY <1>b, <2>1
<1>7. ASSUME Deliver(p) \/ Lose(p) PROVE G
  BY <1>a, <1>7, EndedCall, SignInAssumption
<1>8. CASE Serve(p)
  BY <1>3, <1>4, <1>5, <1>6, <1>7, <1>8 DEF Serve
<1>9. UNCHANGED <<pc, call>> \/ \E q \in Calls : Serve(q)
  BY DEF Next, vars, Authorize, SessionEnds, Tick
<1> HIDE DEF G
<1> QED BY <1>1, <1>2, <1>8, <1>9

(* Its transaction is there when its page is. *)
LEMMA TransactionWaitsStep ==
    ASSUME TypeOK, Traced, Undisturbed, [Next]_vars, NEW t \in alone, t \in pages'
    PROVE  /\ transaction'[started[t].browser] # NoTransaction
           /\ transaction'[started[t].browser].login = t
<1> DEFINE b == started[t].browser
<1>a. b \in Browsers /\ t \in Logins
  BY AloneStarted
<1>b. t \in pages => transaction[b] # NoTransaction /\ transaction[b].login = t
  BY DEF Undisturbed, LoginsUndisturbed, TransactionWaits
<1>c. \A p \in Calls : call[p].browser = b /\ call[p].reply.transaction # Keep =>
         call[p].reply.transaction # NoTransaction /\ call[p].reply.transaction.login = t
  BY DEF Undisturbed, LoginsUndisturbed, CallsSettled
<1> HIDE DEF b
<1> SUFFICES transaction'[b] # NoTransaction /\ transaction'[b].login = t
  BY DEF b
<1>1. CASE transaction' = transaction /\ pages' = pages
  BY <1>b, <1>1
<1>2. ASSUME NEW p \in Calls, Deliver(p)
      PROVE  transaction'[b] # NoTransaction /\ transaction'[b].login = t
  <2> DEFINE tx == call[p].reply.transaction
  <2>1. CASE tx = Keep
    <3>1. transaction' = transaction /\ pages' = pages
      BY <1>2, <2>1 DEF Deliver
    <3> QED BY <1>1, <3>1
  <2>2. CASE tx # Keep /\ call[p].browser = b
    <3>1. transaction'[b] = tx
      BY <1>2, <1>a, <2>2 DEF Deliver, TypeOK
    <3> QED BY <1>c, <2>2, <3>1
  <2>3. CASE tx # Keep /\ call[p].browser # b
    <3>1. transaction'[b] = transaction[b]
      BY <1>2, <1>a, <2>3 DEF Deliver, TypeOK
    <3>2. t \in pages
      <4>1. CASE tx = NoTransaction
        BY <1>2, <4>1 DEF Deliver
      <4>2. CASE tx # NoTransaction
        <5>1. pages' = pages \cup {tx.login}
          BY <1>2, <2>3, <4>2 DEF Deliver
        <5>2. started[tx.login].browser = call[p].browser
          BY <2>3, <4>2 DEF Traced, CallsTraced, CallTraced, Stands
        <5> QED BY <2>3, <5>1, <5>2 DEF b
      <4> QED BY <4>1, <4>2
    <3> QED BY <1>b, <3>1, <3>2
  <2> QED BY <2>1, <2>2, <2>3
<1>3. (transaction' = transaction /\ pages' = pages) \/ \E p \in Calls : Deliver(p)
  BY DEF Next, Serve, vars, cookies, LoginOpen, Logout, CallbackSend, CallbackOpen, Token, Verify,
         Fail, Lose, Authorize, SessionEnds, Tick
<1> QED BY <1>1, <1>2, <1>3

(* A code is spent by a call of the browser its login was started in, or by *)
(* one that diverts it.                                                     *)
LEMMA SpentWhere ==
    ASSUME TypeOK, Traced, NEW p \in Calls, Token(p), NEW c \in Codes, c \in codes, c \notin codes'
    PROVE  /\ call[p].code = c /\ pc[p] = "exchange"
           /\ \/ call[p].browser = started[issued[c].login].browser
              \/ issued[c].login \in Diverting(p)
<1>1. call[p].code = c /\ pc[p] = "exchange"
  BY DEF Token
<1>2. /\ call[p].code # NoCode /\ call[p].sent # NoTransaction /\ call[p].sent.login = call[p].state
      /\ Stands(call[p].browser, call[p].sent)
  BY <1>1 DEF Traced, CallsTraced, CallTraced
<1>3. CASE issued[c].login = call[p].state
  BY <1>1, <1>2, <1>3 DEF Stands
<1>4. CASE issued[c].login # call[p].state
  <2>1. issued[c] \in Issue
    BY DEF TypeOK, Traced, CodesTraced
  <2>2. issued[c].login \in Logins
    BY <2>1 DEF Issue
  <2> QED BY <1>1, <1>2, <1>4, <2>2 DEF Diverting, Diverted
<1> QED BY <1>1, <1>3, <1>4

LEMMA CodesHeldStep ==
    ASSUME TypeOK, Traced, Undisturbed, [Next]_vars, NEW t \in alone, NEW c \in Codes,
           issued'[c].login = t
    PROVE  c \in codes'
<1> USE DEF TypeOK
<1>a. started[t].browser \in Browsers /\ t \in Logins
  BY AloneStarted
<1>b. issued[c].login = t => c \in codes
  BY DEF Undisturbed, LoginsUndisturbed, CodesHeld
<1>1. CASE issued' = issued /\ codes' = codes
  BY <1>b, <1>1
<1>2. ASSUME NEW u \in Logins, NEW s \in Subjects, NEW d \in Codes, Authorize(u, s, d)
      PROVE  c \in codes'
  BY <1>b, <1>2 DEF Authorize
<1>3. ASSUME NEW p \in Calls, Token(p)
      PROVE  c \in codes'
  <2> SUFFICES ASSUME c \notin codes' PROVE FALSE
    OBVIOUS
  <2>1. issued' = issued
    BY <1>3 DEF Token
  <2>2. c \in codes
    BY <1>b, <2>1
  <2>3. pc[p] = "exchange" /\ (call[p].browser = started[t].browser \/ t \in Diverting(p))
    BY <1>3, <2>1, <2>2, SpentWhere
  <2>4. t \notin Diverting(p)
    BY DEF Undisturbed, DivertedDisturbed
  <2> QED BY <2>3, <2>4 DEF Undisturbed, LoginsUndisturbed, CallsSettled
<1>4. \/ issued' = issued /\ codes' = codes
      \/ \E u \in Logins, s \in Subjects, d \in Codes : Authorize(u, s, d)
      \/ \E p \in Calls : Token(p)
  BY DEF Next, Serve, vars, provider, LoginOpen, Logout, CallbackSend, CallbackOpen, Verify,
         Fail, Deliver, Lose, SessionEnds, Tick
<1> QED BY <1>1, <1>2, <1>3, <1>4

(* A login begun where no call is under way has nothing to disturb it yet. *)
LEMMA LoginBegins ==
    ASSUME TypeOK, Traced, [Next]_vars, NEW t \in alone', t \notin alone
    PROVE  CallsSettled(t)' /\ TransactionWaits(t)' /\ CodesHeld(t)'
<1> USE DEF TypeOK
<1>1. PICK p \in Calls, b \in Browsers : LoginOpen(p, b, t) /\ Quiet(b) /\ t \in Logins
  BY DEF Next, Serve, vars, LoginOpen, Logout, CallbackSend, CallbackOpen, Token, Verify,
         Fail, Deliver, Lose, Authorize, SessionEnds, Tick
<1>2. started'[t].browser = b /\ started[t] = NoStart
  BY <1>1 DEF LoginOpen
<1>3. started[t].browser \notin Browsers
  BY <1>2, SignInAssumption DEF NoStart
<1>4. t \notin pages'
  BY <1>1, <1>3 DEF LoginOpen, Traced, CodesTraced
<1>5. \A c \in Codes : issued'[c].login # t
  <2> SUFFICES ASSUME NEW c \in Codes, issued'[c].login = t PROVE FALSE
    OBVIOUS
  <2>1. issued' = issued /\ pages' = pages
    BY <1>1 DEF LoginOpen, provider
  <2>2. issued[c] = NoIssue
    BY <1>4, <2>1 DEF Traced, CodesTraced
  <2> QED BY <1>1, <2>1, <2>2, SignInAssumption DEF NoIssue
<1>6. ASSUME NEW q \in Calls, call'[q].browser = b
      PROVE  /\ pc'[q] = "reply" /\ call'[q].reply.transaction # NoTransaction
             /\ call'[q].reply.transaction.login = t
  <2>1. q = p
    <3> SUFFICES ASSUME q # p PROVE FALSE
      OBVIOUS
    <3>1. Serve(p)
      BY <1>1 DEF Serve
    <3>2. call[q].browser = b
      BY <1>6, <3>1, OthersUntouched
    <3> QED BY <1>1, <3>2 DEF Quiet
  <2> QED BY <1>1, <2>1, LoginCall
<1> QED BY <1>2, <1>4, <1>5, <1>6 DEF CallsSettled, TransactionWaits, CodesHeld

LEMMA LoginsUndisturbedStep ==
    ASSUME TypeOK, Traced, Undisturbed, [Next]_vars
    PROVE  LoginsUndisturbed'
<1>1. ASSUME NEW t \in alone', t \in alone
      PROVE  CallsSettled(t)' /\ TransactionWaits(t)' /\ CodesHeld(t)'
  <2>1. started'[t] = started[t]
    BY <1>1, AloneStarted
  <2>2. CallsSettled(t)'
    BY <1>1, <2>1, CallsSettledStep DEF CallsSettled
  <2>3. TransactionWaits(t)'
    BY <1>1, <2>1, TransactionWaitsStep DEF TransactionWaits
  <2>4. CodesHeld(t)'
    BY <1>1, CodesHeldStep DEF CodesHeld
  <2> QED BY <2>2, <2>3, <2>4
<1> QED BY <1>1, LoginBegins DEF LoginsUndisturbed

(* A callback disturbs the other calls of its browser and of the login      *)
(* whose code it diverts.                                                   *)
LEMMA CallbackDisturbs ==
    ASSUME TypeOK, NEW p \in Calls, NEW q \in Calls, p # q, NEW b \in Browsers, NEW url \in CallbackURLs,
           CallbackSend(q, b, url), call'[p].alone
    PROVE  call[p].browser # b /\ call[p].state \notin Diverted(url, transaction[b])
<1>1. call'[p] = [call[p] EXCEPT !.alone =
                    @ /\ call[p].browser # b /\ call[p].state \notin Diverted(url, transaction[b])]
  BY DEF TypeOK, CallbackSend, Sending
<1>2. call[p] \in CallRecord
  BY DEF TypeOK
<1> QED BY <1>1, <1>2 DEF CallRecord

(* What another request does to an undisturbed call. *)
LEMMA OtherCallAnswered ==
    ASSUME TypeOK, Traced, Undisturbed, [Next]_vars, NEW p \in Calls, NEW q \in Calls, p # q,
           Serve(q), call'[p].alone, call'[q].browser = call'[p].browser
    PROVE  pc'[q] = "reply"
<1>1. call[p].alone /\ call'[p].browser = call[p].browser
  BY OthersAlone, OthersUntouched
<1>2. call[p].browser \in Browsers
  BY <1>1 DEF Traced, CallsTraced, CallTraced
<1>3. call[q].browser = call[p].browser => pc[q] = "reply"
  BY <1>1 DEF Undisturbed, CallsUndisturbed, CallUndisturbed
<1>4. ASSUME NEW b \in Browsers, NEW url \in CallbackURLs, CallbackSend(q, b, url) PROVE FALSE
  BY <1>1, <1>4, CallbackDisturbs, CallbackCall
<1>5. ASSUME CallbackOpen(q) \/ Token(q) \/ Verify(q) \/ Fail(q) PROVE FALSE
  BY <1>1, <1>3, <1>5, LaterCall
<1>6. ASSUME Deliver(q) \/ Lose(q) PROVE FALSE
  BY <1>1, <1>2, <1>6, EndedCall, SignInAssumption
<1>7. CASE \E b \in Browsers, t \in Logins : LoginOpen(q, b, t)
  BY <1>7, LoginCall
<1>8. CASE \E b \in Browsers : Logout(q, b)
  BY <1>8, LogoutCall
<1> QED BY <1>4, <1>5, <1>6, <1>7, <1>8 DEF Serve

LEMMA CallsUndisturbedStep ==
    ASSUME TypeOK, Traced, Undisturbed, [Next]_vars
    PROVE  CallsUndisturbed'
<1> SUFFICES ASSUME NEW p \in Calls, call'[p].alone
             PROVE  CallUndisturbed(p)'
  BY DEF CallsUndisturbed
<1>a. call[p] \in CallRecord /\ CallTraced(p)
  BY DEF TypeOK, Traced, CallsTraced
<1>b. call[p].alone => CallUndisturbed(p)
  BY DEF Undisturbed, CallsUndisturbed
<1>1. CASE UNCHANGED <<pc, call>>
  <2>1. codes \subseteq codes'
    BY <1>1 DEF Next, Serve, vars, provider, LoginOpen, Logout, CallbackSend, CallbackOpen, Token, Verify,
           Fail, Deliver, Lose, Respond, Goto, End, TypeOK, Authorize, SessionEnds, Tick
  <2>2. call[p].alone /\ call[p].code # NoCode => issued'[call[p].code].login = call[p].state
    BY <1>b, CarriedStays DEF CallUndisturbed, CarriedNext
  <2> QED BY <1>b, <1>1, <2>1, <2>2 DEF CallUndisturbed
<1>2. ASSUME NEW q \in Calls, Serve(q), q # p
      PROVE  CallUndisturbed(p)'
  <2>1. /\ call[p].alone /\ pc'[p] = pc[p]
        /\ call'[p].browser = call[p].browser /\ call'[p].sent = call[p].sent
        /\ call'[p].code = call[p].code /\ call'[p].state = call[p].state
    BY <1>2, OthersAlone, OthersUntouched
  <2>2. CallUndisturbed(p)
    BY <1>b, <2>1
  <2>3. \A r \in Calls \ {p} : call'[r].browser = call'[p].browser => pc'[r] = "reply"
    <3> SUFFICES ASSUME NEW r \in Calls \ {p}, call'[r].browser = call'[p].browser
                 PROVE  pc'[r] = "reply"
      OBVIOUS
    <3>1. CASE r = q
      BY <1>2, <3>1, OtherCallAnswered
    <3>2. CASE r # q
      BY <1>2, <2>1, <2>2, <3>2, OthersUntouched DEF CallUndisturbed
    <3> QED BY <3>1, <3>2
  <2>4. call[p].code # NoCode /\ pc[p] \in {"open", "exchange"} => call[p].code \in codes'
    <3> SUFFICES ASSUME call[p].code # NoCode, pc[p] \in {"open", "exchange"}, call[p].code \notin codes'
                 PROVE  FALSE
      OBVIOUS
    <3> DEFINE c == call[p].code
    <3>1. c \in Codes /\ c \in codes /\ c \notin codes'
      BY <1>a, <2>2 DEF CallRecord, CallUndisturbed
    <3>2. Token(q)
      BY <1>2, <3>1 DEF Serve, provider, LoginOpen, Logout, CallbackSend, CallbackOpen, Verify, Fail, Deliver, Lose
    <3> HIDE DEF c
    <3>3. issued[c].login = call[p].state
      BY <2>2 DEF c, CallUndisturbed
    <3>4. pc[q] = "exchange" /\ (call[q].browser = started[call[p].state].browser
                                  \/ call[p].state \in Diverting(q))
      BY <3>1, <3>2, <3>3, SpentWhere
    <3>5. call[p].state \notin Diverting(q)
      BY <2>1 DEF Undisturbed, DivertedDisturbed
    <3>6. started[call[p].state].browser = call[p].browser
      BY <1>a, <2>2 DEF CallTraced, CallUndisturbed, Stands
    <3> QED BY <1>2, <2>2, <3>4, <3>5, <3>6 DEF CallUndisturbed
  <2>5. call[p].code # NoCode => issued'[call[p].code].login = call[p].state
    BY <1>a, <1>2, <2>2, CarriedStays DEF CallUndisturbed, CarriedNext
  <2> QED BY <2>1, <2>2, <2>3, <2>4, <2>5 DEF CallUndisturbed
<1>3. ASSUME Serve(p)
      PROVE  \A q \in Calls \ {p} : pc'[q] = pc[q] /\ call'[q].browser = call[q].browser
  BY <1>3, OthersUntouched
<1>4. ASSUME NEW b \in Browsers, NEW url \in CallbackURLs, CallbackSend(p, b, url)
      PROVE  CallUndisturbed(p)'
  <2> DEFINE t == url.state
  <2>1. t \in alone /\ started[t].browser = b /\ Diverted(url, transaction[b]) = {}
    BY <1>4, CallbackCall DEF StartedBy
  <2>2. /\ pc'[p] = "open" /\ call'[p].browser = b /\ call'[p].sent = transaction[b]
        /\ call'[p].code = url.code /\ call'[p].state = t
    BY <1>4, CallbackCall
  <2>3. t \in pages /\ (url.code # NoCode => url.code \in Codes /\ issued[url.code] # NoIssue)
    BY DEF CallbackURLs
  <2>4. transaction[b] # NoTransaction /\ transaction[b].login = t
    BY <2>1, <2>3 DEF Undisturbed, LoginsUndisturbed, TransactionWaits
  <2>8. url.code # NoCode => issued[url.code].login = t
    <3> SUFFICES ASSUME url.code # NoCode, issued[url.code].login # t PROVE FALSE
      OBVIOUS
    <3>1. issued[url.code] \in Issue
      BY <2>3 DEF TypeOK
    <3>2. issued[url.code].login \in Logins
      BY <3>1 DEF Issue
    <3>3. issued[url.code].login \in Diverted(url, transaction[b])
      BY <2>4, <3>2 DEF Diverted
    <3> QED BY <2>1, <3>3
  <2> HIDE DEF t
  <2>5. url.code # NoCode => url.code \in codes
    BY <2>1, <2>3, <2>8 DEF Undisturbed, LoginsUndisturbed, CodesHeld
  <2>6. codes' = codes /\ issued' = issued
    BY <1>4 DEF CallbackSend, provider
  <2>7. \A q \in Calls \ {p} : call'[q].browser = b => pc'[q] = "reply"
    <3>1. Serve(p)
      BY <1>4 DEF Serve
    <3> QED BY <1>3, <2>1, <3>1 DEF Undisturbed, LoginsUndisturbed, CallsSettled
  <2> QED BY <2>2, <2>4, <2>5, <2>6, <2>7, <2>8 DEF CallUndisturbed
<1>5. ASSUME CallbackOpen(p) \/ Token(p) \/ Verify(p) \/ Fail(p)
      PROVE  CallUndisturbed(p)'
  <2>1. /\ call'[p].browser = call[p].browser /\ call'[p].sent = call[p].sent
        /\ call'[p].code = call[p].code /\ call'[p].state = call[p].state
        /\ call[p].alone /\ pc'[p] # "open" /\ (pc'[p] = "exchange" => pc[p] = "open")
    BY <1>5, LaterCall
  <2>2. CallUndisturbed(p)
    BY <1>b, <2>1
  <2>3. pc'[p] = "exchange" => codes' = codes
    BY <1>5, <2>1 DEF CallbackOpen, Token, Verify, Fail, provider
  <2>4. Serve(p)
    BY <1>5 DEF Serve
  <2>5. call[p].code # NoCode => issued'[call[p].code].login = call[p].state
    BY <2>2, CarriedStays DEF CallUndisturbed, CarriedNext
  <2> QED BY <1>3, <2>1, <2>2, <2>3, <2>4, <2>5 DEF CallUndisturbed
<1>6. ASSUME NEW b \in Browsers, NEW t \in Logins, LoginOpen(p, b, t) PROVE FALSE
  BY <1>6, LoginCall
<1>7. ASSUME NEW b \in Browsers, Logout(p, b) PROVE FALSE
  BY <1>7, LogoutCall
<1>8. ASSUME Deliver(p) \/ Lose(p) PROVE FALSE
  BY <1>8, EndedCall
<1>9. CASE Serve(p)
  BY <1>4, <1>5, <1>6, <1>7, <1>8, <1>9 DEF Serve
<1>10. UNCHANGED <<pc, call>> \/ \E q \in Calls : Serve(q)
  BY DEF Next, vars, Authorize, SessionEnds, Tick
<1> QED BY <1>1, <1>2, <1>9, <1>10

(* A call diverts what it did before, or is a callback just sent. *)
LEMMA DivertingWhence ==
    ASSUME TypeOK, Traced, [Next]_vars, NEW q \in Calls, NEW t \in Diverting(q)'
    PROVE  \/ t \in Diverting(q)
           \/ \E b \in Browsers, url \in CallbackURLs :
                 CallbackSend(q, b, url) /\ t \in Diverted(url, transaction[b])
<1> USE DEF TypeOK
<1>1. /\ pc'[q] \in {"open", "exchange"} /\ t \in Logins
      /\ call'[q].sent # NoTransaction /\ call'[q].sent.login = call'[q].state
      /\ call'[q].code # NoCode /\ issued'[call'[q].code].login = t /\ t # call'[q].state
  BY DEF Diverting, Diverted
<1>2. ASSUME pc[q] \in {"open", "exchange"}, call'[q].sent = call[q].sent,
             call'[q].state = call[q].state, call'[q].code = call[q].code
      PROVE  t \in Diverting(q)
  <2>1. issued'[call[q].code] = issued[call[q].code]
    BY <1>1, <1>2, CarriedStays DEF CarriedNext
  <2> QED BY <1>1, <1>2, <2>1 DEF Diverting, Diverted
<1>3. CASE UNCHANGED <<pc, call>>
  BY <1>1, <1>2, <1>3
<1>4. CASE \E p \in Calls : p # q /\ Serve(p)
  BY <1>1, <1>2, <1>4, OthersUntouched
<1>5. ASSUME NEW b \in Browsers, NEW url \in CallbackURLs, CallbackSend(q, b, url)
      PROVE  t \in Diverted(url, transaction[b])
  <2>1. /\ call'[q].sent = transaction[b] /\ call'[q].code = url.code /\ call'[q].state = url.state
        /\ issued' = issued
    BY <1>5, CallbackCall DEF CallbackSend, provider
  <2> QED BY <1>1, <2>1 DEF Diverted
<1>6. CASE CallbackOpen(q) \/ Token(q) \/ Verify(q) \/ Fail(q)
  BY <1>1, <1>2, <1>6, LaterCall
<1>7. ASSUME \/ \E b \in Browsers, u \in Logins : LoginOpen(q, b, u)
             \/ \E b \in Browsers : Logout(q, b)
             \/ Deliver(q) \/ Lose(q)
      PROVE  FALSE
  BY <1>1, <1>7, LoginCall, LogoutCall, EndedCall
<1>8. CASE Serve(q)
  BY <1>5, <1>6, <1>7, <1>8 DEF Serve
<1>9. UNCHANGED <<pc, call>> \/ \E p \in Calls : Serve(p)
  BY DEF Next, vars, Authorize, SessionEnds, Tick
<1> QED BY <1>3, <1>4, <1>8, <1>9

(* A login that is alone now was, or has only just been started: its state  *)
(* has not been seen, and nothing has been issued for it.                   *)
LEMMA AloneWhence ==
    ASSUME TypeOK, Traced, [Next]_vars, NEW t \in alone', t \notin alone
    PROVE  /\ \E p \in Calls, b \in Browsers : LoginOpen(p, b, t)
           /\ \A c \in Codes : issued[c].login # t
<1> USE DEF TypeOK
<1>1. PICK p \in Calls, b \in Browsers : LoginOpen(p, b, t) /\ t \in Logins
  BY DEF Next, Serve, vars, LoginOpen, Logout, CallbackSend, CallbackOpen, Token, Verify,
         Fail, Deliver, Lose, Authorize, SessionEnds, Tick
<1>2. started[t].browser \notin Browsers
  BY <1>1, SignInAssumption DEF LoginOpen, NoStart
<1>3. t \notin pages
  BY <1>2 DEF Traced, CodesTraced
<1>4. ASSUME NEW c \in Codes, issued[c].login = t PROVE FALSE
  BY <1>1, <1>3, <1>4, SignInAssumption DEF Traced, CodesTraced, NoIssue
<1> QED BY <1>1, <1>4

LEMMA DivertedDisturbedStep ==
    ASSUME TypeOK, Traced, Undisturbed, [Next]_vars
    PROVE  DivertedDisturbed'
<1> USE DEF TypeOK
<1> SUFFICES ASSUME NEW q \in Calls, NEW t \in Diverting(q)'
             PROVE  t \notin alone' /\ \A p \in Calls : call'[p].alone => call'[p].state # t
  BY DEF DivertedDisturbed
<1>1. CASE t \in Diverting(q)
  <2>1. t \notin alone /\ \A p \in Calls : call[p].alone => call[p].state # t
    BY <1>1 DEF Undisturbed, DivertedDisturbed
  <2>2. t \notin alone'
    <3> SUFFICES ASSUME t \in alone' PROVE FALSE
      OBVIOUS
    <3>1. call[q] \in CallRecord /\ call[q].code # NoCode /\ issued[call[q].code].login = t
      BY <1>1 DEF Diverting, Diverted
    <3>2. call[q].code \in Codes
      BY <3>1 DEF CallRecord
    <3> QED BY <2>1, <3>1, <3>2, AloneWhence
  <2>3. ASSUME NEW p \in Calls, call'[p].alone, call'[p].state = t PROVE FALSE
    <3>1. CASE UNCHANGED call
      BY <2>1, <2>3, <3>1
    <3>2. CASE \E o \in Calls : o # p /\ Serve(o)
      BY <2>1, <2>3, <3>2, OthersAlone, OthersUntouched
    <3>3. ASSUME NEW b \in Browsers, NEW url \in CallbackURLs, CallbackSend(p, b, url) PROVE FALSE
      BY <2>1, <2>3, <3>3, CallbackCall
    <3>4. ASSUME CallbackOpen(p) \/ Token(p) \/ Verify(p) \/ Fail(p) PROVE FALSE
      BY <2>1, <2>3, <3>4, LaterCall
    <3>5. ASSUME \/ \E b \in Browsers, u \in Logins : LoginOpen(p, b, u)
                 \/ \E b \in Browsers : Logout(p, b)
                 \/ Deliver(p) \/ Lose(p)
          PROVE  FALSE
      BY <2>3, <3>5, LoginCall, LogoutCall, EndedCall
    <3>6. CASE Serve(p)
      BY <3>3, <3>4, <3>5, <3>6 DEF Serve
    <3>7. UNCHANGED call \/ \E o \in Calls : Serve(o)
      BY DEF Next, vars, Authorize, SessionEnds, Tick
    <3> QED BY <3>1, <3>2, <3>6, <3>7
  <2> QED BY <2>2, <2>3
<1>2. ASSUME NEW b \in Browsers, NEW url \in CallbackURLs,
             CallbackSend(q, b, url), t \in Diverted(url, transaction[b])
      PROVE  t \notin alone' /\ \A p \in Calls : call'[p].alone => call'[p].state # t
  <2>1. t \notin alone'
    BY <1>2 DEF CallbackSend
  <2>2. ASSUME NEW p \in Calls, call'[p].alone, call'[p].state = t PROVE FALSE
    <3>1. CASE p = q
      BY <1>2, <2>2, <3>1, CallbackCall
    <3>2. CASE p # q
      <4>1. call'[p].state = call[p].state
        <5>1. Serve(q)
          BY <1>2 DEF Serve
        <5> QED BY <3>2, <5>1, OthersUntouched
      <4> QED BY <1>2, <2>2, <3>2, <4>1, CallbackDisturbs
    <3> QED BY <3>1, <3>2
  <2> QED BY <2>1, <2>2
<1> QED BY <1>1, <1>2, DivertingWhence

(* A login nothing disturbed keeps its transaction and its codes. *)
THEOREM AloneUndisturbed == Spec => []Undisturbed
<1> DEFINE I == TypeOK /\ Traced /\ Undisturbed
<1>1. Init => I
  <2> SUFFICES ASSUME Init PROVE I
    OBVIOUS
  <2>1. Undisturbed
    BY DEF Init, Undisturbed, LoginsUndisturbed, CallsUndisturbed, DivertedDisturbed, Diverting, NoCall
  <2> QED BY InitTraced, <2>1
<1>2. I /\ [Next]_vars => I'
  BY TypeStep, TracedStep, LoginsUndisturbedStep, CallsUndisturbedStep, DivertedDisturbedStep
     DEF Undisturbed
<1> QED BY <1>1, <1>2, PTL DEF Spec

(* And signs in: its callback is let through and its code is granted. *)
THEOREM AloneSignsIn == Spec => SignsInAlone
<1>1. ASSUME TypeOK, Traced, Undisturbed, NEW p \in Calls, call[p].alone, call[p].code # NoCode
      PROVE  /\ CallbackOpen(p) /\ now < started[call[p].state].at + TransactionLife
                    => pc'[p] = "exchange"
             /\ Token(p) /\ now <= issued[call[p].code].at + CodeLife
                    => pc'[p] = "verify"
  <2> USE DEF TypeOK
  <2>1. CallUndisturbed(p) /\ CallTraced(p)
    BY <1>1 DEF Undisturbed, CallsUndisturbed, Traced, CallsTraced
  <2>2. call[p].sent # NoTransaction /\ call[p].sent.login = call[p].state
        /\ call[p].sent.expiresAt = started[call[p].state].at + TransactionLife
    BY <2>1 DEF CallUndisturbed, CallTraced, Stands
  <2>3. ASSUME CallbackOpen(p), now < started[call[p].state].at + TransactionLife
        PROVE  pc'[p] = "exchange"
    BY <1>1, <2>2, <2>3 DEF CallbackOpen, Goto
  <2>4. ASSUME Token(p), now <= issued[call[p].code].at + CodeLife
        PROVE  pc'[p] = "verify"
    <3>1. Grants(p)
      BY <1>1, <2>1, <2>2, <2>4 DEF Token, Grants, CallUndisturbed, CallTraced
    <3>2. Goto(p, "verify")
      BY <2>4, <3>1 DEF Token
    <3> QED BY <1>1, <3>2 DEF Goto
  <2> QED BY <2>3, <2>4
<1>2. TypeOK /\ Traced /\ Undisturbed => \A p \in Calls : call[p].alone /\ call[p].code # NoCode =>
          /\ CallbackOpen(p) /\ now < started[call[p].state].at + TransactionLife
                 => pc'[p] = "exchange"
          /\ Token(p) /\ now <= issued[call[p].code].at + CodeLife
                 => pc'[p] = "verify"
  BY <1>1
<1> QED BY <1>2, SignInTyped, TracesKept, AloneUndisturbed, PTL DEF Spec, SignsInAlone
=============================================================================
