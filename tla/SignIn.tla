------------------------------- MODULE SignIn -------------------------------
(***************************************************************************)
(* Signing in: browsers, the login, callback and logout routes of the web   *)
(* server, and the provider's authorization codes.  The server keeps        *)
(* nothing: a login's transaction and the session are cookies, sent with a  *)
(* request as they are then, and changed when its response arrives.         *)
(* Requests overlap, and their responses arrive in any order or never.      *)
(*                                                                          *)
(* A login stands for its transaction's state, nonce and verifier, and for  *)
(* the challenge made of it: all four are drawn or derived anew each time.  *)
(* Seals cannot be made without the key, so a cookie is what a response set. *)
(***************************************************************************)
EXTENDS Naturals

CONSTANTS
    Browsers, Subjects,
    Logins,            \* a bound: transactions that can be started
    Codes,             \* a bound: codes that can be issued
    Calls,             \* requests to the web server, at one time
    NoBrowser, NoCode, NoTransaction, NoSession, NoLogin,
    Keep,              \* a response that leaves a cookie alone
    TransactionLife,   \* ten minutes, in ticks
    CodeLife,          \* two minutes
    LastTick           \* bound on the clock

Transaction == [login : Logins, expiresAt : Nat]
Session == [subject : Subjects, token : Codes]

ASSUME SignInAssumption ==
    /\ TransactionLife \in Nat /\ CodeLife \in Nat /\ LastTick \in Nat
    /\ NoBrowser \notin Browsers /\ NoCode \notin Codes /\ NoLogin \notin Logins
    /\ NoTransaction \notin Transaction \cup {Keep} /\ Keep \notin Transaction
    /\ NoSession \notin Session \cup {Keep} /\ Keep \notin Session

VARIABLES
    now,
    transaction, session,   \* each browser's cookies
    started,                \* who started a login, and when
    pages,                  \* logins whose page at the provider was reached
    issued,                 \* what the provider issued each code for
    codes,                  \* those it still holds
    pc, call,               \* each request's control point and its record
    alone                   \* history: logins nothing has disturbed

cookies == <<transaction, session>>
provider == <<issued, codes>>
vars == <<now, cookies, started, pages, provider, pc, call, alone>>

NoStart == [browser |-> NoBrowser, at |-> 0]
NoIssue == [login |-> NoLogin, subject |-> NoBrowser, at |-> 0]
Kept == [transaction |-> Keep, session |-> Keep]
NoCall == [browser |-> NoBrowser, sent |-> NoTransaction, code |-> NoCode,
           state |-> NoLogin, token |-> NoIssue, reply |-> Kept, alone |-> FALSE]

Init ==
    /\ now = 0
    /\ transaction = [b \in Browsers |-> NoTransaction]
    /\ session = [b \in Browsers |-> NoSession]
    /\ started = [t \in Logins |-> NoStart] /\ pages = {}
    /\ issued = [c \in Codes |-> NoIssue] /\ codes = {}
    /\ pc = [p \in Calls |-> "idle"] /\ call = [p \in Calls |-> NoCall]
    /\ alone = {}

Goto(p, label) == pc' = [pc EXCEPT ![p] = label]

Respond(p, reply) ==
    /\ call' = [call EXCEPT ![p].reply = reply]
    /\ Goto(p, "reply")

Rejected == [Kept EXCEPT !.transaction = NoTransaction]

StartedBy(b) == {t \in Logins : started[t].browser = b}
Quiet(b) == \A q \in Calls : call[q].browser # b

----------------------------------------------------------------------------
(* The login route, and the provider's page *)

LoginOpen(p, b, t) ==
    /\ pc[p] = "idle" /\ started[t] = NoStart
    /\ started' = [started EXCEPT ![t] = [browser |-> b, at |-> now]]
    /\ call' = [call EXCEPT ![p] = [NoCall EXCEPT !.browser = b, !.state = t,
                  !.reply.transaction = [login |-> t, expiresAt |-> now + TransactionLife]]]
    /\ Goto(p, "reply")
    /\ alone' = (alone \ StartedBy(b)) \cup (IF Quiet(b) THEN {t} ELSE {})
    /\ UNCHANGED <<now, cookies, pages, provider>>

(* Someone chooses an identity on the page, which can be answered again:    *)
(* it stays in the browser's history.                                       *)
Authorize(t, s, c) ==
    /\ t \in pages /\ issued[c] = NoIssue
    /\ issued' = [issued EXCEPT ![c] = [login |-> t, subject |-> s, at |-> now]]
    /\ codes' = codes \cup {c}
    /\ UNCHANGED <<now, cookies, started, pages, pc, call, alone>>

----------------------------------------------------------------------------
(* The callback route *)

(* The code, absent after an error, and the state are two parameters of the *)
(* URL: the provider redirects with a code and the state of its login, and  *)
(* a link may carry any code with any state there has been.                 *)
CallbackURLs ==
    [code : {c \in Codes : issued[c] # NoIssue} \cup {NoCode}, state : pages]

(* The login whose code a URL takes to another login's transaction: the     *)
(* provider will spend it there.                                            *)
Diverted(url, cookie) ==
    {t \in Logins : /\ cookie # NoTransaction /\ cookie.login = url.state
                    /\ url.code # NoCode /\ issued[url.code].login = t /\ t # url.state}

(* Mutant: transactions are kept on the server, by state. *)
SendingByState(p, b, url, cookie) ==
    [call EXCEPT ![p] =
        [NoCall EXCEPT !.browser = b, !.code = url.code, !.state = url.state,
            !.sent = transaction[started[url.state].browser]]]

(* p sends a callback with this transaction; no other call of the browser,   *)
(* and none of a login whose code it diverts, is alone any more.            *)
Sending(p, b, url, cookie) ==
    [q \in Calls |->
        IF q = p
        THEN [NoCall EXCEPT !.browser = b, !.sent = cookie, !.code = url.code,
                !.state = url.state,
                !.alone = url.state \in alone \cap StartedBy(b) /\ Diverted(url, cookie) = {}]
        ELSE [call[q] EXCEPT !.alone =
                 @ /\ call[q].browser # b /\ call[q].state \notin Diverted(url, cookie)]]

(* The URL is visited, in whichever browser, again or for the first time. *)
CallbackSend(p, b, url) ==
    /\ pc[p] = "idle"
    /\ call' = Sending(p, b, url, transaction[b])
    /\ Goto(p, "open")
    /\ alone' = alone \ (StartedBy(b) \cup Diverted(url, transaction[b]))
    /\ UNCHANGED <<now, cookies, started, pages, provider>>

(* Mutant: the state is not compared. *)
CallbackOpenAnyState(p) ==
    /\ pc[p] = "open"
    /\ IF /\ call[p].code # NoCode /\ call[p].sent # NoTransaction
          /\ now < call[p].sent.expiresAt
       THEN Goto(p, "exchange") /\ UNCHANGED call
       ELSE Respond(p, Rejected)
    /\ UNCHANGED <<now, cookies, started, pages, provider, alone>>

(* The transaction is taken: whatever comes of it, the response deletes it. *)
CallbackOpen(p) ==
    /\ pc[p] = "open"
    /\ IF /\ call[p].code # NoCode /\ call[p].sent # NoTransaction
          /\ now < call[p].sent.expiresAt /\ call[p].state = call[p].sent.login
       THEN Goto(p, "exchange") /\ UNCHANGED call
       ELSE Respond(p, Rejected)
    /\ UNCHANGED <<now, cookies, started, pages, provider, alone>>

(* Its challenge is of this transaction's verifier: the one check a diverted *)
(* code of another login meets first.                                       *)
Grants(p) ==
    LET c == call[p].code
    IN  c \in codes /\ now <= issued[c].at + CodeLife /\ issued[c].login = call[p].sent.login

(* Mutant: a code stays until it expires. *)
TokenKeepsCode(p) ==
    /\ pc[p] = "exchange"
    /\ IF Grants(p)
       THEN call' = [call EXCEPT ![p].token = issued[call[p].code]] /\ Goto(p, "verify")
       ELSE Respond(p, Rejected)
    /\ UNCHANGED <<now, cookies, started, pages, provider, alone>>

(* The provider spends the code, and only then looks whether it is good. *)
Token(p) ==
    /\ pc[p] = "exchange"
    /\ codes' = codes \ {call[p].code}
    /\ IF Grants(p)
       THEN call' = [call EXCEPT ![p].token = issued[call[p].code]] /\ Goto(p, "verify")
       ELSE Respond(p, Rejected)
    /\ UNCHANGED <<now, cookies, started, pages, issued, alone>>

(* Mutant: the session is set under the transaction's name. *)
VerifyWrongCookie(p) ==
    /\ pc[p] = "verify"
    /\ Respond(p, [Kept EXCEPT !.transaction =
                     [subject |-> call[p].token.subject, token |-> call[p].code]])
    /\ UNCHANGED <<now, cookies, started, pages, provider, alone>>

(* The ID token's nonce, which a grant has made sure of, then the session. *)
Verify(p) ==
    /\ pc[p] = "verify"
    /\ Respond(p, IF call[p].token.login = call[p].sent.login
                  THEN [Rejected EXCEPT !.session =
                          [subject |-> call[p].token.subject, token |-> call[p].code]]
                  ELSE Rejected)
    /\ UNCHANGED <<now, cookies, started, pages, provider, alone>>

(* Discovery, the exchange or the key set fails or takes five seconds. *)
Fail(p) ==
    /\ pc[p] \in {"exchange", "verify"}
    /\ Respond(p, Rejected)
    /\ UNCHANGED <<now, cookies, started, pages, provider, alone>>

----------------------------------------------------------------------------
(* The logout route, responses, and time *)

(* A logout from another origin is refused and changes nothing. *)
Logout(p, b) ==
    /\ pc[p] = "idle"
    /\ call' = [call EXCEPT ![p] = [NoCall EXCEPT !.browser = b, !.reply.session = NoSession]]
    /\ Goto(p, "reply")
    /\ UNCHANGED <<now, cookies, started, pages, provider, alone>>

End(p) ==
    /\ Goto(p, "idle") /\ call' = [call EXCEPT ![p] = NoCall]

(* The response reaches the browser, which sets its cookies and, after a    *)
(* login, follows the redirect to the provider's page.                      *)
Deliver(p) ==
    LET b == call[p].browser
        reply == call[p].reply
    IN  /\ pc[p] = "reply" /\ End(p)
        /\ transaction' = IF reply.transaction = Keep THEN transaction
                          ELSE [transaction EXCEPT ![b] = reply.transaction]
        /\ session' = IF reply.session = Keep THEN session
                      ELSE [session EXCEPT ![b] = reply.session]
        /\ pages' = IF reply.transaction \in {Keep, NoTransaction} THEN pages
                    ELSE pages \cup {reply.transaction.login}
        /\ UNCHANGED <<now, started, provider, alone>>

(* The request or its response is lost, or the tab is closed. *)
Lose(p) ==
    /\ pc[p] \in {"open", "reply"} /\ End(p)
    /\ UNCHANGED <<now, cookies, started, pages, provider, alone>>

(* readSession refuses a session whose time is over. *)
SessionEnds(b) ==
    /\ session[b] # NoSession
    /\ session' = [session EXCEPT ![b] = NoSession]
    /\ UNCHANGED <<now, transaction, started, pages, provider, pc, call, alone>>

Tick ==
    /\ now < LastTick /\ now' = now + 1
    /\ UNCHANGED <<cookies, started, pages, provider, pc, call, alone>>

Serve(p) ==
    \/ \E b \in Browsers, t \in Logins : LoginOpen(p, b, t)
    \/ \E b \in Browsers : Logout(p, b)
    \/ \E b \in Browsers, url \in CallbackURLs : CallbackSend(p, b, url)
    \/ CallbackOpen(p) \/ Token(p) \/ Verify(p) \/ Fail(p) \/ Deliver(p) \/ Lose(p)

Next ==
    \/ \E p \in Calls : Serve(p)
    \/ \E t \in Logins, s \in Subjects, c \in Codes : Authorize(t, s, c)
    \/ \E b \in Browsers : SessionEnds(b)
    \/ Tick

Spec == Init /\ [][Next]_vars

=============================================================================
