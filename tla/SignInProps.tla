----------------------------- MODULE SignInProps -----------------------------
(***************************************************************************)
(* What signing in promises, by who started which login and what the        *)
(* provider issued for it.                                                  *)
(***************************************************************************)
EXTENDS SignIn

Issue == [login : Logins, subject : Subjects, at : Nat]
Labels == {"idle", "open", "exchange", "verify", "reply"}
Reply == [transaction : Transaction \cup {NoTransaction, Keep},
          session : Session \cup {NoSession, Keep}]
CallRecord ==
    [browser : Browsers \cup {NoBrowser}, sent : Transaction \cup {NoTransaction},
     code : Codes \cup {NoCode}, state : Logins \cup {NoLogin},
     token : Issue \cup {NoIssue}, alone : BOOLEAN,
     reply : Reply]

(* Cookies and responses hold transactions and sessions or nothing, each in *)
(* its own cookie.                                                          *)
TypeOK ==
    /\ now \in Nat
    /\ transaction \in [Browsers -> Transaction \cup {NoTransaction}]
    /\ session \in [Browsers -> Session \cup {NoSession}]
    /\ started \in [Logins -> [browser : Browsers, at : Nat] \cup {NoStart}]
    /\ pages \subseteq Logins /\ alone \subseteq Logins
    /\ issued \in [Codes -> Issue \cup {NoIssue}] /\ codes \subseteq Codes
    /\ pc \in [Calls -> Labels] /\ call \in [Calls -> CallRecord]

(* A browser's session is of the subject chosen for a login that browser    *)
(* started: no callback URL, opened wherever, gives a browser the session   *)
(* of another one's login.                                                  *)
Own(b, s) ==
    /\ issued[s.token] # NoIssue
    /\ issued[s.token].subject = s.subject
    /\ started[issued[s.token].login].browser = b
SessionIsOwn ==
    /\ \A b \in Browsers : session[b] # NoSession => Own(b, session[b])
    /\ \A p \in Calls : call[p].reply.session \notin {NoSession, Keep} =>
           Own(call[p].browser, call[p].reply.session)

(* A code makes at most one session, though its callback is reloaded or     *)
(* sent twice at once: one call at most has had tokens for it, or one       *)
(* browser the session made of them, and while the provider holds it none.  *)
Granted(p) == pc[p] = "verify" \/ call[p].reply.session \notin {NoSession, Keep}
Holding(c) == {p \in Calls : call[p].code = c /\ Granted(p)}
SignedInWith(c) == {b \in Browsers : session[b] # NoSession /\ session[b].token = c}
OneSessionPerCode ==
    \A c \in Codes :
        /\ \A p, q \in Holding(c) : p = q
        /\ \A a, b \in SignedInWith(c) : a = b
        /\ Holding(c) = {} \/ SignedInWith(c) = {}
        /\ c \in codes => Holding(c) = {} /\ SignedInWith(c) = {}

(* A code that comes back with the state of its own login, as the provider   *)
(* redirects, is spent only in the browser that started the login: the URL  *)
(* opened elsewhere costs its owner nothing.  (With another login's state,  *)
(* in the browser that holds that one's transaction, a code is spent, and   *)
(* the provider refuses it.)                                                *)
RedirectsSpendAtHome ==
    [][\A p \in Calls : /\ Token(p) /\ call[p].code \in codes
                        /\ issued[call[p].code].login = call[p].state
          => started[call[p].state].browser = call[p].browser]_vars

(* A login that was alone in its browser, none under way when it started    *)
(* and no login or callback begun since, signs in within the two lifetimes  *)
(* whatever other browsers do short of taking its code to a transaction of  *)
(* theirs: its first callback is not turned away, and the provider still    *)
(* has its code.                                                            *)
SignsInAlone ==
    [][\A p \in Calls : call[p].alone /\ call[p].code # NoCode =>
          /\ CallbackOpen(p) /\ now < started[call[p].state].at + TransactionLife
                 => pc'[p] = "exchange"
          /\ Token(p) /\ now <= issued[call[p].code].at + CodeLife
                 => pc'[p] = "verify"]_vars

----------------------------------------------------------------------------
(* The inductive strengthening *)

Stands(b, tx) ==
    /\ started[tx.login].browser = b
    /\ tx.expiresAt = started[tx.login].at + TransactionLife

(* Where every transaction, code, token and session in the system is from.  *)
CookiesTraced ==
    \A b \in Browsers : transaction[b] # NoTransaction => Stands(b, transaction[b])

CodesTraced ==
    /\ \A c \in Codes : issued[c] # NoIssue => issued[c].login \in pages
    /\ \A c \in codes : issued[c] # NoIssue
    /\ \A t \in pages \cup alone : started[t].browser \in Browsers

CallTraced(p) ==
    LET r == call[p]
    IN  /\ pc[p] # "idle" => r.browser \in Browsers
        /\ pc[p] = "idle" => /\ r.browser = NoBrowser /\ r.sent = NoTransaction
                                /\ r.code = NoCode /\ ~r.alone
        /\ pc[p] # "reply" => r.reply = Kept
        /\ r.sent # NoTransaction => Stands(r.browser, r.sent)
        /\ r.reply.transaction \notin {NoTransaction, Keep} => Stands(r.browser, r.reply.transaction)
        /\ r.code # NoCode => issued[r.code] # NoIssue
        /\ pc[p] \in {"exchange", "verify"} =>
              r.code # NoCode /\ r.sent # NoTransaction /\ r.sent.login = r.state
        /\ pc[p] = "verify" => r.token = issued[r.code] /\ r.token.login = r.state
        /\ r.reply.session \notin {NoSession, Keep} => r.reply.session.token = r.code /\ r.code # NoCode

CallsTraced == \A p \in Calls : CallTraced(p)

Traced == CookiesTraced /\ CodesTraced /\ CallsTraced

(* What being alone keeps: the browser's other calls are answered and do    *)
(* not touch the transaction; the browser has, or is about to be given, the *)
(* login's transaction; and the provider has its codes.                     *)
CallsSettled(t) ==
    \A p \in Calls : call[p].browser = started[t].browser =>
        /\ pc[p] = "reply"
        /\ call[p].reply.transaction # Keep =>
              call[p].reply.transaction # NoTransaction /\ call[p].reply.transaction.login = t
TransactionWaits(t) ==
    LET tx == transaction[started[t].browser]
    IN  t \in pages => tx # NoTransaction /\ tx.login = t
CodesHeld(t) == \A c \in Codes : issued[c].login = t => c \in codes

LoginsUndisturbed == \A t \in alone : CallsSettled(t) /\ TransactionWaits(t) /\ CodesHeld(t)

CallUndisturbed(p) ==
    /\ call[p].sent # NoTransaction /\ call[p].sent.login = call[p].state
    /\ \A q \in Calls \ {p} : call[q].browser = call[p].browser => pc[q] = "reply"
    /\ call[p].code # NoCode => issued[call[p].code].login = call[p].state
    /\ call[p].code # NoCode /\ pc[p] \in {"open", "exchange"} => call[p].code \in codes

CallsUndisturbed == \A p \in Calls : call[p].alone => CallUndisturbed(p)

(* A call that will spend another login's code disturbed it when sent. *)
Diverting(q) ==
    IF pc[q] \in {"open", "exchange"} THEN Diverted(call[q], call[q].sent) ELSE {}
DivertedDisturbed ==
    \A q \in Calls :
        /\ Diverting(q) \cap alone = {}
        /\ \A p \in Calls : call[p].alone => call[p].state \notin Diverting(q)

Undisturbed == LoginsUndisturbed /\ CallsUndisturbed /\ DivertedDisturbed

=============================================================================
