----------------------------- MODULE Admission -----------------------------
(***************************************************************************)
(* Admission of HTTP requests: a request takes one of the concurrency slots *)
(* (concurrencyLimit) and, when a rate is configured, is counted in its     *)
(* client's window (clientRateLimiter), before a handler sees it.  Handlers *)
(* return or panic; the slot is given back on the way out.  Requests run in *)
(* goroutines of their own; a slot is taken, a request counted and a slot   *)
(* given back atomically (a channel operation, a critical section).         *)
(*                                                                          *)
(* Time is a number of ticks.  The zero time.Time is 0 and the process      *)
(* starts a window later, so nothing is recent with respect to it.          *)
(***************************************************************************)
EXTENDS Naturals, Sequences, FiniteSets

CONSTANTS
    Addresses,         \* of clients
    Junk,              \* text that is no address
    Prefixes,          \* X-Forwarded-For as clients send it
    Requests,          \* goroutines serving requests
    MaxConcurrent,     \* Deps.MaxConcurrentRequests, or its default
    Limit,             \* Deps.RateLimitPerMinute; 0 is no limit
    Window,            \* time.Minute, in ticks
    LastTick           \* bound on the clock

ASSUME AdmissionAssumption ==
    /\ MaxConcurrent \in Nat \ {0} /\ Limit \in Nat /\ Window \in Nat \ {0}
    /\ LastTick \in Nat /\ Junk \notin Addresses
    /\ Prefixes \subseteq Seq(Addresses \cup {Junk})
    /\ IsFiniteSet(Requests)

VARIABLES
    now,             \* the clock
    trustProxy,      \* TRUST_PROXY=1: one proxy is ahead of the service
    slots,           \* values in the channel
    visitors,        \* client -> window; a missing key reads as the zero value
    lastSweep,
    pc,              \* where a request is
    panicking,       \* handlers that have panicked, on their way out
    passes           \* history: every time a request was counted and let through

limiter == <<visitors, lastSweep, passes>>
request == <<pc, panicking>>
vars == <<now, trustProxy, slots, limiter, request>>

NoWindow == [started |-> 0, count |-> 0]
Found(entry) == entry.count > 0

Init ==
    /\ now = Window /\ trustProxy \in BOOLEAN
    /\ slots = 0
    /\ visitors = [c \in Addresses |-> NoWindow] /\ lastSweep = 0
    /\ pc = [p \in Requests |-> "idle"]
    /\ panicking = {}
    /\ passes = {}

Goto(p, label) == pc' = [pc EXCEPT ![p] = label]

----------------------------------------------------------------------------
(* Whose window counts a request *)

(* A request comes from address a with header h; the proxy appends what it *)
(* sees, and without one the connection is the client's own.               *)
LastAddress(header) ==
    LET valid == {i \in 1..Len(header) : header[i] \in Addresses}
    IN  header[CHOOSE i \in valid : \A j \in valid : j <= i]

(* Mutant: the first address of the header. *)
FirstAddress(header) ==
    LET valid == {i \in 1..Len(header) : header[i] \in Addresses}
    IN  header[CHOOSE i \in valid : \A j \in valid : i <= j]
ClientFirst(a, h) == IF trustProxy THEN FirstAddress(Append(h, a)) ELSE a

(* The header is its first line, which is the one Get reads, and the proxy   *)
(* appends to that line.  Behind a proxy that adds a line of its own, the   *)
(* client's would be read as it was sent: no such proxy is modelled.        *)
Client(a, h) == IF trustProxy THEN LastAddress(Append(h, a)) ELSE a

----------------------------------------------------------------------------
(* The limiter *)

Ended(entry) == now - entry.started >= Window

SweepDue == lastSweep = 0 \/ now - lastSweep >= Window

(* Mutant: the sweep forgets windows that have not ended. *)
SweptAll == IF SweepDue THEN [c \in Addresses |-> NoWindow] ELSE visitors

Swept ==
    IF SweepDue
    THEN [c \in Addresses |-> IF Ended(visitors[c]) THEN NoWindow ELSE visitors[c]]
    ELSE visitors

Pass(a, entry) ==
    [origin |-> a, at |-> now, started |-> entry.started, nth |-> entry.count]

Counted(entry) ==
    IF ~ Found(entry) \/ Ended(entry) THEN [started |-> now, count |-> 1]
    ELSE [entry EXCEPT !.count = @ + 1]

Spent(entry) == Found(entry) /\ ~ Ended(entry) /\ entry.count >= Limit

Allow(p, a, h) ==
    LET c == Client(a, h)
        entry == Swept[c]
    IN  /\ pc[p] = "allow"
        /\ lastSweep' = IF SweepDue THEN now ELSE lastSweep
        /\ \/ /\ ~ Spent(entry)
              /\ visitors' = [Swept EXCEPT ![c] = Counted(entry)]
              /\ passes' = passes \cup {Pass(a, Counted(entry))}
              /\ Goto(p, "handle")
           \/ /\ Spent(entry)
              /\ visitors' = Swept
              /\ Goto(p, "leave") /\ UNCHANGED passes
        /\ UNCHANGED <<now, trustProxy, slots, panicking>>

----------------------------------------------------------------------------
(* The way in and out *)

Arrive(p) ==
    /\ pc[p] = "idle" /\ Goto(p, "enter")
    /\ UNCHANGED <<now, trustProxy, slots, limiter, panicking>>

(* Mutant: the channel is taken to have room. *)
TakeSlotUnchecked(p) ==
    /\ pc[p] = "enter" /\ Goto(p, "allow")
    /\ slots' = slots + 1
    /\ UNCHANGED <<now, trustProxy, limiter, panicking>>

TakeSlot(p) ==
    /\ pc[p] = "enter" /\ slots < MaxConcurrent
    /\ slots' = slots + 1
    /\ Goto(p, IF Limit > 0 THEN "allow" ELSE "handle")
    /\ UNCHANGED <<now, trustProxy, limiter, panicking>>

RefuseSlot(p) ==
    /\ pc[p] = "enter" /\ slots = MaxConcurrent
    /\ Goto(p, "idle")
    /\ UNCHANGED <<now, trustProxy, slots, limiter, panicking>>

HandlerReturns(p) ==
    /\ pc[p] = "handle" /\ Goto(p, "leave")
    /\ UNCHANGED <<now, trustProxy, slots, limiter, panicking>>

HandlerPanics(p) ==
    /\ pc[p] = "handle" /\ Goto(p, "leave")
    /\ panicking' = panicking \cup {p}
    /\ UNCHANGED <<now, trustProxy, slots, limiter>>

(* Mutant: the receive is not deferred, a panic passes it by. *)
GiveBackUndeferred(p) ==
    /\ pc[p] = "leave" /\ Goto(p, "idle")
    /\ slots' = IF p \in panicking THEN slots ELSE slots - 1
    /\ panicking' = panicking \ {p}
    /\ UNCHANGED <<now, trustProxy, limiter>>

(* The deferred receive; the recoverer ends the panic. *)
GiveBack(p) ==
    /\ pc[p] = "leave" /\ Goto(p, "idle")
    /\ slots' = slots - 1
    /\ panicking' = panicking \ {p}
    /\ UNCHANGED <<now, trustProxy, limiter>>

Tick ==
    /\ now < LastTick
    /\ now' = now + 1
    /\ UNCHANGED <<trustProxy, slots, limiter, request>>

Serve(p) ==
    \/ Arrive(p) \/ TakeSlot(p) \/ RefuseSlot(p)
    \/ \E a \in Addresses, h \in Prefixes : Allow(p, a, h)
    \/ HandlerReturns(p) \/ HandlerPanics(p) \/ GiveBack(p)

Next == Tick \/ \E p \in Requests : Serve(p)

Spec == Init /\ [][Next]_vars

=============================================================================
