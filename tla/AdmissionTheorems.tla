------------------------- MODULE AdmissionTheorems -------------------------
(***************************************************************************)
(* What holds of Admission for every number of clients and requests, every  *)
(* limit, window and header: types, slots, and the accounting of passes     *)
(* from which the two bounds of the rate limiter follow.                    *)
(***************************************************************************)
EXTENDS AdmissionProps, FiniteSetTheorems, TLAPS

----------------------------------------------------------------------------
(* Types *)

(* Behind the proxy the last address of the header is the client's own,     *)
(* whatever the client put in front of it.                                  *)
LEMMA ClientIsOrigin ==
    ASSUME NEW a \in Addresses, NEW h \in Prefixes
    PROVE  Client(a, h) = a
<1> DEFINE header == Append(h, a)
           valid == {i \in 1..Len(header) : header[i] \in Addresses}
<1>1. h \in Seq(Addresses \cup {Junk})
  BY AdmissionAssumption
<1>2. Len(header) = Len(h) + 1 /\ header[Len(header)] = a /\ Len(h) \in Nat
  BY <1>1
<1>3. Len(header) \in valid
  BY <1>2
<1>4. \A i \in valid : (\A j \in valid : j <= i) => i = Len(header)
  <2> SUFFICES ASSUME NEW i \in valid, \A j \in valid : j <= i
               PROVE  i = Len(header)
    OBVIOUS
  <2>1. i \in 1..Len(header) /\ Len(header) <= i
    BY <1>3
  <2> QED BY <2>1, <1>2
<1>5. \A j \in valid : j <= Len(header)
  BY <1>2
<1> DEFINE last == CHOOSE i \in valid : \A j \in valid : j <= i
<1>6. last \in valid /\ \A j \in valid : j <= last
  <2> HIDE DEF valid
  <2> QED BY <1>3, <1>5
<1>7. last = Len(header)
  <2> HIDE DEF valid, last
  <2> QED BY <1>4, <1>6
<1>8. LastAddress(header) = header[last]
  BY DEF LastAddress
<1> HIDE DEF header, valid, last
<1>9. LastAddress(header) = a
  BY <1>7, <1>8, <1>2
<1> QED BY <1>9 DEF Client, header

LEMMA SweptTyped ==
    ASSUME TypeOK
    PROVE  Swept \in [Addresses -> Windows]
BY DEF TypeOK, Swept, SweepDue, NoWindow, Windows, Ended

LEMMA CountedTyped ==
    ASSUME TypeOK, NEW entry \in Windows
    PROVE  Counted(entry) \in Windows
BY DEF TypeOK, Counted, Windows, Found, Ended

LEMMA InsideFinite == IsFiniteSet(Inside)
<1>1. Inside \subseteq Requests
  BY DEF Inside
<1> QED BY <1>1, FS_Subset, AdmissionAssumption

LEMMA InsideNonempty ==
    ASSUME TypeOK, SlotsExact, NEW p \in Requests, pc[p] = "leave"
    PROVE  slots > 0
<1>1. p \in Inside
  BY DEF Inside
<1>2. Cardinality(Inside) # 0
  BY <1>1, InsideFinite, FS_EmptySet
<1> QED BY <1>2 DEF SlotsExact, TypeOK

LEMMA TypeStep ==
    ASSUME TypeOK, SlotsExact, [Next]_vars
    PROVE  TypeOK'
<1> USE AdmissionAssumption DEF TypeOK
<1>1. CASE UNCHANGED vars
  BY <1>1 DEF vars, limiter, request
<1>2. CASE Tick
  BY <1>2 DEF Tick, limiter, request
<1>3. ASSUME NEW p \in Requests, Arrive(p) PROVE TypeOK'
  BY <1>3 DEF Arrive, Goto, limiter
<1>4. ASSUME NEW p \in Requests, TakeSlot(p) PROVE TypeOK'
  <2>1. slots' \in 0..MaxConcurrent
    BY <1>4 DEF TakeSlot
  <2> QED BY <1>4, <2>1 DEF TakeSlot, Goto, limiter
<1>5. ASSUME NEW p \in Requests, RefuseSlot(p) PROVE TypeOK'
  BY <1>5 DEF RefuseSlot, Goto, limiter
<1>6. ASSUME NEW p \in Requests, NEW a \in Addresses, NEW h \in Prefixes, Allow(p, a, h)
      PROVE  TypeOK'
  <2> DEFINE entry == Swept[a]
  <2>1. entry \in Windows /\ Swept \in [Addresses -> Windows]
    BY SweptTyped
  <2>2. Counted(entry) \in Windows
    <3> HIDE DEF entry
    <3> QED BY <2>1, CountedTyped
  <2>3. lastSweep' \in Nat
    BY <1>6 DEF Allow
  <2>4. CASE /\ visitors' = [Swept EXCEPT ![a] = Counted(entry)]
             /\ passes' = passes \cup {Pass(a, Counted(entry))}
             /\ pc' = [pc EXCEPT ![p] = "handle"]
    <3> HIDE DEF entry
    <3>1. visitors' \in [Addresses -> Windows]
      BY <2>1, <2>2, <2>4
    <3>2. Pass(a, Counted(entry)) \in PassRecord
      BY <2>2 DEF Pass, PassRecord, Windows
    <3>3. UNCHANGED <<now, trustProxy, slots, panicking>>
      BY <1>6 DEF Allow
    <3> QED BY <2>3, <2>4, <3>1, <3>2, <3>3
  <2>5. CASE /\ visitors' = Swept /\ passes' = passes
             /\ pc' = [pc EXCEPT ![p] = "leave"]
    <3>1. UNCHANGED <<now, trustProxy, slots, panicking>>
      BY <1>6 DEF Allow
    <3> QED BY <2>1, <2>3, <2>5, <3>1
  <2> QED BY <1>6, <2>4, <2>5, ClientIsOrigin DEF Allow, Goto
<1>7. ASSUME NEW p \in Requests, HandlerReturns(p) PROVE TypeOK'
  BY <1>7 DEF HandlerReturns, Goto, limiter
<1>8. ASSUME NEW p \in Requests, HandlerPanics(p) PROVE TypeOK'
  BY <1>8 DEF HandlerPanics, Goto, limiter
<1>9. ASSUME NEW p \in Requests, GiveBack(p) PROVE TypeOK'
  <2>1. slots > 0
    BY <1>9, InsideNonempty DEF GiveBack
  <2>2. slots' \in 0..MaxConcurrent
    BY <1>9, <2>1 DEF GiveBack
  <2> QED BY <1>9, <2>2 DEF GiveBack, Goto, limiter
<1> QED BY <1>1, <1>2, <1>3, <1>4, <1>5, <1>6, <1>7, <1>8, <1>9 DEF Next, Serve

----------------------------------------------------------------------------
(* Slots *)

LEMMA SlotStep ==
    ASSUME TypeOK, SlotsExact, [Next]_vars
    PROVE  SlotsExact'
<1>1. IsFiniteSet(Inside)
  BY InsideFinite
<1>2. ASSUME Inside' = Inside, slots' = slots PROVE SlotsExact'
  BY <1>2 DEF SlotsExact
<1>3. CASE UNCHANGED vars
  BY <1>2, <1>3 DEF vars, request, Inside
<1>4. CASE Tick
  BY <1>2, <1>4 DEF Tick, request, Inside
<1>5. ASSUME NEW p \in Requests,
             \/ Arrive(p) \/ RefuseSlot(p) \/ HandlerReturns(p) \/ HandlerPanics(p)
      PROVE  SlotsExact'
  BY <1>2, <1>5 DEF Arrive, RefuseSlot, HandlerReturns, HandlerPanics, Goto, Inside, TypeOK
<1>6. ASSUME NEW p \in Requests, NEW a \in Addresses, NEW h \in Prefixes, Allow(p, a, h)
      PROVE  SlotsExact'
  BY <1>2, <1>6 DEF Allow, Goto, Inside, TypeOK
<1>7. ASSUME NEW p \in Requests, TakeSlot(p) PROVE SlotsExact'
  <2>1. Inside' = Inside \cup {p} /\ p \notin Inside
    BY <1>7 DEF TakeSlot, Goto, Inside, TypeOK
  <2>2. Cardinality(Inside') = Cardinality(Inside) + 1
    BY <1>1, <2>1, FS_AddElement
  <2> QED BY <1>7, <2>2 DEF TakeSlot, SlotsExact
<1>8. ASSUME NEW p \in Requests, GiveBack(p) PROVE SlotsExact'
  <2>1. Inside' = Inside \ {p} /\ p \in Inside
    BY <1>8 DEF GiveBack, Goto, Inside, TypeOK
  <2>2. Cardinality(Inside') = Cardinality(Inside) - 1
    BY <1>1, <2>1, FS_RemoveElement
  <2> QED BY <1>8, <2>2 DEF GiveBack, SlotsExact
<1> QED BY <1>3, <1>4, <1>5, <1>6, <1>7, <1>8 DEF Next, Serve

(* No request ever sees a value of another type, and no slot is lost or     *)
(* given back twice, whatever handlers do.                                  *)
THEOREM AdmissionTyped == Spec => [](TypeOK /\ SlotsExact)
<1>1. Init => TypeOK /\ SlotsExact
  <2> SUFFICES ASSUME Init PROVE TypeOK /\ SlotsExact
    OBVIOUS
  <2>1. TypeOK
    BY AdmissionAssumption DEF Init, TypeOK, NoWindow, Windows
  <2>2. Inside = {}
    BY DEF Init, Inside
  <2> QED BY <2>1, <2>2, FS_EmptySet DEF Init, SlotsExact
<1>2. TypeOK /\ SlotsExact /\ [Next]_vars => (TypeOK /\ SlotsExact)'
  BY TypeStep, SlotStep
<1> QED BY <1>1, <1>2, PTL DEF Spec

(* The limiter's map, its clock and the requests keep their types. *)
THEOREM TypesKept == Spec => []TypeOK
BY AdmissionTyped, PTL

----------------------------------------------------------------------------
(* The accounting of passes *)

(* A sweep takes away windows that have ended and nothing else. *)
LEMMA SweepKeepsLive ==
    ASSUME TypeOK, NEW c \in Addresses
    PROVE  /\ Swept[c] \in Windows /\ visitors[c] \in Windows
           /\ Swept[c] = visitors[c] \/ (~ Found(Swept[c]) /\ Ended(visitors[c]))
<1>1. Swept[c] \in Windows /\ visitors[c] \in Windows
  BY SweptTyped DEF TypeOK
<1>2. Swept[c] = visitors[c] \/ (Swept[c] = NoWindow /\ Ended(visitors[c]))
  BY DEF Swept, TypeOK
<1> QED BY <1>1, <1>2 DEF NoWindow, Found

(* The pass a request is given is the first of a window all earlier ones of *)
(* the client lie before, or the next one of the window that has not ended. *)
Follows(x, c) ==
    /\ x.origin = c /\ x.at = now
    /\ x.started \in Nat /\ x.started <= now /\ now < x.started + Window
    /\ x.nth \in 1..Limit
    /\ x.nth = 1 => x.started = now
    /\ \A b \in passes : b.origin = c =>
          \/ b.started + Window <= x.started
          \/ b.started = x.started /\ b.nth < x.nth
    /\ {b.nth : b \in OfWindow(c, x.started)} = 1..(x.nth - 1)

LEMMA FreshPassFollows ==
    ASSUME TypeOK, Accounted, Limit > 0, NEW c \in Addresses,
           ~ Found(Swept[c]) \/ Ended(Swept[c])
    PROVE  Follows(Pass(c, Counted(Swept[c])), c)
<1> DEFINE x == Pass(c, Counted(Swept[c]))
<1>1. Counted(Swept[c]) = [started |-> now, count |-> 1]
  BY DEF Counted
<1>2. x = [origin |-> c, at |-> now, started |-> now, nth |-> 1]
  BY <1>1 DEF Pass
<1>3. \A b \in passes : b.origin = c => b.started + Window <= now
  <2> SUFFICES ASSUME NEW b \in passes, b.origin = c, ~ (b.started + Window <= now)
               PROVE  FALSE
    OBVIOUS
  <2>1. b.started \in Nat /\ now \in Nat /\ Window \in Nat
    BY AdmissionAssumption DEF TypeOK, PassRecord
  <2>2. now < b.started + Window
    BY <2>1
  <2>3. Found(visitors[c]) /\ visitors[c].started = b.started
    BY <2>2 DEF Accounted, LiveWindowsInMap
  <2>4. ~ Ended(visitors[c])
    BY <2>1, <2>2, <2>3 DEF Ended
  <2>5. Swept[c] = visitors[c]
    BY <2>4, SweepKeepsLive
  <2> QED BY <2>3, <2>4, <2>5
<1>4. OfWindow(c, now) = {}
  <2> SUFFICES ASSUME NEW b \in passes, b.origin = c, b.started = now PROVE FALSE
    BY DEF OfWindow
  <2> QED BY <1>3, AdmissionAssumption DEF TypeOK
<1>6. now \in Nat /\ now < now + Window /\ 1 \in 1..Limit
  BY AdmissionAssumption DEF TypeOK
<1>7. x.origin = c /\ x.at = now /\ x.started = now /\ x.nth = 1
  BY <1>2
<1> HIDE DEF x
<1>8. {b.nth : b \in OfWindow(c, x.started)} = 1..(x.nth - 1)
  <2>1. x.nth - 1 = 0
    BY <1>7
  <2>2. OfWindow(c, x.started) = {}
    BY <1>4, <1>7
  <2>3. 1..(x.nth - 1) = {}
    BY <2>1
  <2> QED BY <2>2, <2>3
<1>9. /\ x.started \in Nat /\ x.started <= now /\ now < x.started + Window
      /\ x.nth \in 1..Limit /\ (x.nth = 1 => x.started = now)
  BY <1>6, <1>7
<1>10. \A b \in passes : b.origin = c => b.started + Window <= x.started
  BY <1>3, <1>7
<1>11. Follows(x, c)
  BY <1>7, <1>8, <1>9, <1>10 DEF Follows
<1> QED BY <1>11 DEF x

LEMMA NextPassFollows ==
    ASSUME TypeOK, Accounted, NEW c \in Addresses,
           Found(Swept[c]), ~ Ended(Swept[c]), ~ Spent(Swept[c])
    PROVE  Follows(Pass(c, Counted(Swept[c])), c)
<1> DEFINE entry == Swept[c]
           x == Pass(c, Counted(entry))
<1>1. entry = visitors[c] /\ entry \in Windows
  BY SweepKeepsLive
<1>2. entry.count \in Nat /\ entry.started \in Nat /\ entry.count > 0
  BY <1>1 DEF Windows, Found
<1>3. entry.count < Limit
  BY <1>2, AdmissionAssumption DEF Spent
<1>4. /\ entry.started <= now
      /\ {b.nth : b \in OfWindow(c, entry.started)} = 1..entry.count
      /\ \A b \in passes : b.origin = c => b.started <= entry.started
  BY <1>1 DEF Accounted, MapCountsPasses
<1>5. now < entry.started + Window
  BY <1>2, AdmissionAssumption DEF Ended, TypeOK
<1>e. Found(entry) /\ ~ Ended(entry)
  OBVIOUS
<1> HIDE DEF entry
<1>6. Counted(entry) = [started |-> entry.started, count |-> entry.count + 1]
  BY <1>1, <1>2, <1>e DEF Counted, Windows
<1>7. x.origin = c /\ x.at = now /\ x.started = entry.started /\ x.nth = entry.count + 1
  BY <1>6 DEF Pass
<1>8. \A b \in passes : b.origin = c =>
          \/ b.started + Window <= entry.started
          \/ b.started = entry.started /\ b.nth < entry.count + 1
  <2> SUFFICES ASSUME NEW b \in passes, b.origin = c
               PROVE  \/ b.started + Window <= entry.started
                      \/ b.started = entry.started /\ b.nth < entry.count + 1
    OBVIOUS
  <2>1. b.started \in Nat /\ b.nth \in Nat
    BY DEF TypeOK, PassRecord
  <2>2. CASE b.started = entry.started
    <3>1. b \in OfWindow(c, entry.started)
      BY <2>2 DEF OfWindow
    <3>2. b.nth \in 1..entry.count
      BY <3>1, <1>4
    <3> QED BY <3>2, <2>2, <1>2
  <2>3. CASE b.started < entry.started
    <3>1. 1 \in 1..entry.count
      BY <1>2
    <3>2. PICK a \in OfWindow(c, entry.started) : a.nth = 1
      BY <3>1, <1>4
    <3>3. a \in passes /\ a.origin = c /\ a.started = entry.started
      BY <3>2 DEF OfWindow
    <3> QED BY <3>3, <2>3 DEF Accounted, WindowsDisjoint
  <2> QED BY <2>1, <2>2, <2>3, <1>2, <1>4
<1>9. entry.count + 1 \in 1..Limit /\ entry.count + 1 # 1 /\ entry.count + 1 - 1 = entry.count
  BY <1>2, <1>3, AdmissionAssumption
<1> HIDE DEF x
<1>10. Follows(x, c)
  BY <1>2, <1>4, <1>5, <1>7, <1>8, <1>9 DEF Follows
<1> QED BY <1>10 DEF x, entry

(* One more pass that follows keeps the accounts. *)
LEMMA PassAccounted ==
    ASSUME TypeOK, Accounted, NEW c \in Addresses, NEW x \in PassRecord, Follows(x, c),
           now' = now, passes' = passes \cup {x},
           visitors' = [Swept EXCEPT ![c] = [started |-> x.started, count |-> x.nth]]
    PROVE  Accounted'
<1>1. Swept \in [Addresses -> Windows]
  BY SweptTyped
<1>2. /\ x.origin = c /\ x.at = now /\ x.started <= now /\ now < x.started + Window
      /\ x.nth \in 1..Limit /\ (x.nth = 1 => x.started = now)
      /\ \A b \in passes : b.origin = c =>
            \/ b.started + Window <= x.started
            \/ b.started = x.started /\ b.nth < x.nth
      /\ {b.nth : b \in OfWindow(c, x.started)} = 1..(x.nth - 1)
  BY DEF Follows
<1>3. /\ x.started \in Nat /\ x.nth \in Nat /\ x.nth > 0 /\ now \in Nat
      /\ Window \in Nat /\ Window > 0 /\ Limit \in Nat
      /\ \A b \in passes : b.started \in Nat /\ b.nth \in Nat /\ b.at \in Nat
                           /\ b.origin \in Addresses
  BY <1>2, AdmissionAssumption DEF PassRecord, TypeOK
<1>4. IsFiniteSet(passes')
  BY FS_AddElement DEF Accounted
<1>5. PassesInWindows'
  BY <1>2, <1>3 DEF PassesInWindows, Accounted
<1>6. PassesDistinct'
  <2> SUFFICES ASSUME NEW a \in passes', NEW b \in passes', a.origin = b.origin,
                      a.started = b.started, a.nth = b.nth
               PROVE  a = b
    BY DEF PassesDistinct
  <2>1. CASE a \in passes /\ b \in passes
    BY <2>1 DEF Accounted, PassesDistinct
  <2>2. \A d \in passes : d.origin = c /\ d.started = x.started => d.nth < x.nth
    BY <1>2, <1>3
  <2> QED BY <2>1, <2>2, <1>2, <1>3
<1>7. WindowsDisjoint'
  <2> SUFFICES ASSUME NEW a \in passes', NEW b \in passes', a.origin = b.origin,
                      a.started < b.started
               PROVE  a.started + Window <= b.started
    BY DEF WindowsDisjoint
  <2>1. CASE a \in passes /\ b \in passes
    BY <2>1 DEF Accounted, WindowsDisjoint
  <2>2. CASE a \in passes /\ b = x
    BY <2>2, <1>2, <1>3
  <2>3. CASE a = x /\ b \in passes
    BY <2>3, <1>2, <1>3
  <2> QED BY <2>1, <2>2, <2>3, <1>3
<1>8. visitors'[c] = [started |-> x.started, count |-> x.nth]
  BY <1>1
<1>9. \A d \in Addresses \ {c} : visitors'[d] = Swept[d]
  BY <1>1
<1>10. MapCountsPasses'
  <2> DEFINE newOf(d, t) == {a \in passes' : a.origin = d /\ a.started = t}
  <2> SUFFICES ASSUME NEW d \in Addresses, Found(visitors'[d])
               PROVE  /\ visitors'[d].started <= now /\ visitors'[d].count <= Limit
                      /\ {a.nth : a \in newOf(d, visitors'[d].started)}
                             = 1..visitors'[d].count
                      /\ \A a \in passes' : a.origin = d => a.started <= visitors'[d].started
    BY DEF MapCountsPasses, Found, OfWindow
  <2>1. CASE d = c
    <3>1. visitors'[d].started = x.started /\ visitors'[d].count = x.nth
      BY <1>8, <2>1
    <3>2. newOf(d, visitors'[d].started) = OfWindow(c, x.started) \cup {x}
      BY <3>1, <2>1, <1>2 DEF OfWindow
    <3>3. {a.nth : a \in OfWindow(c, x.started) \cup {x}} = 1..(x.nth - 1) \cup {x.nth}
      BY <1>2
    <3>4. 1..(x.nth - 1) \cup {x.nth} = 1..x.nth
      BY <1>3
    <3>5. \A a \in passes' : a.origin = c => a.started <= x.started
      BY <1>2, <1>3
    <3>6. x.started <= now /\ x.nth <= Limit
      BY <1>2, <1>3
    <3> QED BY <3>1, <3>2, <3>3, <3>4, <3>5, <3>6, <2>1
  <2>2. CASE d # c
    <3>1. visitors'[d] = visitors[d]
      BY <2>2, <1>9, SweepKeepsLive
    <3>2. newOf(d, visitors'[d].started) = OfWindow(d, visitors[d].started)
      BY <3>1, <2>2, <1>2 DEF OfWindow
    <3>3. Found(visitors[d])
      BY <3>1
    <3>4. /\ visitors[d].started <= now /\ visitors[d].count <= Limit
          /\ {a.nth : a \in OfWindow(d, visitors[d].started)} = 1..visitors[d].count
          /\ \A a \in passes : a.origin = d => a.started <= visitors[d].started
      BY <3>3 DEF Accounted, MapCountsPasses
    <3>5. \A a \in passes' : a.origin = d => a \in passes
      BY <2>2, <1>2
    <3> QED BY <3>1, <3>2, <3>4, <3>5
  <2> QED BY <2>1, <2>2
<1>11. LiveWindowsInMap'
  <2> SUFFICES ASSUME NEW b \in passes', now < b.started + Window
               PROVE  Found(visitors'[b.origin]) /\ visitors'[b.origin].started = b.started
    BY DEF LiveWindowsInMap, Found
  <2>1. CASE b.origin = c
    <3>1. b.started = x.started
      BY <2>1, <1>2, <1>3
    <3> QED BY <3>1, <2>1, <1>8, <1>3 DEF Found
  <2>2. CASE b.origin # c
    <3>1. b \in passes /\ b.origin \in Addresses
      BY <2>2, <1>2, <1>3
    <3>2. Found(visitors[b.origin]) /\ visitors[b.origin].started = b.started
      BY <3>1 DEF Accounted, LiveWindowsInMap
    <3>3. ~ Ended(visitors[b.origin])
      BY <3>1, <3>2, <1>3 DEF Ended
    <3>4. visitors'[b.origin] = visitors[b.origin]
      BY <3>1, <3>3, <2>2, <1>9, SweepKeepsLive
    <3> QED BY <3>2, <3>4
  <2> QED BY <2>1, <2>2
<1> QED BY <1>4, <1>5, <1>6, <1>7, <1>10, <1>11 DEF Accounted

(* A sweep alone keeps them. *)
LEMMA SweepAccounted ==
    ASSUME TypeOK, Accounted, now' = now, passes' = passes, visitors' = Swept
    PROVE  Accounted'
<1>1. MapCountsPasses'
  <2> SUFFICES ASSUME NEW d \in Addresses, Found(visitors'[d])
               PROVE  visitors'[d] = visitors[d]
    BY DEF Accounted, MapCountsPasses, Found, OfWindow
  <2> QED BY SweepKeepsLive
<1>2. LiveWindowsInMap'
  <2> SUFFICES ASSUME NEW b \in passes, now < b.started + Window
               PROVE  Found(Swept[b.origin]) /\ Swept[b.origin].started = b.started
    BY DEF LiveWindowsInMap, Found
  <2>1. b.origin \in Addresses /\ b.started \in Nat /\ now \in Nat /\ Window \in Nat
    BY AdmissionAssumption DEF TypeOK, PassRecord
  <2>2. Found(visitors[b.origin]) /\ visitors[b.origin].started = b.started
    BY DEF Accounted, LiveWindowsInMap
  <2>3. ~ Ended(visitors[b.origin])
    BY <2>1, <2>2 DEF Ended
  <2>4. Swept[b.origin] = visitors[b.origin]
    BY <2>1, <2>3, SweepKeepsLive
  <2> QED BY <2>2, <2>4
<1>3. PassesInWindows' /\ PassesDistinct' /\ WindowsDisjoint' /\ IsFiniteSet(passes')
  BY DEF Accounted, PassesInWindows, PassesDistinct, WindowsDisjoint
<1> QED BY <1>1, <1>2, <1>3 DEF Accounted

LEMMA AllowAccounted ==
    ASSUME TypeOK, Accounted, Limit > 0, NEW p \in Requests, NEW a \in Addresses,
           NEW h \in Prefixes, Allow(p, a, h)
    PROVE  Accounted'
<1> DEFINE new == Counted(Swept[a])
           x == Pass(a, new)
<1>1. Client(a, h) = a
  BY ClientIsOrigin
<1>2. CASE ~ Spent(Swept[a])
  <2>1. Swept[a] \in Windows
    BY SweptTyped
  <2>2. new \in Windows
    BY <2>1, CountedTyped
  <2>3. x \in PassRecord /\ new = [started |-> x.started, count |-> x.nth]
    <3> HIDE DEF new
    <3> QED BY <2>2 DEF Pass, PassRecord, Windows, TypeOK
  <2>4. Follows(x, a)
    BY <1>2, FreshPassFollows, NextPassFollows
  <2>5. /\ now' = now /\ passes' = passes \cup {x}
        /\ visitors' = [Swept EXCEPT ![a] = new]
    BY <1>1, <1>2 DEF Allow
  <2> HIDE DEF x, new
  <2> QED BY <2>3, <2>4, <2>5, PassAccounted
<1>3. CASE Spent(Swept[a])
  <2>1. now' = now /\ passes' = passes /\ visitors' = Swept
    BY <1>1, <1>3 DEF Allow
  <2> QED BY <2>1, SweepAccounted
<1> QED BY <1>2, <1>3

(* The limiter is passed only where a limit is set. *)
Limited == \A p \in Requests : pc[p] = "allow" => Limit > 0

LEMMA LimitedStep ==
    ASSUME TypeOK, Limited, [Next]_vars
    PROVE  Limited'
<1> USE DEF TypeOK, Limited, Goto
<1>1. CASE UNCHANGED vars
  BY <1>1 DEF vars, request
<1>2. CASE Tick
  BY <1>2 DEF Tick, request
<1>3. ASSUME NEW p \in Requests, Serve(p) PROVE Limited'
  BY <1>3 DEF Serve, Arrive, TakeSlot, RefuseSlot, Allow, HandlerReturns, HandlerPanics,
              GiveBack
<1> QED BY <1>1, <1>2, <1>3 DEF Next

LEMMA AccountedStep ==
    ASSUME TypeOK, Accounted, Limited, [Next]_vars
    PROVE  Accounted'
<1>1. ASSUME UNCHANGED <<visitors, passes>>, now' = now PROVE Accounted'
  BY <1>1 DEF Accounted, PassesInWindows, PassesDistinct, WindowsDisjoint, MapCountsPasses,
              LiveWindowsInMap, OfWindow, Found
<1>2. CASE UNCHANGED vars
  BY <1>1, <1>2 DEF vars, limiter
<1>3. CASE Tick
  <2>1. now' = now + 1 /\ visitors' = visitors /\ passes' = passes
    BY <1>3 DEF Tick, limiter
  <2>2. /\ now \in Nat /\ Window \in Nat
        /\ \A b \in passes : b.started \in Nat /\ b.at \in Nat
        /\ \A c \in Addresses : visitors[c].started \in Nat
    BY AdmissionAssumption DEF TypeOK, PassRecord, Windows
  <2>3. PassesInWindows'
    BY <2>1, <2>2 DEF Accounted, PassesInWindows
  <2>4. PassesDistinct' /\ WindowsDisjoint' /\ IsFiniteSet(passes')
    BY <2>1 DEF Accounted, PassesDistinct, WindowsDisjoint
  <2>5. MapCountsPasses'
    <3> SUFFICES ASSUME NEW c \in Addresses, Found(visitors[c])
                 PROVE  visitors[c].started <= now + 1
      BY <2>1 DEF Accounted, MapCountsPasses, Found, OfWindow
    <3>1. visitors[c].started <= now
      BY DEF Accounted, MapCountsPasses
    <3> QED BY <3>1, <2>2
  <2>6. LiveWindowsInMap'
    <3> SUFFICES ASSUME NEW b \in passes, now + 1 < b.started + Window
                 PROVE  Found(visitors[b.origin]) /\ visitors[b.origin].started = b.started
      BY <2>1 DEF LiveWindowsInMap, Found
    <3>1. now < b.started + Window
      BY <2>2
    <3> QED BY <3>1 DEF Accounted, LiveWindowsInMap
  <2> QED BY <2>3, <2>4, <2>5, <2>6 DEF Accounted
<1>4. ASSUME NEW p \in Requests, NEW a \in Addresses, NEW h \in Prefixes, Allow(p, a, h)
      PROVE  Accounted'
  <2>1. Limit > 0
    BY <1>4 DEF Limited, Allow
  <2> QED BY <1>4, <2>1, AllowAccounted
<1>5. ASSUME NEW p \in Requests,
             \/ Arrive(p) \/ TakeSlot(p) \/ RefuseSlot(p) \/ HandlerReturns(p)
             \/ HandlerPanics(p) \/ GiveBack(p)
      PROVE  Accounted'
  BY <1>1, <1>5 DEF Arrive, TakeSlot, RefuseSlot, HandlerReturns, HandlerPanics, GiveBack,
                    limiter
<1> QED BY <1>2, <1>3, <1>4, <1>5 DEF Next, Serve

(* The history of passes and the map of windows agree: windows of a client  *)
(* never overlap, and the sweep never forgets one that still counts.        *)
THEOREM PassesAccounted == Spec => [](TypeOK /\ Limited /\ Accounted)
<1>1. Init => Limited /\ Accounted
  <2> SUFFICES ASSUME Init PROVE Limited /\ Accounted
    OBVIOUS
  <2>1. passes = {} /\ \A c \in Addresses : ~ Found(visitors[c])
    BY DEF Init, NoWindow, Found
  <2>2. Limited
    BY DEF Init, Limited
  <2> QED BY <2>1, <2>2, FS_EmptySet DEF Accounted, PassesInWindows, PassesDistinct,
             WindowsDisjoint, MapCountsPasses, LiveWindowsInMap
<1>2. TypeOK /\ Limited /\ Accounted /\ [Next]_vars => (Limited /\ Accounted)'
  BY LimitedStep, AccountedStep
<1> QED BY <1>1, <1>2, AdmissionTyped, PTL DEF Spec

----------------------------------------------------------------------------
(* What the accounts say *)

(* Number the passes of any Window ticks: those of the window that began    *)
(* before them from 1, without that window's first; those of the other one  *)
(* from Limit.  No number is given twice.                                   *)
LEMMA WindowBound ==
    ASSUME TypeOK, Accounted, Limit > 0, NEW c \in Addresses, NEW t \in Nat
    PROVE  Cardinality(PassesIn(c, t)) <= 2 * Limit - 1
<1> DEFINE S == PassesIn(c, t)
           T == 1..(2 * Limit - 1)
           f == [a \in S |-> IF a.started < t THEN a.nth - 1 ELSE Limit - 1 + a.nth]
<1>1. Limit \in Nat /\ Window \in Nat
  BY AdmissionAssumption
<1>2. \A a \in S :
        /\ a \in passes /\ a.origin = c /\ t <= a.at /\ a.at < t + Window
        /\ a.started \in Nat /\ a.at \in Nat /\ a.nth \in Nat
        /\ a.started <= a.at /\ a.at < a.started + Window
        /\ 1 <= a.nth /\ a.nth <= Limit /\ (a.nth = 1 => a.at = a.started)
  BY <1>1 DEF PassesIn, Accounted, PassesInWindows, TypeOK, PassRecord
<1>3. f \in [S -> T]
  <2> SUFFICES ASSUME NEW a \in S
               PROVE  (IF a.started < t THEN a.nth - 1 ELSE Limit - 1 + a.nth) \in T
    OBVIOUS
  <2> HIDE DEF S
  <2>1. CASE a.started < t
    <3>1. a.nth # 1
      BY <1>2, <2>1
    <3> QED BY <1>1, <1>2, <2>1, <3>1
  <2>2. CASE ~ (a.started < t)
    BY <1>1, <1>2, <2>2
  <2> QED BY <2>1, <2>2
<1>4. \A a, b \in S : f[a] = f[b] => a = b
  <2> SUFFICES ASSUME NEW a \in S, NEW b \in S, f[a] = f[b]
               PROVE  a = b
    OBVIOUS
  <2>1. /\ f[a] = IF a.started < t THEN a.nth - 1 ELSE Limit - 1 + a.nth
        /\ f[b] = IF b.started < t THEN b.nth - 1 ELSE Limit - 1 + b.nth
    OBVIOUS
  <2> HIDE DEF S, f
  <2> DEFINE i == a.nth
             j == b.nth
  <2>n. /\ i \in Nat /\ j \in Nat /\ 1 <= i /\ i <= Limit /\ 1 <= j /\ j <= Limit
        /\ a.started \in Nat /\ b.started \in Nat
    BY <1>2
  <2>c. (IF a.started < t THEN i - 1 ELSE Limit - 1 + i)
          = (IF b.started < t THEN j - 1 ELSE Limit - 1 + j)
    BY <2>1
  <2> HIDE DEF i, j
  <2>d. (a.started < t <=> b.started < t) /\ i = j
    BY <2>n, <2>c, <1>1
  <2>2. (a.started < t <=> b.started < t) /\ a.nth = b.nth
    BY <2>d DEF i, j
  <2>3. a.started < b.started => a.started + Window <= b.started
    BY <1>2 DEF Accounted, WindowsDisjoint
  <2>4. b.started < a.started => b.started + Window <= a.started
    BY <1>2 DEF Accounted, WindowsDisjoint
  <2>5. ~ (a.started < b.started)
    BY <2>2, <2>3, <1>1, <1>2
  <2>6. ~ (b.started < a.started)
    BY <2>2, <2>4, <1>1, <1>2
  <2>7. a.started = b.started
    BY <2>5, <2>6, <1>2
  <2> QED BY <2>2, <2>7, <1>2 DEF Accounted, PassesDistinct
<1>5. f \in Injection(S, T)
  <2> HIDE DEF S, T, f
  <2> QED BY <1>3, <1>4 DEF Injection, IsInjective
<1>6. IsFiniteSet(T) /\ Cardinality(T) = 2 * Limit - 1
  BY <1>1, FS_Interval
<1> HIDE DEF S, T, f
<1>7. Cardinality(S) <= Cardinality(T)
  BY <1>5, <1>6, FS_Injection
<1> QED BY <1>6, <1>7 DEF S

(* No address gets through more than twice the limit less one in any Window *)
(* ticks, for every limit, window, number of requests and header.           *)
THEOREM RateBounded == Spec => []AnyWindow
<1>1. TypeOK /\ Accounted => AnyWindow
  BY WindowBound DEF AnyWindow, TypeOK
<1> QED BY <1>1, PassesAccounted, PTL

(* A spent window has let its client through Limit times, none of them a    *)
(* Window ago.                                                              *)
LEMMA SpentWasUsed ==
    ASSUME TypeOK, Accounted, NEW c \in Addresses, Spent(Swept[c])
    PROVE  Cardinality(LatePasses(c)) >= Limit
<1> DEFINE entry == visitors[c]
           W == OfWindow(c, entry.started)
           g == [n \in 1..Limit |-> CHOOSE a \in W : a.nth = n]
<1>1. Swept[c] = entry
  BY SweepKeepsLive DEF Spent
<1>2. Found(entry) /\ ~ Ended(entry) /\ entry.count >= Limit
  BY <1>1 DEF Spent
<1>3. /\ entry.count \in Nat /\ entry.started \in Nat /\ Limit \in Nat /\ now \in Nat
      /\ Window \in Nat
  BY AdmissionAssumption DEF TypeOK, Windows
<1>4. {a.nth : a \in W} = 1..entry.count
  BY <1>2 DEF Accounted, MapCountsPasses
<1>5. W \subseteq LatePasses(c)
  <2> SUFFICES ASSUME NEW a \in passes, a.origin = c, a.started = entry.started
               PROVE  now < a.at + Window
    BY DEF OfWindow, LatePasses
  <2>1. a.started <= a.at /\ a.at \in Nat
    BY DEF Accounted, PassesInWindows, TypeOK, PassRecord
  <2>2. now < entry.started + Window
    BY <1>2, <1>3 DEF Ended
  <2> QED BY <2>1, <2>2, <1>3
<1>6. \A n \in 1..Limit : \E a \in W : a.nth = n
  <2> SUFFICES ASSUME NEW n \in 1..Limit PROVE \E a \in W : a.nth = n
    OBVIOUS
  <2>1. n \in 1..entry.count
    BY <1>2, <1>3
  <2> QED BY <2>1, <1>4
<1> HIDE DEF entry, W
<1>7. \A n \in 1..Limit : g[n] \in W /\ g[n].nth = n
  BY <1>6
<1> HIDE DEF g
<1>8. g \in [1..Limit -> LatePasses(c)]
  <2>1. g = [n \in 1..Limit |-> g[n]]
    BY DEF g
  <2> QED BY <2>1, <1>5, <1>7
<1>9. \A m, n \in 1..Limit : g[m] = g[n] => m = n
  BY <1>7
<1>10. g \in Injection(1..Limit, LatePasses(c))
  BY <1>8, <1>9 DEF Injection, IsInjective
<1>11. IsFiniteSet(LatePasses(c))
  <2>1. LatePasses(c) \subseteq passes
    BY DEF LatePasses
  <2> QED BY <2>1, FS_Subset DEF Accounted
<1>12. IsFiniteSet(1..Limit) /\ Cardinality(1..Limit) = Limit
  <2>1. 1 \in Int /\ Limit \in Int
    BY <1>3
  <2>2. IsFiniteSet(1..Limit) /\ Cardinality(1..Limit) = IF 1 > Limit THEN 0 ELSE Limit - 1 + 1
    BY <2>1, FS_Interval
  <2> QED BY <2>2, <1>3
<1>13. Cardinality(1..Limit) <= Cardinality(LatePasses(c))
  BY <1>10, <1>11, FS_Injection
<1>14. Cardinality(LatePasses(c)) \in Nat
  BY <1>11, FS_CardinalityType
<1> QED BY <1>3, <1>12, <1>13, <1>14

(* The rate limiter refuses an address only for what that address did, in   *)
(* the last Window ticks.                                                   *)
THEOREM RefusalsEarned == Spec => RefusalIsEarned
<1> DEFINE earned ==
      \A p \in Requests, c \in Addresses, h \in Prefixes :
          Allow(p, c, h) /\ pc'[p] = "leave" => Cardinality(LatePasses(c)) >= Limit
<1>1. TypeOK /\ Accounted => earned
  <2> SUFFICES ASSUME TypeOK, Accounted, NEW p \in Requests, NEW c \in Addresses,
                      NEW h \in Prefixes, Allow(p, c, h), pc'[p] = "leave"
               PROVE  Cardinality(LatePasses(c)) >= Limit
    OBVIOUS
  <2>1. Spent(Swept[c])
    BY ClientIsOrigin DEF Allow, Goto, TypeOK
  <2> QED BY <2>1, SpentWasUsed
<1>2. RefusalIsEarned <=> [][earned]_vars
  BY DEF RefusalIsEarned
<1> QED BY <1>1, <1>2, PassesAccounted, PTL

----------------------------------------------------------------------------
(* The size of the map *)

LEMMA ForgottenStep ==
    ASSUME TypeOK, Accounted, lastSweep <= now, OldClientsForgotten, [Next]_vars
    PROVE  (lastSweep <= now /\ OldClientsForgotten)'
<1>1. now \in Nat /\ lastSweep \in Nat /\ Window \in Nat /\ Window > 0
  BY AdmissionAssumption DEF TypeOK
<1>2. ASSUME UNCHANGED <<lastSweep, visitors>>, now' = now \/ now' = now + 1
      PROVE  (lastSweep <= now /\ OldClientsForgotten)'
  BY <1>1, <1>2 DEF OldClientsForgotten
<1>3. CASE UNCHANGED vars
  BY <1>2, <1>3 DEF vars, limiter
<1>4. CASE Tick
  BY <1>2, <1>4 DEF Tick, limiter
<1>5. ASSUME NEW p \in Requests,
             \/ Arrive(p) \/ TakeSlot(p) \/ RefuseSlot(p) \/ HandlerReturns(p)
             \/ HandlerPanics(p) \/ GiveBack(p)
      PROVE  (lastSweep <= now /\ OldClientsForgotten)'
  BY <1>2, <1>5 DEF Arrive, TakeSlot, RefuseSlot, HandlerReturns, HandlerPanics, GiveBack,
                    limiter
<1>6. ASSUME NEW p \in Requests, NEW a \in Addresses, NEW h \in Prefixes, Allow(p, a, h)
      PROVE  (lastSweep <= now /\ OldClientsForgotten)'
  <2> DEFINE recent(e) == lastSweep' < e.started + Window /\ e.started < lastSweep' + Window
  <2>1. now' = now /\ lastSweep' = IF SweepDue THEN now ELSE lastSweep
    BY <1>6 DEF Allow
  <2>2. lastSweep' \in Nat /\ lastSweep' <= now /\ now < lastSweep' + Window
    BY <2>1, <1>1 DEF SweepDue
  <2>3. ASSUME NEW c \in Addresses, Found(Swept[c]) PROVE recent(Swept[c])
    <3>1. Swept[c] = visitors[c] /\ visitors[c].started \in Nat
      BY <2>3, SweepKeepsLive DEF Windows
    <3>2. visitors[c].started <= now
      BY <2>3, <3>1 DEF Accounted, MapCountsPasses
    <3>3. CASE SweepDue
      <4>1. ~ Ended(visitors[c])
        BY <2>3, <3>1, <3>3 DEF Swept, TypeOK, NoWindow, Found
      <4>2. now < visitors[c].started + Window
        BY <4>1, <3>1, <1>1 DEF Ended
      <4> QED BY <4>2, <3>1, <3>2, <3>3, <2>1, <1>1
    <3>4. CASE ~ SweepDue
      BY <2>1, <2>3, <3>1, <3>4 DEF OldClientsForgotten
    <3> QED BY <3>3, <3>4
  <2>4. recent(Counted(Swept[a]))
    <3>1. CASE ~ Found(Swept[a]) \/ Ended(Swept[a])
      <4>1. Counted(Swept[a]).started = now
        BY <3>1 DEF Counted
      <4>2. lastSweep' < now + Window
        BY <2>2, <1>1
      <4> QED BY <4>1, <4>2, <2>2
    <3>2. CASE Found(Swept[a]) /\ ~ Ended(Swept[a])
      <4> DEFINE e == Swept[a]
      <4>1. recent(e) /\ e \in Windows
        BY <3>2, <2>3, SweepKeepsLive
      <4>2. Counted(e) = [e EXCEPT !.count = @ + 1]
        BY <3>2 DEF Counted
      <4> HIDE DEF e
      <4>3. Counted(e).started = e.started
        BY <4>1, <4>2 DEF Windows
      <4>4. recent(Counted(e))
        BY <4>1, <4>3
      <4> QED BY <4>4 DEF e
    <3> QED BY <3>1, <3>2
  <2>5. \A c \in Addresses :
          \/ visitors'[c] = Swept[c]
          \/ c = a /\ visitors'[c] = Counted(Swept[a])
    <3>1. Swept \in [Addresses -> Windows]
      BY SweptTyped
    <3>2. visitors' = Swept \/ visitors' = [Swept EXCEPT ![a] = Counted(Swept[a])]
      BY <1>6, ClientIsOrigin DEF Allow
    <3> QED BY <3>1, <3>2
  <2>6. ASSUME NEW c \in Addresses, Found(visitors'[c]) PROVE recent(visitors'[c])
    <3> HIDE DEF recent
    <3>1. CASE visitors'[c] = Swept[c]
      BY <2>3, <2>6, <3>1
    <3>2. CASE visitors'[c] = Counted(Swept[a])
      BY <2>4, <3>2
    <3> QED BY <2>5, <3>1, <3>2
  <2>7. OldClientsForgotten'
    BY <2>6 DEF OldClientsForgotten, Found
  <2> QED BY <2>1, <2>2, <2>7
<1> QED BY <1>3, <1>4, <1>5, <1>6 DEF Next, Serve

(* The map holds no window that had ended when it was last swept.           *)
THEOREM ClientsForgotten == Spec => []OldClientsForgotten
<1>1. Init => lastSweep <= now /\ OldClientsForgotten
  BY AdmissionAssumption DEF Init, OldClientsForgotten, NoWindow, Found
<1>2. /\ TypeOK /\ Accounted /\ [Next]_vars /\ (lastSweep <= now /\ OldClientsForgotten)
      => (lastSweep <= now /\ OldClientsForgotten)'
  BY ForgottenStep
<1> QED BY <1>1, <1>2, PassesAccounted, PTL DEF Spec

=============================================================================
