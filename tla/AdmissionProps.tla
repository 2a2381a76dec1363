--------------------------- MODULE AdmissionProps ---------------------------
(***************************************************************************)
(* What Admission promises, by where requests really come from and when     *)
(* they were let through, whatever the map of windows says.                 *)
(***************************************************************************)
EXTENDS Admission

Windows == [started : Nat, count : Nat]
PassRecord == [origin : Addresses, at : Nat, started : Nat, nth : Nat]

(* The slots stay within the channel's capacity; windows and the history    *)
(* hold times and counts.                                                   *)
TypeOK ==
    /\ now \in Nat /\ trustProxy \in BOOLEAN
    /\ slots \in 0..MaxConcurrent
    /\ visitors \in [Addresses -> Windows] /\ lastSweep \in Nat
    /\ pc \in [Requests -> {"idle", "enter", "allow", "handle", "leave"}]
    /\ panicking \subseteq Requests
    /\ passes \subseteq PassRecord

(* Every taken slot belongs to a request on its way: panics, aborts and     *)
(* refusals of the rate limiter give theirs back, or the service would end  *)
(* refusing everybody.                                                      *)
Inside == {p \in Requests : pc[p] \in {"allow", "handle", "leave"}}
SlotsExact == slots = Cardinality(Inside)

(* Requests of one address let through in the Window ticks from t on. *)
PassesIn(c, t) == {a \in passes : a.origin = c /\ t <= a.at /\ a.at < t + Window}

(* Windows are fixed, so Limit is not the bound over just any minute: twice *)
(* the limit less one is, for every address, whatever it puts in front of   *)
(* the header, and however windows, sweeps and requests interleave.         *)
AnyWindow ==
    \A c \in Addresses, t \in 0..now :
        Limit > 0 => Cardinality(PassesIn(c, t)) <= 2 * Limit - 1

(* Nobody is refused for what others did, or for long: an address refused   *)
(* by the rate limiter has been let through Limit times in the last Window  *)
(* ticks, so Retry-After, a window later, is the truth for a client that    *)
(* waits.                                                                   *)
LatePasses(c) == {a \in passes : a.origin = c /\ now < a.at + Window}
RefusalIsEarned ==
    [][\A p \in Requests, c \in Addresses, h \in Prefixes :
          Allow(p, c, h) /\ pc'[p] = "leave" =>
              Cardinality(LatePasses(c)) >= Limit]_vars

(* The map does not grow with the clients of the past: what it holds had    *)
(* not ended at the last sweep, which is never a window older than the      *)
(* latest entry.                                                            *)
OldClientsForgotten ==
    \A c \in Addresses : Found(visitors[c]) =>
        /\ lastSweep < visitors[c].started + Window
        /\ visitors[c].started < lastSweep + Window

----------------------------------------------------------------------------
(* The inductive strengthening: windows of one client do not overlap, the   *)
(* map holds the one that has not ended, and it counts its passes.          *)

OfWindow(c, s) == {a \in passes : a.origin = c /\ a.started = s}

PassesInWindows ==
    \A a \in passes :
        /\ a.started <= a.at /\ a.at < a.started + Window /\ a.at <= now
        /\ a.nth \in 1..Limit
        /\ a.nth = 1 => a.at = a.started

PassesDistinct ==
    \A a, b \in passes :
        a.origin = b.origin /\ a.started = b.started /\ a.nth = b.nth => a = b

WindowsDisjoint ==
    \A a, b \in passes :
        a.origin = b.origin /\ a.started < b.started => a.started + Window <= b.started

MapCountsPasses ==
    \A c \in Addresses :
        LET entry == visitors[c]
        IN  Found(entry) =>
              /\ entry.started <= now /\ entry.count <= Limit
              /\ {a.nth : a \in OfWindow(c, entry.started)} = 1..entry.count
              /\ \A a \in passes : a.origin = c => a.started <= entry.started

LiveWindowsInMap ==
    \A a \in passes :
        now < a.started + Window =>
            Found(visitors[a.origin]) /\ visitors[a.origin].started = a.started

Accounted ==
    /\ IsFiniteSet(passes)
    /\ PassesInWindows /\ PassesDistinct /\ WindowsDisjoint
    /\ MapCountsPasses /\ LiveWindowsInMap

=============================================================================
