------------------------------- MODULE MCService -------------------------------
(***************************************************************************)
(* Values of the constants for model checking.                             *)
(***************************************************************************)
EXTENDS ServiceProps, TLC

CONSTANTS p1, p2, r1, r2

OneRelease == [p \in Processes |-> 1]

(* The learner's token and the other system's. *)
TokenClaims ==
    [learner |-> [subject |-> "ann", scopes |-> {}],
     client |-> [subject |-> "federation", scopes |-> {Scope}]]

(* A learner's handler takes two connections, one after the other. *)
TwoUses == [route \in Routes |-> IF route = "learner" THEN 2 ELSE 1]

SeedRows == [ann |-> {"learner"}]
=============================================================================
