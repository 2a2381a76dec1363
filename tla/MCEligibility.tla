--------------------------- MODULE MCEligibility ---------------------------
(***************************************************************************)
(* An instance of Eligibility for TLC: rows that begin before, on and after *)
(* the days the run lives through and end on each of them.  A coach's newer *)
(* credential supersedes one that has ended; bo has filed nothing.          *)
(***************************************************************************)
EXTENDS EligibilityProps

Check(m, s, a, b) == [member |-> m, status |-> s, from |-> a, to |-> b]
Training(m, a, b) == [member |-> m, from |-> a, to |-> b]
Credential(m, role, a, b) == [member |-> m, role |-> role, from |-> a, to |-> b]

Roles == {<<"ann", "coach">>, <<"ann", "referee">>}
Checks == {Check("ann", "approved", 1, 2)}
Trainings == {Training("ann", 0, 2)}
Credentials == {Credential("ann", "coach", 0, 0), Credential("ann", "coach", 2, 2),
                Credential("ann", "referee", 0, 1)}
Holds == {[member |-> "ann", placed |-> 1]}

=============================================================================
