---------------------------- MODULE MCAdmission ----------------------------
(***************************************************************************)
(* An instance of Admission for TLC: two clients behind a proxy or without  *)
(* one, who send no header, the other's address, or nonsense.               *)
(***************************************************************************)
EXTENDS AdmissionProps, TLC

CONSTANTS r1, r2, r3

Headers == {<<>>, <<"bo", "junk">>}
Symmetry == Permutations(Requests)

=============================================================================
