------------------------------ MODULE MCSignIn ------------------------------
(***************************************************************************)
(* Instances of SignIn for TLC.                                             *)
(***************************************************************************)
EXTENDS SignInProps, TLC

Symmetry ==
    Permutations(Browsers) \cup Permutations(Subjects) \cup Permutations(Logins)
        \cup Permutations(Codes) \cup Permutations(Calls)

=============================================================================
