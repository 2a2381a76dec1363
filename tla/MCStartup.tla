------------------------------- MODULE MCStartup -------------------------------
(***************************************************************************)
(* Values of the constants for model checking.                             *)
(***************************************************************************)
EXTENDS StartupProps, TLC

CONSTANTS p1, p2, p3

(* Two processes of one release, and one of the next, which adds a file.  *)
TwoReleases == (p1 :> 1) @@ (p2 :> 1) @@ (p3 :> 2)
=============================================================================
