-------------------------------- MODULE Rollout --------------------------------
(***************************************************************************)
(* What a deployment may count on while processes of several releases      *)
(* start, fail and stop against one database: files are installed one      *)
(* after the other, each once, and a process that migrates serves only     *)
(* when all of its files are installed.                                    *)
(***************************************************************************)
EXTENDS Integers

CONSTANTS Processes, Newest

VARIABLES
    installed,  \* the files that have taken effect
    up          \* the processes that serve

Init == installed = {} /\ up = {}

Install ==
    \E p \in Processes : \E file \in (1 .. Newest[p]) \ installed :
        /\ 1 .. (file - 1) \subseteq installed
        /\ installed' = installed \cup {file}
        /\ up' = up

Up ==
    \E p \in Processes \ up :
        /\ 1 .. Newest[p] \subseteq installed
        /\ up' = up \cup {p}
        /\ installed' = installed

Down ==
    \E p \in up :
        /\ up' = up \ {p}
        /\ installed' = installed

Next == Install \/ Up \/ Down

Spec == Init /\ [][Next]_<<installed, up>>
=============================================================================
