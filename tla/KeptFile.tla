------------------------------ MODULE KeptFile ------------------------------
(***************************************************************************)
(* What wget promises about its output: at every moment, a power loss      *)
(* included, what was at the path can be got back, and the only thing that *)
(* ever takes its place is a whole download.  What other parties do to the *)
(* path is counted and otherwise free.                                     *)
(***************************************************************************)
EXTENDS Naturals

CONSTANTS WholeDownloads  \* the files of complete downloads

VARIABLES kept,    \* what the path holds, or what can be moved back to it
          touched  \* how often another party has changed the path

Init == kept \notin WholeDownloads /\ touched = 0

Download == kept' \in WholeDownloads /\ UNCHANGED touched

OtherParty == touched' = touched + 1

Next == Download \/ OtherParty

Spec == Init /\ [][Next]_<<kept, touched>>
=============================================================================
