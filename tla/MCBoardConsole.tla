--------------------------- MODULE MCBoardConsole ---------------------------
(* Small instances of BoardConsole: two processes. *)
EXTENDS BoardConsole, TLC

CONSTANTS c1, c2

MCCallers == {c1, c2}

\* The processes are alike.
CallerSymmetry == Permutations(Callers)
=============================================================================
