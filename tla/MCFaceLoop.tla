----------------------------- MODULE MCFaceLoop -----------------------------
(* Small instances of FaceLoop. *)
EXTENDS FaceLoop

CONSTANTS l1, l2, w1

TwoLoops == {l1, l2}
OneWriter == {w1}

\* A state word and the quit word.
StateWords == {"working", "quit"}
AllWords == {"working", "quit", "graph"}

\* Hold alone.
HoldOnly == {{}, {"A"}}
=============================================================================
