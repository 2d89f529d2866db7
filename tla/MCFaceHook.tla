----------------------------- MODULE MCFaceHook -----------------------------
(* Small instances of FaceHook: two hooks at a time, three kinds of events.  *)
EXTENDS FaceHook

CONSTANTS h1, h2

MCHooks == {h1, h2}

\* An edit, an ordinary tool and the end of a turn, and a board tool, for which
\* the hook stays silent.
MCEvents == {[name |-> "PreToolUse", tool |-> "edit", failed |-> FALSE],
             [name |-> "Stop", tool |-> "other", failed |-> FALSE],
             [name |-> "PreToolUse", tool |-> "board", failed |-> FALSE]}
=============================================================================
