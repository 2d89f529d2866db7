----------------------------- MODULE FaceDirty -----------------------------
(***************************************************************************)
(* face_dirty.c: what has changed from one frame to the next, by a hash of *)
(* each row and of each pair of columns.  Two rows or pairs of one hash    *)
(* are taken to be equal, and a set of hashes stands as the frame it was   *)
(* taken of.                                                               *)
(***************************************************************************)
EXTENDS Integers

CONSTANTS Width, Height,
          Colours,
          Trackable  \* FALSE for a panel too large, or of odd width or stride

ASSUME DirtyAssumption ==
  /\ Width \in Nat \ {0} /\ Height \in Nat \ {0}
  /\ Trackable \in BOOLEAN
  /\ Trackable => Width % 2 = 0

Pixels == (0 .. Width - 1) \X (0 .. Height - 1)
Frames == [Pixels -> Colours]

Row(s, y) == [x \in 0 .. Width - 1 |-> s[<<x, y>>]]
Pair(s, i) == [p \in (2 * i .. 2 * i + 1) \X (0 .. Height - 1) |-> s[p]]

ChangedRows(t, s) == {y \in 0 .. Height - 1 : ~t.primed \/ Row(s, y) # Row(t.rows, y)}

ChangedPairs(t, s) ==
  {i \in 0 .. Width \div 2 - 1 : ~t.primed \/ Pair(s, i) # Pair(t.cols, i)}

\* Mutant: the box ends a pair of columns early.
ShortBox(ys, pairs) ==
  {p \in Pixels : /\ \E v, w \in ys : v <= p[2] /\ p[2] <= w
                  /\ \E i, j \in pairs : 2 * i <= p[1] /\ p[1] < 2 * j}

\* What lies between two of the rows, and between two of the pairs.
Box(ys, pairs) ==
  {p \in Pixels : /\ \E v, w \in ys : v <= p[2] /\ p[2] <= w
                  /\ \E i, j \in pairs : 2 * i <= p[1] /\ p[1] <= 2 * j + 1}

face_tracker_reset(t) == [t EXCEPT !.primed = FALSE]

\* The box a scan gives.
Dirty(t, s) ==
  IF Trackable THEN Box(ChangedRows(t, s), ChangedPairs(t, s)) ELSE Pixels

\* Mutant: the hashes of the columns stay as they were.
OldColumns(t, s) == t.cols

NewColumns(t, s) == s

\* What a scan leaves in the tracker.
Scanned(t, s) ==
  IF Trackable THEN [primed |-> TRUE, rows |-> s, cols |-> NewColumns(t, s)] ELSE t
=============================================================================
