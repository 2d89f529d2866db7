---------------------------- MODULE PathMeaning ----------------------------
(***************************************************************************)
(* What a path means, without a walk: a name of it counts unless a later   *)
(* `..` takes it back, which is when some stretch after it holds more `..` *)
(* than names.                                                             *)
(***************************************************************************)
EXTENDS Shell

CONSTANT MoreInputs  \* arguments that are only resolved

InputsAssumption == Inputs \cup MoreInputs \subseteq Arguments
ASSUME InputsAssumption

Count(segs, i, j, S) == Cardinality({k \in i .. j : segs[k] \in S})

Survives(segs, i) ==
  /\ segs[i] \in Names
  /\ \A j \in i + 1 .. Len(segs) :
       Count(segs, i + 1, j, {".."}) <= Count(segs, i + 1, j, Names)

Left(segs) == {i \in DOMAIN segs : Survives(segs, i)}

\* The n-th smallest number of S.
Nth(S, n) == CHOOSE i \in S : Cardinality({j \in S : j <= i}) = n

\* The names that are left, in their order.
Meaning(segs) == [n \in 1 .. Cardinality(Left(segs)) |-> segs[Nth(Left(segs), n)]]

Prefix(segs, n) == SubSeq(segs, 1, n)

\* An argument that is too long, or deeper on its way than the table of segments, is
\* refused, whatever it means.
TooMuch(cwd, in, segs) ==
  /\ in.segs # <<>> \/ in.abs
  /\ \/ (IF in.abs THEN 0 ELSE PathLength(cwd) + 1) + ArgumentLength(in) >= CombinedSize
     \/ \E n \in 1 .. Len(segs) : Len(Meaning(Prefix(segs, n))) > MaxSegments

Right(cwd, in, room) ==
  LET segs == IF in.abs THEN in.segs ELSE cwd \o in.segs
      meant == Meaning(segs)
      got == path_resolve(cwd, in, room)
  IN IF TooMuch(cwd, in, segs) \/ PathLength(meant) >= room
     THEN ~got.ok
     ELSE got.ok /\ got.path = meant

\* In every working directory that cd comes to, path_resolve gives each argument its
\* meaning, never a name below the root or a dot, and refuses it only for a limit.
ResolvesRight ==
  [][s_cwd' # s_cwd =>
       \A in \in Inputs \cup MoreInputs, room \in {CwdSize, PathSize} :
         Right(s_cwd', in, room)]_s_cwd
=============================================================================
