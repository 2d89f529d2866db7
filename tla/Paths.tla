------------------------------- MODULE Paths -------------------------------
(***************************************************************************)
(* path_util.c: what the shell makes of a path it is given.  A path is the *)
(* sequence of its names; the characters of a name count only by number,   *)
(* for the sizes of the buffers.                                           *)
(***************************************************************************)
EXTENDS Naturals, Sequences

CONSTANTS Names,        \* file and directory names
          NameLength,   \* their lengths
          CombinedSize, \* sizeof combined
          MaxSegments   \* entries of segments[]

ASSUME NamesAssumption ==
  /\ NameLength \in [Names -> Nat \ {0}]
  /\ {".", ".."} \cap Names = {}
  /\ CombinedSize \in Nat /\ MaxSegments \in Nat

\* An argument: TRUE in abs for a leading slash, and what strtok_r finds between
\* the slashes.
Arguments == [abs : BOOLEAN, segs : Seq(Names \cup {".", ".."})]

Length(seg) == IF seg = ".." THEN 2 ELSE IF seg = "." THEN 1 ELSE NameLength[seg]

\* The characters of all the segments.
Characters(segs) ==
  LET sum[i \in 0 .. Len(segs)] == IF i = 0 THEN 0 ELSE sum[i - 1] + Length(segs[i])
  IN sum[Len(segs)]

\* strlen of a resolved path: a slash before each name, or one slash.
PathLength(path) == IF path = <<>> THEN 1 ELSE Len(path) + Characters(path)

\* strlen of an argument.
ArgumentLength(in) ==
  Characters(in.segs) + (IF in.abs THEN 1 ELSE 0) + (IF in.segs = <<>> THEN 0 ELSE Len(in.segs) - 1)

\* Mutant: `..` at the root goes below it.
BackBelowRoot(path) == IF path = <<>> THEN <<"..">> ELSE SubSeq(path, 1, Len(path) - 1)

Back(path) == IF path = <<>> THEN path ELSE SubSeq(path, 1, Len(path) - 1)

\* What one more segment makes of the segments kept so far.
Walk(path, seg) ==
  IF seg = ".." THEN Back(path) ELSE IF seg = "." THEN path ELSE Append(path, seg)

\* The segments kept when the first i are walked.
Kept(segs) ==
  LET kept[i \in 0 .. Len(segs)] == IF i = 0 THEN <<>> ELSE Walk(kept[i - 1], segs[i])
  IN kept

Failed == [ok |-> FALSE, path |-> <<>>]

\* room is out_len.  The length is checked before the dots are resolved.
path_resolve(cwd, in, room) ==
  LET segs == IF in.abs THEN in.segs ELSE cwd \o in.segs
      length == IF in.abs THEN ArgumentLength(in) ELSE PathLength(cwd) + 1 + ArgumentLength(in)
      kept == Kept(segs)
      path == IF ArgumentLength(in) = 0 THEN cwd ELSE kept[Len(segs)]
      fits == /\ PathLength(path) < room
              /\ \/ ArgumentLength(in) = 0
                 \/ /\ length < CombinedSize
                    /\ \A i \in 0 .. Len(segs) : Len(kept[i]) <= MaxSegments
  IN IF fits THEN [ok |-> TRUE, path |-> path] ELSE Failed
=============================================================================
