----------------------------- MODULE FileStore -----------------------------
(***************************************************************************)
(* What the commands of the shell promise about the places that hold data: *)
(* one changes the place it names and no other, and when it says it is     *)
(* done that place holds what it should.  For a copy this is what its      *)
(* source held when it began, and the source holds it still.               *)
(***************************************************************************)
CONSTANTS Stores,    \* the places
          Texts,     \* what a command may be given to write
          Nothing,   \* what a place holds that has no file
          Directory  \* what a place holds that is a directory

VARIABLES store,   \* what each place holds
          job,     \* the place the command under way fills, and what it is to hold
          said     \* what the last command said of its result

NoJob == [place |-> <<>>, wanted |-> Nothing]

Init == job = NoJob /\ said = "nothing"

Spares(p) == \A q \in Stores \ {p} : store'[q] = store[q]

\* What p is to hold is given, or it is what another place holds.
Begin(p) ==
  /\ job = NoJob
  /\ job'.wanted \in Texts \cup {store[q] : q \in Stores}
  /\ job' = [place |-> p, wanted |-> job'.wanted]
  /\ said' = "nothing"
  /\ Spares(p)

Change == job # NoJob /\ UNCHANGED <<job, said>> /\ Spares(job.place)

\* The command returns, or the power goes.
Finish ==
  /\ job # NoJob
  /\ Spares(job.place)
  /\ job' = NoJob
  /\ said' = "done" => store'[job.place] = job.wanted

Remove(p) ==
  job = NoJob /\ UNCHANGED job /\ said' = "done" /\ store'[p] = Nothing /\ Spares(p)

MakeDirectory(p) ==
  /\ job = NoJob /\ UNCHANGED job
  /\ said' = "done"
  /\ store[p] = Nothing
  /\ store'[p] = Directory
  /\ Spares(p)

\* A command that is refused, or one that is not about files.
Refuse == job = NoJob /\ UNCHANGED <<job, store>> /\ said' \in {"failed", "nothing"}

Next ==
  \/ \E p \in Stores : Begin(p) \/ Remove(p) \/ MakeDirectory(p)
  \/ Change
  \/ Finish
  \/ Refuse

Spec == Init /\ [][Next]_<<store, job, said>>
=============================================================================
