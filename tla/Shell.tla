------------------------------- MODULE Shell -------------------------------
(***************************************************************************)
(* The shell of the SD card experiment: its file commands and its firmware *)
(* update over the same files, one command at a time, with failing calls,  *)
(* power losses and reboots.                                               *)
(***************************************************************************)
EXTENDS Ota

CONSTANT FilesAtStart  \* what the places may hold at first

ASSUME ShellAssumption == FilesAtStart \subseteq [Places -> Contents]

vars == <<fileVars, otaVars>>

Init == InitFiles /\ InitOta /\ fs \in FilesAtStart

Next == (FileStep /\ UNCHANGED otaVars) \/ OtaStep

Spec == Init /\ [][Next]_vars

\* Nothing that a start waits for can hold it up.
FairSpec == Spec /\ WF_vars(Boot) /\ WF_vars(Crash) /\ WF_vars(app_main)

-----------------------------------------------------------------------------

Stores == Places \cup Slots

Commands == {"none", "write", "cp", "ota_update", "ota_switch"}

\* Every variable has its type, but for s_cwd, which ResolvesRight is about; a command
\* under way belongs to a running shell.
TypeOK ==
  /\ phase \in {"off", "starting", "shell"}
  /\ fs \in [Places -> Contents]
  /\ cmd \in [name : Commands, dst : Stores \cup {<<>>}, src : Places \cup {<<>>}, pos : Nat,
              old : Contents, wanted : Contents]
  /\ said \in {"nothing", "done", "failed"}
  /\ commands \in 0 .. MaxCommands
  /\ faults \in 0 .. MaxFaults
  /\ slot \in [Slots -> Seq(Chunks)]
  /\ state \in [Slots -> States]
  /\ boot \in Slots
  /\ running \in Slots
  /\ proven \subseteq Images
  /\ cmd # Idle => phase = "shell"

\* Whatever fails, one slot holds an image whose shell has started, and while the
\* running image is on trial the other slot does: ota_update writes neither the image
\* it runs from nor the one a trial falls back to.
KeepsAGood ==
  /\ \E s \in Slots : slot[s] \in proven
  /\ phase # "off" /\ state[running] = "pending" => slot[Other(running)] \in proven

\* The README says that ota_rollback returns to the previous firmware: what it makes
\* the next to boot is an image that has run.
RollbackIsPrevious ==
  [][boot' # boot /\ state'[boot] = "invalid" => slot[boot'] \in proven]_vars

\* An update never costs the board its shell: an image that crashes on trial is given
\* up, and the shell of the other slot starts.
TrialEnds == phase = "off" /\ state[boot] = "new" ~> phase = "shell"

store == [p \in Stores |-> IF p \in Places THEN fs[p] ELSE File(slot[p])]
job == IF cmd = Idle THEN [place |-> <<>>, wanted |-> Nothing]
                     ELSE [place |-> cmd.dst, wanted |-> cmd.wanted]

Abstract == INSTANCE FileStore WITH Texts <- {File(text) : text \in Texts}

\* A command changes the one file or slot it names and no other, and when write, cp,
\* rm, mkdir or ota_update say they are done it holds what it should: a copy or an
\* image is whole, and its source still what it was.
OnlyWhatIsNamed == Abstract!Spec
=============================================================================
