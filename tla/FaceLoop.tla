------------------------------ MODULE FaceLoop ------------------------------
(***************************************************************************)
(* run() of face_main.c, the render loop of the face, and the commands     *)
(* that steer it through two files in /tmp: `face <state>`, `face quit`    *)
(* and `face <preset>`.  Several loops and several commands may run at     *)
(* once; every file operation is a step of its own.                        *)
(*                                                                         *)
(* A loop iteration that does not poll changes nothing that is modelled,   *)
(* so an iteration here is one that polls.  Drawing is left out.           *)
(***************************************************************************)
EXTENDS FaceInput, FiniteSets

CONSTANTS Loops,      \* tasks that run `face` with no argument
          Writers,    \* tasks that run `face <word>`
          WordsUsed,  \* the words the commands are given
          Samples,    \* the button masks a poll may read
          Cuts,       \* bound: after how many bytes a write may be cut off
          MaxWrites,  \* bound: commands in one behaviour
          MaxStarts   \* bound: starts of a loop in one behaviour

Presets == {PresetNames[i] : i \in DOMAIN PresetNames}
Words == StateNames \cup Presets \cup {"quit"}

ASSUME BoundsAssumption == MaxWrites \in Nat /\ MaxStarts \in Nat
ASSUME InputsAssumption == WordsUsed \subseteq Words /\ Samples \subseteq SUBSET Buttons
ASSUME CutsAssumption == Cuts \subseteq Nat \ {0}

(***************************************************************************)
(* A file holds a word, the length of its text and, as history, the number *)
(* of the write that put it there.  Text that is no word is Garbled; a     *)
(* write that is cut off has no number.                                    *)
(***************************************************************************)
Absent == [word |-> "absent", len |-> 0, no |-> 0]
Empty == [word |-> "empty", len |-> 0, no |-> 0]
Garbled == "garbled"

Length(w) == CASE w = "bot" -> 3
               [] w \in {"quit", "idle", "done", "crab"} -> 4
               [] w \in {"pixel", "graph"} -> 5
               [] w \in {"failed", "vector"} -> 6
               [] OTHER -> 7

Files == {"state", "preset"}
Contents == [word : Words \cup {"absent", "empty", Garbled}, len : 0 .. 7, no : Nat]

VARIABLES
  pc,       \* where each loop is
  ui,       \* its settings
  buttons,  \* the mask its last poll read
  shown,    \* the expression its face has
  quit,     \* TRUE once it has read the quit word
  fetched,  \* what read_preset has read and not yet unlinked
  file,     \* the two files
  wpc,      \* where each command is
  given,    \* its word
  linked,   \* TRUE iff the file it has open still has its name
  opened,   \* commands so far
  starts,   \* starts of a loop so far
  written,  \* history: words written to a named file so far
  bootNo,   \* history: written when the loop read the state file at its start
  quitNo,   \* history: the write whose quit word the loop obeys
  taken,    \* history: the last preset write the loop took, and whether it was
            \* newer than every one before
  up,       \* history: buttons seen up since the loop last acted on them
  owed      \* history: loops that ran when the last quit word was written and have
            \* not read it

loopVars == <<pc, ui, buttons, shown, quit, fetched, starts>>
writerVars == <<wpc, given, linked, opened>>
ghosts == <<written, bootNo, quitNo, taken, up, owed>>
vars == <<loopVars, writerVars, file, ghosts>>

NotTaken == [no |-> 0, fresh |-> TRUE]

Init ==
  /\ pc = [l \in Loops |-> "off"]
  /\ ui = [l \in Loops |-> FreshUi]
  /\ buttons = [l \in Loops |-> {}]
  /\ shown = [l \in Loops |-> "idle"]
  /\ quit = [l \in Loops |-> FALSE]
  /\ fetched = [l \in Loops |-> Absent]
  /\ file = [f \in Files |-> Absent]
  /\ wpc = [w \in Writers |-> "idle"]
  /\ given = [w \in Writers |-> "quit"]
  /\ linked = [w \in Writers |-> FALSE]
  /\ opened = 0
  /\ starts = 0
  /\ written = 0
  /\ bootNo = [l \in Loops |-> 0]
  /\ quitNo = [l \in Loops |-> 0]
  /\ taken = [l \in Loops |-> NotTaken]
  /\ up = [l \in Loops |-> Buttons]
  /\ owed = {}

-----------------------------------------------------------------------------
(* The commands: write_state() and write_preset(). *)

TargetOf(word) == IF face_preset_find(word) >= 0 THEN "preset" ELSE "state"

Running == {l \in Loops : pc[l] \notin {"off", "boot", "bootState", "bootPreset"} /\ ~quit[l]}

\* O_TRUNC empties the file before the word is in it.
WriterOpen(w, word) ==
  /\ wpc[w] = "idle"
  /\ opened < MaxWrites
  /\ wpc' = [wpc EXCEPT ![w] = "open"]
  /\ given' = [given EXCEPT ![w] = word]
  /\ linked' = [linked EXCEPT ![w] = TRUE]
  /\ opened' = opened + 1
  /\ file' = [file EXCEPT ![TargetOf(word)] = Empty]
  /\ owed' = IF TargetOf(word) = "state" THEN {} ELSE owed
  /\ UNCHANGED <<loopVars, written, bootNo, quitNo, taken, up>>

\* A word written over a longer one that a second command wrote after the
\* truncation leaves the tail of the longer one.
Overlay(old, word, no) ==
  IF old.len > Length(word) THEN [word |-> Garbled, len |-> old.len, no |-> no]
                            ELSE [word |-> word, len |-> Length(word), no |-> no]

\* A file that was unlinked after the command opened it takes the word with it.
WriterWrite(w) ==
  /\ wpc[w] = "open"
  /\ wpc' = [wpc EXCEPT ![w] = "idle"]
  /\ IF linked[w]
     THEN /\ file' = [file EXCEPT ![TargetOf(given[w])] = Overlay(@, given[w], written + 1)]
          /\ written' = written + 1
          /\ owed' = IF TargetOf(given[w]) = "preset" THEN owed
                     ELSE IF file'["state"].word = "quit" THEN Running ELSE {}
     ELSE UNCHANGED <<file, written, owed>>
  /\ UNCHANGED <<loopVars, given, linked, opened, bootNo, quitNo, taken, up>>

\* The write fails, and the file stays as it is.
WriterFail(w) ==
  /\ wpc[w] = "open"
  /\ wpc' = [wpc EXCEPT ![w] = "idle"]
  /\ UNCHANGED <<loopVars, file, given, linked, opened, ghosts>>

\* The first n bytes of a word over what is in the file: no part of a word is a word.
Cut(old, n) == [word |-> Garbled, len |-> IF n > old.len THEN n ELSE old.len, no |-> 0]

\* The write is cut off.  Over the same word that is as if nothing had been written.
WriterFallsShort(w) ==
  LET f == TargetOf(given[w]) IN
  /\ wpc[w] = "open"
  /\ linked[w]
  /\ file[f].word # given[w]
  /\ wpc' = [wpc EXCEPT ![w] = "idle"]
  /\ \E n \in Cuts : n < Length(given[w]) /\ file' = [file EXCEPT ![f] = Cut(@, n)]
  /\ owed' = IF f = "state" THEN {} ELSE owed
  /\ UNCHANGED <<loopVars, given, linked, opened, written, bootNo, quitNo, taken, up>>

-----------------------------------------------------------------------------
(* The loop: run(), read_state() and read_preset(). *)

\* A task that has the file open keeps a file without a name.
Orphans(f) == linked' = [w \in Writers |-> linked[w] /\ TargetOf(given[w]) # f]

Unlink(f) == file' = [file EXCEPT ![f] = Absent] /\ Orphans(f)

LoopStart(l) ==
  /\ pc[l] = "off"
  /\ starts < MaxStarts
  /\ starts' = starts + 1
  /\ pc' = [pc EXCEPT ![l] = "boot"]
  /\ UNCHANGED <<ui, buttons, shown, quit, fetched, writerVars, file, ghosts>>

\* Mutant: a quit word is left in place at the start.
KeepsQuit(word) == FALSE

\* A quit word left over from an earlier run is consumed.
BootConsumes(word) == word = "quit"

BootRead(l) ==
  /\ pc[l] = "boot"
  /\ pc' = [pc EXCEPT ![l] = IF BootConsumes(file["state"].word) THEN "bootState" ELSE "loop"]
  /\ bootNo' = [bootNo EXCEPT ![l] = written]
  /\ UNCHANGED <<ui, buttons, shown, quit, fetched, starts, writerVars, file,
                 written, quitNo, taken, up, owed>>

BootUnlinkState(l) ==
  /\ pc[l] = "bootState"
  /\ pc' = [pc EXCEPT ![l] = "bootPreset"]
  /\ Unlink("state")
  /\ UNCHANGED <<ui, buttons, shown, quit, fetched, starts, wpc, given, opened, ghosts>>

BootUnlinkPreset(l) ==
  /\ pc[l] = "bootPreset"
  /\ pc' = [pc EXCEPT ![l] = "loop"]
  /\ Unlink("preset")
  /\ UNCHANGED <<ui, buttons, shown, quit, fetched, starts, wpc, given, opened, ghosts>>

\* The buttons whose binding the poll acted on.
ActedOn(action) == {g_bindings[i][1] : i \in {j \in DOMAIN g_bindings : g_bindings[j][2] = action}}

PollButtons(l, sample) ==
  LET action == face_input_action(sample, buttons[l]) IN
  /\ pc[l] = "loop"
  /\ ~quit[l]
  /\ pc' = [pc EXCEPT ![l] = "state"]
  /\ ui' = [ui EXCEPT ![l] = apply(@, action)]
  /\ buttons' = [buttons EXCEPT ![l] = sample]
  /\ up' = [up EXCEPT ![l] = (@ \ ActedOn(action)) \cup (Buttons \ sample)]
  /\ UNCHANGED <<shown, quit, fetched, starts, writerVars, file,
                 written, bootNo, quitNo, taken, owed>>

\* There is no button device, or the read falls short.
PollNoButtons(l) ==
  /\ pc[l] = "loop"
  /\ ~quit[l]
  /\ pc' = [pc EXCEPT ![l] = "state"]
  /\ UNCHANGED <<ui, buttons, shown, quit, fetched, starts, writerVars, file, ghosts>>

\* Mutant: hold ignores the quit word too.
ObeysUnlessHeld(l, word) == word = "quit" /\ ~ui[l].hold

Obeys(l, word) == word = "quit"

\* Mutant: the test of hold is inverted.
HeedsIfHeld(l, word) == word \in StateNames /\ ui[l].hold

Heeds(l, word) == word \in StateNames /\ ~ui[l].hold

ReadState(l) ==
  LET word == file["state"].word IN
  /\ pc[l] = "state"
  /\ pc' = [pc EXCEPT ![l] = "preset"]
  /\ IF Obeys(l, word)
     THEN /\ quit' = [quit EXCEPT ![l] = TRUE]
          /\ quitNo' = [quitNo EXCEPT ![l] = file["state"].no]
          /\ owed' = owed \ {l}
     ELSE UNCHANGED <<quit, quitNo, owed>>
  /\ shown' = [shown EXCEPT ![l] = IF Heeds(l, word) THEN word ELSE @]
  /\ UNCHANGED <<ui, buttons, fetched, starts, writerVars, file,
                 written, bootNo, taken, up>>

\* A preset file that is there is unlinked next, whatever it holds.
ReadPreset(l) ==
  /\ pc[l] = "preset"
  /\ pc' = [pc EXCEPT ![l] = IF file["preset"] = Absent THEN "loop" ELSE "unlink"]
  /\ fetched' = [fetched EXCEPT ![l] = file["preset"]]
  /\ UNCHANGED <<ui, buttons, shown, quit, starts, writerVars, file, ghosts>>

\* Mutant: the preset file is left in place.
Kept(f) == f

Consumed(f) == Absent

\* The preset word is taken after the file is gone; hold drops it.
UnlinkPreset(l) ==
  LET word == fetched[l].word
      takes == face_preset_find(word) >= 0 /\ ~ui[l].hold
  IN
  /\ pc[l] = "unlink"
  /\ pc' = [pc EXCEPT ![l] = "loop"]
  /\ file' = [file EXCEPT !["preset"] = Consumed(@)]
  /\ Orphans("preset")
  /\ fetched' = [fetched EXCEPT ![l] = Absent]
  /\ ui' = [ui EXCEPT ![l].preset = IF takes THEN face_preset_find(word) ELSE @]
  /\ taken' = [taken EXCEPT ![l] =
       IF takes THEN [no |-> fetched[l].no, fresh |-> @.fresh /\ fetched[l].no > @.no] ELSE @]
  /\ UNCHANGED <<buttons, shown, quit, starts, wpc, given, opened,
                 written, bootNo, quitNo, up, owed>>

\* The task ends and its variables with it.
LoopStop(l) ==
  /\ pc[l] = "loop"
  /\ quit[l]
  /\ pc' = [pc EXCEPT ![l] = "off"]
  /\ ui' = [ui EXCEPT ![l] = FreshUi]
  /\ buttons' = [buttons EXCEPT ![l] = {}]
  /\ shown' = [shown EXCEPT ![l] = "idle"]
  /\ quit' = [quit EXCEPT ![l] = FALSE]
  /\ bootNo' = [bootNo EXCEPT ![l] = 0]
  /\ quitNo' = [quitNo EXCEPT ![l] = 0]
  /\ taken' = [taken EXCEPT ![l] = NotTaken]
  /\ up' = [up EXCEPT ![l] = Buttons]
  /\ UNCHANGED <<fetched, starts, writerVars, file, written, owed>>

-----------------------------------------------------------------------------

Iterate(l) ==
  \/ BootRead(l)
  \/ BootUnlinkState(l)
  \/ BootUnlinkPreset(l)
  \/ \E s \in Samples : PollButtons(l, s)
  \/ PollNoButtons(l)
  \/ ReadState(l)
  \/ ReadPreset(l)
  \/ UnlinkPreset(l)
  \/ LoopStop(l)

Next ==
  \/ \E w \in Writers : \/ \E word \in WordsUsed : WriterOpen(w, word)
                        \/ WriterWrite(w)
                        \/ WriterFail(w)
                        \/ WriterFallsShort(w)
  \/ \E l \in Loops : LoopStart(l) \/ Iterate(l)

Spec == Init /\ [][Next]_vars

\* A task that has started runs on; nothing makes anyone start one.
FairSpec ==
  /\ Spec
  /\ \A w \in Writers : WF_vars(WriterWrite(w) \/ WriterFail(w) \/ WriterFallsShort(w))
  /\ \A l \in Loops : WF_vars(Iterate(l))

-----------------------------------------------------------------------------

Pcs == {"off", "boot", "bootState", "bootPreset", "loop", "state", "preset", "unlink"}

\* Every variable has its type: in particular the preset index of a loop stays
\* inside the table and its brightness inside its bounds.
TypeOK ==
  /\ pc \in [Loops -> Pcs]
  /\ ui \in [Loops -> Uis]
  /\ buttons \in [Loops -> SUBSET Buttons]
  /\ shown \in [Loops -> StateNames]
  /\ quit \in [Loops -> BOOLEAN]
  /\ fetched \in [Loops -> Contents]
  /\ file \in [Files -> Contents]
  /\ wpc \in [Writers -> {"idle", "open"}]
  /\ given \in [Writers -> Words]
  /\ linked \in [Writers -> BOOLEAN]
  /\ opened \in 0 .. MaxWrites
  /\ starts \in 0 .. MaxStarts
  /\ written \in Nat
  /\ bootNo \in [Loops -> Nat]
  /\ quitNo \in [Loops -> Nat]
  /\ taken \in [Loops -> [no : Nat, fresh : BOOLEAN]]
  /\ up \in [Loops -> SUBSET Buttons]
  /\ owed \subseteq Loops

\* A loop never obeys a quit word that was in the file when it started, whatever
\* other loops and commands do to the file meanwhile: run() consumes such a word
\* before its first poll.
StaleQuitHarmless == \A l \in Loops : quit[l] => quitNo[l] > bootNo[l]

\* A loop takes no preset word twice and never an older one after a newer one, so a
\* word cannot undo what the joystick chose after it: read_preset() unlinks the file.
PresetOnce == \A l \in Loops : taken[l].fresh

\* A button acts once per press: a setting only a button can change changes again
\* only after a poll has seen that button up.
OnePressOneAction ==
  [][\A l \in Loops : pc[l] = "loop" /\ pc'[l] = "state" =>
       /\ ui'[l].hold # ui[l].hold => "A" \in up[l]
       /\ ui'[l].palette # ui[l].palette => "B" \in up[l]
       /\ ui'[l].speed # ui[l].speed => "X" \in up[l]
       /\ ui'[l].overlay # ui[l].overlay => "Y" \in up[l]
       /\ ui'[l].bright # ui[l].bright => {"up", "down"} \cap up[l] # {}
       /\ ui'[l].preset # ui[l].preset => {"left", "right", "press"} \cap up[l] # {}]_vars

\* A quit word that stays in the file ends every loop for good, a held one too:
\* nothing else can stop a loop.
QuitStops ==
  \A l \in Loops : <>[](file["state"].word = "quit") => <>[](pc[l] = "off")

\* A loop that keeps running unheld settles on the word that stays in the file.
SettlesOnWord ==
  \A l \in Loops, w \in StateNames :
    <>[](file["state"].word = w /\ pc[l] # "off" /\ ~ui[l].hold) => <>[](shown[l] = w)

\* The comment in run() and the README say that every running loop sees a quit word
\* and stops: the word stays in the file while a running loop has not read it and no
\* later command has replaced it.
QuitReachesEveryLoop == owed # {} => file["state"].word = "quit"
=============================================================================
