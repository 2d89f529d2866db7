--------------------------- MODULE FaceLoop_proofs ---------------------------
(* Proofs about FaceLoop, for every number of loops, commands and button      *)
(* samples.                                                                  *)
EXTENDS FaceLoop, TLAPS

\* Names for one condition or one constant each.
USE DEF Pressed, BootConsumes, Obeys, Heeds, Consumed

-----------------------------------------------------------------------------
(* The operators of FaceInput. *)

\* The wrapped index of a neighbour of a preset is the index of a preset.
LEMMA WrapInRange ==
  \A i \in -1 .. NPRESETS : face_preset_wrap(i) \in 0 .. NPRESETS - 1
<1> SUFFICES ASSUME NEW i \in -1 .. NPRESETS
             PROVE  face_preset_wrap(i) \in 0 .. NPRESETS - 1
  OBVIOUS
<1>1. CASE i = -1
  BY <1>1 DEF face_preset_wrap, CRemainder, NPRESETS
<1>2. CASE i \in 0 .. NPRESETS
  BY <1>2 DEF face_preset_wrap, CRemainder, NPRESETS
<1>3. QED
  BY <1>1, <1>2 DEF NPRESETS

\* A name that is found has an index in the table, and is a preset's.
LEMMA FindPreset ==
  ASSUME NEW name
  PROVE  /\ face_preset_find(name) \in -1 .. NPRESETS - 1
         /\ face_preset_find(name) >= 0 => name \in Presets
<1>1. DOMAIN PresetNames = 1 .. 6
  BY DEF PresetNames
<1>2. CASE \E i \in DOMAIN PresetNames : PresetNames[i] = name
  <2> DEFINE k == CHOOSE i \in DOMAIN PresetNames : PresetNames[i] = name
  <2>1. k \in DOMAIN PresetNames /\ PresetNames[k] = name
    BY <1>2
  <2>2. face_preset_find(name) = k - 1
    BY <1>2 DEF face_preset_find
  <2> HIDE DEF k
  <2>3. QED
    BY <1>1, <2>1, <2>2 DEF Presets, NPRESETS
<1>3. CASE ~ \E i \in DOMAIN PresetNames : PresetNames[i] = name
  BY <1>3 DEF face_preset_find, NPRESETS
<1>4. QED
  BY <1>2, <1>3

\* An action on the settings leaves them settings.
LEMMA ApplyType == \A u \in Uis : \A action : apply(u, action) \in Uis
<1> SUFFICES ASSUME NEW u \in Uis, NEW action PROVE apply(u, action) \in Uis
  OBVIOUS
<1>1. /\ face_preset_wrap(u.preset + 1) \in 0 .. NPRESETS - 1
      /\ face_preset_wrap(u.preset - 1) \in 0 .. NPRESETS - 1
  BY WrapInRange DEF Uis, NPRESETS
<1>2. (u.palette + 1) % FACE_NPALETTES \in 0 .. FACE_NPALETTES - 1
  BY DEF Uis, FACE_NPALETTES
<1>3. (u.speed + 1) % NSPEEDS \in 0 .. NSPEEDS - 1
  BY DEF Uis, NSPEEDS
<1>4. CASE action \in {"preset next", "preset prev", "preset reset"}
  <2>1. \A p \in 0 .. NPRESETS - 1 : [u EXCEPT !.preset = p] \in Uis
    BY DEF Uis
  <2>2. \E p \in 0 .. NPRESETS - 1 : apply(u, action) = [u EXCEPT !.preset = p]
    <3>1. CASE action = "preset next"
      BY <1>1, <3>1 DEF apply
    <3>2. CASE action = "preset prev"
      BY <1>1, <3>2 DEF apply
    <3>3. CASE action = "preset reset"
      <4>1. 0 \in 0 .. NPRESETS - 1
        BY DEF NPRESETS
      <4>2. apply(u, action) = [u EXCEPT !.preset = 0]
        BY <3>3 DEF apply
      <4>3. QED
        BY <4>1, <4>2
    <3>4. QED
      BY <1>4, <3>1, <3>2, <3>3
  <2>3. QED
    BY <2>1, <2>2
<1>5. CASE action \in {"brighter", "dimmer"}
  <2>1. \A b \in BRIGHT_MIN .. BRIGHT_MAX : [u EXCEPT !.bright = b] \in Uis
    BY DEF Uis
  <2>2. u.bright \in BRIGHT_MIN .. BRIGHT_MAX
    BY DEF Uis
  <2>3. CASE action = "brighter"
    <3>1. (IF u.bright + BRIGHT_STEP > BRIGHT_MAX THEN BRIGHT_MAX ELSE u.bright + BRIGHT_STEP)
             \in BRIGHT_MIN .. BRIGHT_MAX
      BY <2>2 DEF BRIGHT_MIN, BRIGHT_MAX, BRIGHT_STEP
    <3>2. QED
      BY <2>1, <2>3, <3>1 DEF apply
  <2>4. CASE action = "dimmer"
    <3>1. (IF u.bright - BRIGHT_STEP < BRIGHT_MIN THEN BRIGHT_MIN ELSE u.bright - BRIGHT_STEP)
             \in BRIGHT_MIN .. BRIGHT_MAX
      BY <2>2 DEF BRIGHT_MIN, BRIGHT_MAX, BRIGHT_STEP
    <3>2. QED
      BY <2>1, <2>4, <3>1 DEF apply
  <2>5. QED
    BY <1>5, <2>3, <2>4
<1>6. CASE action \in {"hold", "overlay"}
  <2>1. \/ apply(u, action) = [u EXCEPT !.hold = ~u.hold]
        \/ apply(u, action) = [u EXCEPT !.overlay = ~u.overlay]
    BY <1>6 DEF apply
  <2>2. \A b \in BOOLEAN : [u EXCEPT !.hold = b] \in Uis /\ [u EXCEPT !.overlay = b] \in Uis
    BY DEF Uis
  <2>3. (~u.hold) \in BOOLEAN /\ (~u.overlay) \in BOOLEAN
    OBVIOUS
  <2>4. QED
    BY <2>1, <2>2, <2>3, Zenon
<1>7. CASE action \in {"palette", "speed"}
  BY <1>2, <1>3, <1>7 DEF apply, Uis
<1>8. CASE action \notin {"preset next", "preset prev", "preset reset", "brighter", "dimmer",
                         "hold", "overlay", "palette", "speed"}
  BY <1>8 DEF apply
<1>9. QED
  BY <1>4, <1>5, <1>6, <1>7, <1>8

LEMMA FreshType == FreshUi \in Uis
BY DEF FreshUi, Uis, NPRESETS, FACE_NPALETTES, NSPEEDS, BRIGHT_MIN, BRIGHT_MAX

-----------------------------------------------------------------------------
(* Types. *)

LEMMA FileTypes == Absent \in Contents /\ Empty \in Contents
BY DEF Absent, Empty, Contents

\* What a command leaves in a file is contents of a file.
LEMMA OverlayType ==
  ASSUME NEW old \in Contents, NEW word \in Words, NEW no \in Nat
  PROVE  Overlay(old, word, no) \in Contents
<1>1. Length(word) \in 0 .. 7
  BY DEF Length
<1>2. QED
  BY <1>1 DEF Overlay, Contents

LEMMA CutType ==
  ASSUME NEW old \in Contents, NEW word, NEW n \in Cuts, n < Length(word)
  PROVE  Cut(old, n) \in Contents
<1>1. Length(word) \in 0 .. 7 /\ n \in Nat
  BY CutsAssumption DEF Length
<1>2. old.len \in 0 .. 7 /\ n \in 0 .. 7
  BY <1>1 DEF Contents
<1>3. QED
  BY <1>2 DEF Cut, Contents

LEMMA TargetType == \A word : TargetOf(word) \in Files
BY DEF TargetOf, Files

\* No action leaves the type.
LEMMA TypeStep == TypeOK /\ [Next]_vars => TypeOK'
<1> SUFFICES ASSUME TypeOK, [Next]_vars PROVE TypeOK'
  OBVIOUS
<1> USE BoundsAssumption, InputsAssumption, FileTypes, TargetType
<1> USE DEF TypeOK, loopVars, writerVars, ghosts
<1>1. ASSUME NEW w \in Writers, NEW word \in WordsUsed, WriterOpen(w, word) PROVE TypeOK'
  BY <1>1 DEF WriterOpen
<1>2. ASSUME NEW w \in Writers, WriterWrite(w) PROVE TypeOK'
  <2>1. CASE linked[w]
    <3>1. Overlay(file[TargetOf(given[w])], given[w], written + 1) \in Contents
      BY OverlayType
    <3>2. file' \in [Files -> Contents] /\ written' \in Nat
      BY <1>2, <2>1, <3>1 DEF WriterWrite
    <3>3. owed' \subseteq Loops
      BY <1>2, <2>1 DEF WriterWrite, Running
    <3>4. QED
      BY <1>2, <3>2, <3>3 DEF WriterWrite
  <2>2. CASE ~linked[w]
    BY <1>2, <2>2 DEF WriterWrite
  <2>3. QED
    BY <2>1, <2>2
<1>3. ASSUME NEW w \in Writers, WriterFail(w) PROVE TypeOK'
  BY <1>3 DEF WriterFail
<1>4. ASSUME NEW l \in Loops, LoopStart(l) PROVE TypeOK'
  BY <1>4 DEF LoopStart, Pcs
<1>5. ASSUME NEW l \in Loops, BootRead(l) PROVE TypeOK'
  BY <1>5 DEF BootRead, Pcs
<1>6. ASSUME NEW l \in Loops, BootUnlinkState(l) \/ BootUnlinkPreset(l) PROVE TypeOK'
  <2>1. CASE BootUnlinkState(l)
    BY <2>1 DEF BootUnlinkState, Unlink, Orphans, Pcs, Files
  <2>2. CASE BootUnlinkPreset(l)
    BY <2>2 DEF BootUnlinkPreset, Unlink, Orphans, Pcs, Files
  <2>3. QED
    BY <1>6, <2>1, <2>2
<1>7. ASSUME NEW l \in Loops, NEW s \in Samples, PollButtons(l, s) PROVE TypeOK'
  <2>1. ui' \in [Loops -> Uis]
    BY <1>7, ApplyType DEF PollButtons
  <2>2. up' \in [Loops -> SUBSET Buttons] /\ buttons' \in [Loops -> SUBSET Buttons]
    BY <1>7 DEF PollButtons
  <2>3. pc' \in [Loops -> Pcs]
    BY <1>7 DEF PollButtons, Pcs
  <2>4. UNCHANGED <<shown, quit, fetched, starts, writerVars, file,
                    written, bootNo, quitNo, taken, owed>>
    BY <1>7 DEF PollButtons
  <2>5. QED
    BY <2>1, <2>2, <2>3, <2>4
<1>8. ASSUME NEW l \in Loops, PollNoButtons(l) PROVE TypeOK'
  BY <1>8 DEF PollNoButtons, Pcs
<1>9. ASSUME NEW l \in Loops, ReadState(l) PROVE TypeOK'
  BY <1>9 DEF ReadState, Pcs, Files, Contents
<1>10. ASSUME NEW l \in Loops, ReadPreset(l) PROVE TypeOK'
  BY <1>10 DEF ReadPreset, Pcs, Files
<1>11. ASSUME NEW l \in Loops, UnlinkPreset(l) PROVE TypeOK'
  <2>1. ui' \in [Loops -> Uis]
    <3>1. \A p \in 0 .. NPRESETS - 1 : [ui EXCEPT ![l].preset = p] \in [Loops -> Uis]
      BY DEF Uis
    <3>2. ui[l].preset \in 0 .. NPRESETS - 1
      BY DEF Uis
    <3>3. \E p \in 0 .. NPRESETS - 1 : ui' = [ui EXCEPT ![l].preset = p]
      <4> DEFINE word == fetched[l].word
      <4> DEFINE p == IF face_preset_find(word) >= 0 /\ ~ui[l].hold
                      THEN face_preset_find(word) ELSE ui[l].preset
      <4>1. p \in 0 .. NPRESETS - 1
        BY <3>2, FindPreset DEF NPRESETS
      <4>2. ui' = [ui EXCEPT ![l].preset = p]
        BY <1>11 DEF UnlinkPreset
      <4>3. QED
        BY <4>1, <4>2
    <3>4. QED
      BY <3>1, <3>3
  <2>2. taken' \in [Loops -> [no : Nat, fresh : BOOLEAN]]
    BY <1>11 DEF UnlinkPreset, Contents
  <2>3. QED
    BY <1>11, <2>1, <2>2 DEF UnlinkPreset, Orphans, Pcs, Files
<1>12. ASSUME NEW l \in Loops, LoopStop(l) PROVE TypeOK'
  BY <1>12, FreshType DEF LoopStop, NotTaken, StateNames, Pcs
<1>13. ASSUME NEW w \in Writers, WriterFallsShort(w) PROVE TypeOK'
  <2> DEFINE f == TargetOf(given[w])
  <2>1. PICK n \in Cuts : n < Length(given[w]) /\ file' = [file EXCEPT ![f] = Cut(@, n)]
    BY <1>13 DEF WriterFallsShort
  <2>2. Cut(file[f], n) \in Contents
    BY <2>1, CutType
  <2>3. file' \in [Files -> Contents]
    BY <2>1, <2>2
  <2>4. QED
    BY <1>13, <2>3 DEF WriterFallsShort
<1>14. CASE UNCHANGED vars
  BY <1>14 DEF vars
<1>15. ASSUME Next PROVE TypeOK'
  BY <1>1, <1>2, <1>3, <1>4, <1>5, <1>6, <1>7, <1>8, <1>9, <1>10, <1>11, <1>12, <1>13, <1>15, Zenon
  DEF Next, Iterate
<1>16. QED
  BY <1>14, <1>15

LEMMA TypeInit == Init => TypeOK
<1> SUFFICES ASSUME Init PROVE TypeOK
  OBVIOUS
<1>1. ui \in [Loops -> Uis] /\ pc \in [Loops -> Pcs] /\ shown \in [Loops -> StateNames]
  BY FreshType DEF Init, Pcs, StateNames
<1>2. fetched \in [Loops -> Contents] /\ file \in [Files -> Contents]
  BY FileTypes DEF Init
<1>3. /\ taken \in [Loops -> [no : Nat, fresh : BOOLEAN]]
      /\ up \in [Loops -> SUBSET Buttons]
      /\ buttons \in [Loops -> SUBSET Buttons]
  BY DEF Init, NotTaken
<1>4. given \in [Writers -> Words]
  BY DEF Init, Words
<1>5. /\ opened \in 0 .. MaxWrites
      /\ starts \in 0 .. MaxStarts
      /\ written \in Nat
      /\ bootNo \in [Loops -> Nat]
      /\ quitNo \in [Loops -> Nat]
  BY BoundsAssumption DEF Init
<1>6. /\ quit \in [Loops -> BOOLEAN]
      /\ wpc \in [Writers -> {"idle", "open"}]
      /\ linked \in [Writers -> BOOLEAN]
      /\ owed \subseteq Loops
  BY DEF Init
<1>7. QED
  BY <1>1, <1>2, <1>3, <1>4, <1>5, <1>6 DEF TypeOK

\* run(), read_state(), read_preset(), write_state() and write_preset() keep every
\* variable in its type: a preset index never leaves the table, whatever buttons and
\* words arrive in whatever order.
THEOREM TypeCorrect == Spec => []TypeOK
BY TypeInit, TypeStep, PTL DEF Spec

-----------------------------------------------------------------------------
(* The stale quit word. *)

\* A loop past its start, or about to unlink the preset file at its start, has read
\* the state file; every quit word it can find there is newer than that read.
StaleInv ==
  \A l \in Loops :
    /\ bootNo[l] <= written
    /\ pc[l] \in {"off", "boot", "bootState", "bootPreset"} => ~quit[l]
    /\ quit[l] => quitNo[l] > bootNo[l]
    /\ pc[l] \notin {"off", "boot", "bootState"} /\ file["state"].word = "quit"
         => file["state"].no > bootNo[l]

\* Only a completed write puts a quit word into the state file, and its number is new.
LEMMA QuitIsNew ==
  ASSUME TypeOK, [Next]_vars
  PROVE  /\ written' >= written
         /\ file'["state"].word = "quit" /\ file'["state"] # file["state"]
              => file'["state"].no = written + 1 /\ written' = written + 1
<1> USE DEF TypeOK, loopVars, writerVars, ghosts
<1>1. ASSUME NEW w \in Writers, NEW word \in WordsUsed, WriterOpen(w, word)
      PROVE  written' = written /\ file'["state"] \in {file["state"], Empty}
  BY <1>1, TargetType DEF WriterOpen, Files
<1>2. ASSUME NEW w \in Writers, WriterWrite(w)
      PROVE  \/ written' = written /\ file' = file
             \/ /\ written' = written + 1
                /\ file'["state"] # file["state"] => file'["state"].no = written + 1
  BY <1>2, TargetType DEF WriterWrite, Overlay, Files
<1>3. ASSUME NEW l \in Loops, BootUnlinkState(l) \/ BootUnlinkPreset(l) \/ UnlinkPreset(l)
      PROVE  written' = written /\ file'["state"] \in {file["state"], Absent}
  BY <1>3 DEF BootUnlinkState, BootUnlinkPreset, UnlinkPreset, Unlink, Files
<1>4. ASSUME \/ \E w \in Writers : WriterFail(w)
             \/ \E l \in Loops :
                  \/ LoopStart(l) \/ BootRead(l) \/ PollNoButtons(l)
                  \/ \E s \in Samples : PollButtons(l, s)
                  \/ ReadState(l) \/ ReadPreset(l) \/ LoopStop(l)
             \/ UNCHANGED vars
      PROVE  written' = written /\ file' = file
  BY <1>4 DEF WriterFail, LoopStart, BootRead, PollNoButtons, PollButtons, ReadState,
              ReadPreset, LoopStop, vars
<1>5. Absent.word # "quit" /\ Empty.word # "quit"
  BY DEF Absent, Empty
<1>6. ASSUME NEW w \in Writers, WriterFallsShort(w)
      PROVE  written' = written /\ (file'["state"] = file["state"] \/ file'["state"].word # "quit")
  BY <1>6, TargetType DEF WriterFallsShort, Cut, Garbled, Files
<1>7. QED
  BY <1>1, <1>2, <1>3, <1>4, <1>5, <1>6 DEF Next, Iterate

\* A loop's own record of its start and of its quit word.
LEMMA StaleStep == TypeOK /\ StaleInv /\ [Next]_vars => StaleInv'
<1> SUFFICES ASSUME TypeOK, StaleInv, [Next]_vars, NEW l \in Loops
             PROVE  /\ bootNo'[l] <= written'
                    /\ pc'[l] \in {"off", "boot", "bootState", "bootPreset"} => ~quit'[l]
                    /\ quit'[l] => quitNo'[l] > bootNo'[l]
                    /\ pc'[l] \notin {"off", "boot", "bootState"} /\ file'["state"].word = "quit"
                         => file'["state"].no > bootNo'[l]
  BY DEF StaleInv
<1>0. /\ written' \in Nat /\ written \in Nat /\ bootNo[l] \in Nat
      /\ written' >= written
      /\ file'["state"].word = "quit" =>
           \/ file'["state"] = file["state"]
           \/ file'["state"].no = written + 1 /\ written' = written + 1
  BY QuitIsNew, TypeStep DEF TypeOK
<1> USE <1>0 DEF TypeOK, StaleInv, loopVars, writerVars, ghosts
<1> DEFINE Same == /\ pc'[l] = pc[l] /\ quit'[l] = quit[l]
                   /\ quitNo'[l] = quitNo[l] /\ bootNo'[l] = bootNo[l]
<1>1. CASE Same
  BY <1>1
<1>2. CASE LoopStart(l)
  BY <1>2 DEF LoopStart
<1>3. CASE BootRead(l)
  BY <1>3 DEF BootRead
<1>4. CASE BootUnlinkState(l)
  BY <1>4 DEF BootUnlinkState, Unlink, Files, Absent
<1>5. CASE \/ BootUnlinkPreset(l) \/ (\E s \in Samples : PollButtons(l, s)) \/ PollNoButtons(l)
           \/ ReadPreset(l) \/ UnlinkPreset(l)
  <2>1. quit'[l] = quit[l] /\ quitNo'[l] = quitNo[l] /\ bootNo'[l] = bootNo[l]
    BY <1>5 DEF BootUnlinkPreset, PollButtons, PollNoButtons, ReadPreset, UnlinkPreset
  <2>2. /\ pc[l] \notin {"off", "boot", "bootState"}
        /\ pc'[l] \notin {"off", "boot", "bootState", "bootPreset"}
    BY <1>5 DEF BootUnlinkPreset, PollButtons, PollNoButtons, ReadPreset, UnlinkPreset
  <2>3. QED
    BY <2>1, <2>2
<1>6. CASE ReadState(l)
  BY <1>6 DEF ReadState
<1>7. CASE LoopStop(l)
  BY <1>7 DEF LoopStop
<1>8. ASSUME NEW k \in Loops, k # l, LoopStart(k) \/ Iterate(k) PROVE Same
  BY <1>8 DEF LoopStart, Iterate, BootRead, BootUnlinkState, BootUnlinkPreset, PollButtons,
              PollNoButtons, ReadState, ReadPreset, UnlinkPreset, LoopStop
<1>9. ASSUME NEW w \in Writers,
             (\E word \in WordsUsed : WriterOpen(w, word)) \/ WriterWrite(w) \/ WriterFail(w) \/ WriterFallsShort(w)
      PROVE  Same
  BY <1>9 DEF WriterOpen, WriterWrite, WriterFail, WriterFallsShort
<1>10. CASE UNCHANGED vars
  BY <1>10 DEF vars
<1> HIDE DEF Same
<1>11. QED
  BY <1>1, <1>2, <1>3, <1>4, <1>5, <1>6, <1>7, <1>8, <1>9, <1>10 DEF Next, Iterate

\* run() consumes a quit word left over from an earlier run before its first poll, so
\* whatever other loops and commands do to the file meanwhile, no loop obeys a quit
\* word that was there when it started.
THEOREM NoStaleQuit == Spec => []StaleQuitHarmless
<1>1. Init => StaleInv
  BY DEF Init, StaleInv, Absent
<1>2. StaleInv => StaleQuitHarmless
  BY DEF StaleInv, StaleQuitHarmless
<1>3. QED
  BY <1>1, <1>2, StaleStep, TypeCorrect, PTL DEF Spec

-----------------------------------------------------------------------------
(* The preset word that is taken once. *)

\* The preset word in the file, and the one a loop has read and not yet unlinked, are
\* newer than every word that loop has taken.
PresetInv ==
  /\ file["preset"].no <= written
  /\ \A l \in Loops :
       /\ taken[l].fresh
       /\ taken[l].no <= written
       /\ file["preset"].word \in Presets => file["preset"].no > taken[l].no
       /\ pc[l] = "unlink" => fetched[l].no <= written
       /\ pc[l] = "unlink" /\ fetched[l].word \in Presets => fetched[l].no > taken[l].no

\* Only a completed write puts a word into the preset file, and its number is new.
LEMMA PresetIsNew ==
  ASSUME TypeOK, [Next]_vars
  PROVE  /\ written' >= written
         /\ \/ file'["preset"] \in {file["preset"], Absent, Empty}
            \/ file'["preset"].word = Garbled /\ file'["preset"].no = 0
            \/ file'["preset"].no = written + 1 /\ written' = written + 1
<1> USE DEF TypeOK, loopVars, writerVars, ghosts
<1>1. ASSUME NEW w \in Writers, NEW word \in WordsUsed, WriterOpen(w, word)
      PROVE  written' = written /\ file'["preset"] \in {file["preset"], Empty}
  BY <1>1, TargetType DEF WriterOpen, Files
<1>2. ASSUME NEW w \in Writers, WriterWrite(w)
      PROVE  \/ written' = written /\ file' = file
             \/ /\ written' = written + 1
                /\ file'["preset"] # file["preset"] => file'["preset"].no = written + 1
  BY <1>2, TargetType DEF WriterWrite, Overlay, Files
<1>3. ASSUME NEW l \in Loops, BootUnlinkState(l) \/ BootUnlinkPreset(l) \/ UnlinkPreset(l)
      PROVE  written' = written /\ file'["preset"] \in {file["preset"], Absent}
  BY <1>3 DEF BootUnlinkState, BootUnlinkPreset, UnlinkPreset, Unlink, Files
<1>4. ASSUME \/ \E w \in Writers : WriterFail(w)
             \/ \E l \in Loops :
                  \/ LoopStart(l) \/ BootRead(l) \/ PollNoButtons(l)
                  \/ \E s \in Samples : PollButtons(l, s)
                  \/ ReadState(l) \/ ReadPreset(l) \/ LoopStop(l)
             \/ UNCHANGED vars
      PROVE  written' = written /\ file' = file
  BY <1>4 DEF WriterFail, LoopStart, BootRead, PollNoButtons, PollButtons, ReadState,
              ReadPreset, LoopStop, vars
<1>5. ASSUME NEW w \in Writers, WriterFallsShort(w)
      PROVE  /\ written' = written
             /\ \/ file'["preset"] = file["preset"]
                \/ file'["preset"].word = Garbled /\ file'["preset"].no = 0
  BY <1>5, TargetType DEF WriterFallsShort, Cut, Files
<1>6. QED
  BY <1>1, <1>2, <1>3, <1>4, <1>5 DEF Next, Iterate

LEMMA NoPresetWord ==
  Absent.word \notin Presets /\ Empty.word \notin Presets /\ Garbled \notin Presets
BY DEF Absent, Empty, Garbled, Presets, PresetNames

LEMMA PresetStep == TypeOK /\ PresetInv /\ [Next]_vars => PresetInv'
<1> SUFFICES ASSUME TypeOK, PresetInv, [Next]_vars PROVE PresetInv'
  OBVIOUS
<1>0. /\ written' \in Nat /\ written \in Nat
      /\ written' >= written
      /\ Absent.no = 0 /\ Empty.no = 0
      /\ \/ file'["preset"] \in {file["preset"], Absent, Empty}
         \/ file'["preset"].word = Garbled /\ file'["preset"].no = 0
         \/ file'["preset"].no = written + 1 /\ written' = written + 1
  BY PresetIsNew, TypeStep DEF TypeOK, Absent, Empty
<1>1. file'["preset"].no <= written'
  BY <1>0 DEF PresetInv, TypeOK, Files, Contents
<1>2. ASSUME NEW l \in Loops
      PROVE  /\ taken'[l].fresh
             /\ taken'[l].no <= written'
             /\ file'["preset"].word \in Presets => file'["preset"].no > taken'[l].no
             /\ pc'[l] = "unlink" => fetched'[l].no <= written'
             /\ pc'[l] = "unlink" /\ fetched'[l].word \in Presets =>
                  fetched'[l].no > taken'[l].no
  <2> USE <1>0, NoPresetWord DEF TypeOK, PresetInv, loopVars, writerVars, ghosts
  <2>0. /\ taken[l] \in [no : Nat, fresh : BOOLEAN]
        /\ fetched[l] \in Contents
        /\ file["preset"] \in Contents
    BY DEF Files
  <2>1. CASE taken'[l] = taken[l] /\ fetched'[l] = fetched[l] /\ (pc'[l] = "unlink" => pc[l] = "unlink")
    BY <2>0, <2>1 DEF Contents
  <2>2. CASE ReadPreset(l)
    <3>1. /\ file' = file /\ taken' = taken /\ written' = written
          /\ fetched'[l] = file["preset"]
      BY <2>2 DEF ReadPreset
    <3>2. QED
      BY <2>0, <3>1
  <2>3. CASE UnlinkPreset(l)
    <3>1. /\ pc[l] = "unlink" /\ pc'[l] # "unlink" /\ file'["preset"] = Absent
          /\ taken'[l] = IF face_preset_find(fetched[l].word) >= 0 /\ ~ui[l].hold
                         THEN [no |-> fetched[l].no,
                               fresh |-> taken[l].fresh /\ fetched[l].no > taken[l].no]
                         ELSE taken[l]
      BY <2>3 DEF UnlinkPreset, Files
    <3>2. CASE face_preset_find(fetched[l].word) >= 0 /\ ~ui[l].hold
      <4>1. fetched[l].word \in Presets
        BY <3>2, FindPreset
      <4>2. fetched[l].no > taken[l].no /\ taken[l].fresh
        BY <3>1, <4>1
      <4>3. taken'[l].fresh /\ taken'[l].no = fetched[l].no
        BY <3>1, <3>2, <4>2
      <4>4. fetched[l].no <= written'
        BY <2>0, <3>1 DEF Contents
      <4>5. QED
        BY <3>1, <4>3, <4>4
    <3>3. CASE ~(face_preset_find(fetched[l].word) >= 0 /\ ~ui[l].hold)
      BY <2>0, <3>1, <3>3
    <3>4. QED
      BY <3>2, <3>3
  <2>4. CASE LoopStop(l)
    <3>1. taken'[l] = NotTaken /\ pc'[l] # "unlink" /\ file' = file /\ written' = written
      BY <2>4 DEF LoopStop
    <3>2. taken'[l].fresh /\ taken'[l].no = 0
      BY <3>1 DEF NotTaken
    <3>3. file["preset"].word \in Presets => file["preset"].no > 0
      <4>1. taken[l].no \in Nat /\ file["preset"].no \in Nat
        BY <2>0 DEF Contents
      <4>2. file["preset"].word \in Presets => file["preset"].no > taken[l].no
        OBVIOUS
      <4>3. QED
        BY <4>1, <4>2
    <3>4. QED
      BY <3>1, <3>2, <3>3
  <2>5. ASSUME \/ LoopStart(l) \/ BootRead(l) \/ BootUnlinkState(l) \/ BootUnlinkPreset(l)
               \/ (\E s \in Samples : PollButtons(l, s)) \/ PollNoButtons(l) \/ ReadState(l)
        PROVE  taken'[l] = taken[l] /\ fetched'[l] = fetched[l] /\ (pc'[l] = "unlink" => pc[l] = "unlink")
    BY <2>5 DEF LoopStart, BootRead, BootUnlinkState, BootUnlinkPreset, PollButtons,
                PollNoButtons, ReadState
  <2>6. ASSUME NEW k \in Loops, k # l, LoopStart(k) \/ Iterate(k)
        PROVE  taken'[l] = taken[l] /\ fetched'[l] = fetched[l] /\ (pc'[l] = "unlink" => pc[l] = "unlink")
    BY <2>6 DEF LoopStart, Iterate, BootRead, BootUnlinkState, BootUnlinkPreset, PollButtons,
                PollNoButtons, ReadState, ReadPreset, UnlinkPreset, LoopStop
  <2>7. ASSUME \/ \E w \in Writers : \/ \E word \in WordsUsed : WriterOpen(w, word)
                                     \/ WriterWrite(w) \/ WriterFail(w) \/ WriterFallsShort(w)
               \/ UNCHANGED vars
        PROVE  taken'[l] = taken[l] /\ fetched'[l] = fetched[l] /\ (pc'[l] = "unlink" => pc[l] = "unlink")
    BY <2>7 DEF WriterOpen, WriterWrite, WriterFail, WriterFallsShort, vars
  <2>8. QED
    BY <2>1, <2>2, <2>3, <2>4, <2>5, <2>6, <2>7 DEF Next, Iterate
<1>3. QED
  BY <1>1, <1>2 DEF PresetInv

\* read_preset() unlinks the file it reads, so no loop takes a preset word twice, nor an
\* older one after a newer one: what the joystick chooses after a word stays chosen.
THEOREM NoPresetTwice == Spec => []PresetOnce
<1>1. Init => PresetInv
  BY NoPresetWord DEF Init, PresetInv, NotTaken, Absent, Files
<1>2. PresetInv => PresetOnce
  BY DEF PresetInv, PresetOnce
<1>3. QED
  BY <1>1, <1>2, PresetStep, TypeCorrect, PTL DEF Spec

-----------------------------------------------------------------------------
(* One press, one action. *)

LEMMA BindingsDomain == DOMAIN g_bindings = 1 .. 9
BY DEF g_bindings

\* The first of the pressed buttons' bindings is one of them.
LEMMA FirstIsHit ==
  ASSUME NEW now, NEW prev, Hits(now, prev) # {}
  PROVE  FirstHit(now, prev) \in Hits(now, prev)
<1> DEFINE S == Hits(now, prev)
<1>0. S # {}
  OBVIOUS
<1>1. S \subseteq 1 .. 9
  BY BindingsDomain DEF Hits
<1> HIDE DEF S
<1>2. ASSUME ~ \E i \in S : \A j \in S : i <= j PROVE FALSE
  <2> USE <1>2
  <2>1. S \subseteq 2 .. 9
    BY <1>1
  <2>2. S \subseteq 3 .. 9
    BY <2>1
  <2>3. S \subseteq 4 .. 9
    BY <2>2
  <2>4. S \subseteq 5 .. 9
    BY <2>3
  <2>5. S \subseteq 6 .. 9
    BY <2>4
  <2>6. S \subseteq 7 .. 9
    BY <2>5
  <2>7. S \subseteq 8 .. 9
    BY <2>6
  <2>8. S \subseteq 9 .. 9
    BY <2>7
  <2>9. 9 \notin S
    BY <2>8
  <2>11. S = {}
    BY <2>8, <2>9
  <2>12. QED
    BY <1>0, <2>11
<1>3. QED
  BY <1>2 DEF FirstHit, S

\* Which settings an action may change.
LEMMA ApplyChanges ==
  ASSUME NEW u \in Uis, NEW action
  PROVE  /\ apply(u, action).hold # u.hold => action = "hold"
         /\ apply(u, action).palette # u.palette => action = "palette"
         /\ apply(u, action).speed # u.speed => action = "speed"
         /\ apply(u, action).overlay # u.overlay => action = "overlay"
         /\ apply(u, action).bright # u.bright => action \in {"brighter", "dimmer"}
         /\ apply(u, action).preset # u.preset =>
              action \in {"preset next", "preset prev", "preset reset"}
<1>1. CASE action \in {"preset next", "preset prev", "preset reset"}
  <2>1. \E p : apply(u, action) = [u EXCEPT !.preset = p]
    BY <1>1, Zenon DEF apply
  <2>2. QED
    BY <1>1, <2>1 DEF Uis
<1>2. CASE action \in {"brighter", "dimmer"}
  <2>1. \E b : apply(u, action) = [u EXCEPT !.bright = b]
    BY <1>2, Zenon DEF apply
  <2>2. QED
    BY <1>2, <2>1 DEF Uis
<1>3. CASE action = "hold"
  BY <1>3 DEF apply, Uis
<1>4. CASE action = "overlay"
  BY <1>4 DEF apply, Uis
<1>5. CASE action = "palette"
  BY <1>5 DEF apply, Uis
<1>6. CASE action = "speed"
  BY <1>6 DEF apply, Uis
<1>7. CASE action \notin {"preset next", "preset prev", "preset reset", "brighter", "dimmer",
                         "hold", "overlay", "palette", "speed"}
  BY <1>7 DEF apply
<1>8. QED
  BY <1>1, <1>2, <1>3, <1>4, <1>5, <1>6, <1>7

\* An action comes from a button that this sample has and the last one had not.
LEMMA ActionIsPressed ==
  ASSUME NEW now, NEW prev
  PROVE  LET action == face_input_action(now, prev) IN
         \/ action = "none"
         \/ \E i \in 1 .. 9 : /\ g_bindings[i][1] \in now \ prev
                              /\ action = g_bindings[i][2]
<1>1. CASE Hits(now, prev) = {}
  BY <1>1 DEF face_input_action
<1>2. CASE Hits(now, prev) # {}
  <2>1. FirstHit(now, prev) \in Hits(now, prev)
    BY <1>2, FirstIsHit
  <2>2. FirstHit(now, prev) \in 1 .. 9 /\ g_bindings[FirstHit(now, prev)][1] \in now \ prev
    BY <2>1, BindingsDomain DEF Hits
  <2>3. QED
    BY <1>2, <2>2 DEF face_input_action
<1>3. QED
  BY <1>1, <1>2

\* A button that the loop has not seen up since it acted on it was down in the last
\* sample.
UpInv == \A l \in Loops : Buttons \ buttons[l] \subseteq up[l]

LEMMA UpStep == TypeOK /\ UpInv /\ [Next]_vars => UpInv'
<1> SUFFICES ASSUME TypeOK, UpInv, [Next]_vars, NEW l \in Loops
             PROVE  Buttons \ buttons'[l] \subseteq up'[l]
  BY DEF UpInv
<1> USE DEF TypeOK, UpInv, loopVars, writerVars, ghosts
<1>1. ASSUME NEW k \in Loops, NEW s \in Samples, PollButtons(k, s)
      PROVE  Buttons \ buttons'[l] \subseteq up'[l]
  <2>1. CASE k = l
    <3>1. /\ buttons'[l] = s
          /\ Buttons \ s \subseteq up'[l]
      BY <1>1, <2>1 DEF PollButtons
    <3>2. QED
      BY <3>1
  <2>2. CASE k # l
    BY <1>1, <2>2 DEF PollButtons
  <2>3. QED
    BY <2>1, <2>2
<1>2. ASSUME NEW k \in Loops, LoopStop(k)
      PROVE  Buttons \ buttons'[l] \subseteq up'[l]
  BY <1>2 DEF LoopStop
<1>3. ASSUME \/ \E k \in Loops :
                  \/ LoopStart(k) \/ BootRead(k) \/ BootUnlinkState(k) \/ BootUnlinkPreset(k)
                  \/ PollNoButtons(k) \/ ReadState(k) \/ ReadPreset(k) \/ UnlinkPreset(k)
             \/ \E w \in Writers : \/ \E word \in WordsUsed : WriterOpen(w, word)
                                   \/ WriterWrite(w) \/ WriterFail(w) \/ WriterFallsShort(w)
             \/ UNCHANGED vars
      PROVE  buttons' = buttons /\ up' = up
  BY <1>3 DEF LoopStart, BootRead, BootUnlinkState, BootUnlinkPreset, PollNoButtons, ReadState,
              ReadPreset, UnlinkPreset, WriterOpen, WriterWrite, WriterFail, WriterFallsShort, vars
<1>4. QED
  BY <1>1, <1>2, <1>3 DEF Next, Iterate

\* The table, entry by entry.
LEMMA BindingsTable ==
  /\ g_bindings[1][1] = "left" /\ g_bindings[1][2] = "preset prev"
  /\ g_bindings[2][1] = "right" /\ g_bindings[2][2] = "preset next"
  /\ g_bindings[3][1] = "press" /\ g_bindings[3][2] = "preset reset"
  /\ g_bindings[4][1] = "up" /\ g_bindings[4][2] = "brighter"
  /\ g_bindings[5][1] = "down" /\ g_bindings[5][2] = "dimmer"
  /\ g_bindings[6][1] = "A" /\ g_bindings[6][2] = "hold"
  /\ g_bindings[7][1] = "B" /\ g_bindings[7][2] = "palette"
  /\ g_bindings[8][1] = "X" /\ g_bindings[8][2] = "speed"
  /\ g_bindings[9][1] = "Y" /\ g_bindings[9][2] = "overlay"
BY DEF g_bindings

\* What one loop's settings do between two polls.
PressStep(l) ==
  pc[l] = "loop" /\ pc'[l] = "state" =>
    /\ ui'[l].hold # ui[l].hold => "A" \in up[l]
    /\ ui'[l].palette # ui[l].palette => "B" \in up[l]
    /\ ui'[l].speed # ui[l].speed => "X" \in up[l]
    /\ ui'[l].overlay # ui[l].overlay => "Y" \in up[l]
    /\ ui'[l].bright # ui[l].bright => {"up", "down"} \cap up[l] # {}
    /\ ui'[l].preset # ui[l].preset => {"left", "right", "press"} \cap up[l] # {}

\* The settings change by the action of a button that was up in the last sample.
LEMMA PollStep ==
  ASSUME TypeOK, UpInv, NEW l \in Loops, NEW s \in Samples, PollButtons(l, s)
  PROVE  PressStep(l)
<1> DEFINE action == face_input_action(s, buttons[l])
<1>1. ui[l] \in Uis /\ ui'[l] = apply(ui[l], action)
  BY DEF PollButtons, TypeOK
<1>2. \/ action = "none"
      \/ \E i \in 1 .. 9 : g_bindings[i][1] \in s \ buttons[l] /\ action = g_bindings[i][2]
  BY ActionIsPressed
<1>3. s \ buttons[l] \subseteq up[l]
  BY InputsAssumption DEF UpInv
<1> HIDE DEF action
<1>4. \/ action = "none"
      \/ action = "preset prev" /\ "left" \in up[l]
      \/ action = "preset next" /\ "right" \in up[l]
      \/ action = "preset reset" /\ "press" \in up[l]
      \/ action = "brighter" /\ "up" \in up[l]
      \/ action = "dimmer" /\ "down" \in up[l]
      \/ action = "hold" /\ "A" \in up[l]
      \/ action = "palette" /\ "B" \in up[l]
      \/ action = "speed" /\ "X" \in up[l]
      \/ action = "overlay" /\ "Y" \in up[l]
  <2>1. ASSUME action # "none"
        PROVE  \E i \in {1, 2, 3, 4, 5, 6, 7, 8, 9} :
                 g_bindings[i][1] \in up[l] /\ action = g_bindings[i][2]
    <3>1. PICK i \in 1 .. 9 : g_bindings[i][1] \in s \ buttons[l] /\ action = g_bindings[i][2]
      BY <1>2, <2>1
    <3>2. i \in {1, 2, 3, 4, 5, 6, 7, 8, 9}
      OBVIOUS
    <3>3. QED
      BY <1>3, <3>1, <3>2
  <2>2. \/ g_bindings[1][1] \in up[l] /\ action = g_bindings[1][2]
        \/ g_bindings[2][1] \in up[l] /\ action = g_bindings[2][2]
        \/ g_bindings[3][1] \in up[l] /\ action = g_bindings[3][2]
        \/ g_bindings[4][1] \in up[l] /\ action = g_bindings[4][2]
        \/ g_bindings[5][1] \in up[l] /\ action = g_bindings[5][2]
        \/ g_bindings[6][1] \in up[l] /\ action = g_bindings[6][2]
        \/ g_bindings[7][1] \in up[l] /\ action = g_bindings[7][2]
        \/ g_bindings[8][1] \in up[l] /\ action = g_bindings[8][2]
        \/ g_bindings[9][1] \in up[l] /\ action = g_bindings[9][2]
        \/ action = "none"
    BY <2>1
  <2>3. QED
    BY <2>2, BindingsTable
<1>5. /\ ui'[l].hold # ui[l].hold => action = "hold"
      /\ ui'[l].palette # ui[l].palette => action = "palette"
      /\ ui'[l].speed # ui[l].speed => action = "speed"
      /\ ui'[l].overlay # ui[l].overlay => action = "overlay"
      /\ ui'[l].bright # ui[l].bright => action \in {"brighter", "dimmer"}
      /\ ui'[l].preset # ui[l].preset =>
           action \in {"preset next", "preset prev", "preset reset"}
  <2> DEFINE v == apply(ui[l], action)
  <2>1. /\ v.hold # ui[l].hold => action = "hold"
        /\ v.palette # ui[l].palette => action = "palette"
        /\ v.speed # ui[l].speed => action = "speed"
        /\ v.overlay # ui[l].overlay => action = "overlay"
        /\ v.bright # ui[l].bright => action \in {"brighter", "dimmer"}
        /\ v.preset # ui[l].preset => action \in {"preset next", "preset prev", "preset reset"}
    BY <1>1, ApplyChanges
  <2>2. QED
    BY <1>1, <2>1
<1>6. QED
  BY <1>4, <1>5 DEF PressStep

LEMMA PressNext == TypeOK /\ UpInv /\ [Next]_vars => [\A l \in Loops : PressStep(l)]_vars
<1> SUFFICES ASSUME TypeOK, UpInv, Next, NEW l \in Loops PROVE PressStep(l)
  OBVIOUS
<1> USE DEF TypeOK, loopVars, writerVars, ghosts
<1>1. CASE \E s \in Samples : PollButtons(l, s)
  BY <1>1, PollStep
<1>2. CASE PollNoButtons(l)
  BY <1>2 DEF PollNoButtons, PressStep
<1>3. ASSUME \/ LoopStart(l) \/ BootRead(l) \/ BootUnlinkState(l) \/ BootUnlinkPreset(l)
             \/ ReadState(l) \/ ReadPreset(l) \/ UnlinkPreset(l) \/ LoopStop(l)
      PROVE  pc[l] # "loop" \/ pc'[l] # "state"
  BY <1>3 DEF LoopStart, BootRead, BootUnlinkState, BootUnlinkPreset, ReadState, ReadPreset,
              UnlinkPreset, LoopStop
<1>4. ASSUME NEW k \in Loops, k # l, LoopStart(k) \/ Iterate(k)
      PROVE  pc'[l] = pc[l]
  BY <1>4 DEF LoopStart, Iterate, BootRead, BootUnlinkState, BootUnlinkPreset, PollButtons,
              PollNoButtons, ReadState, ReadPreset, UnlinkPreset, LoopStop
<1>5. ASSUME NEW w \in Writers,
             (\E word \in WordsUsed : WriterOpen(w, word)) \/ WriterWrite(w) \/ WriterFail(w) \/ WriterFallsShort(w)
      PROVE  pc'[l] = pc[l]
  BY <1>5 DEF WriterOpen, WriterWrite, WriterFail, WriterFallsShort
<1>6. pc'[l] = pc[l] => PressStep(l)
  BY DEF PressStep
<1>7. QED
  BY <1>1, <1>2, <1>3, <1>4, <1>5, <1>6 DEF Next, Iterate, PressStep

\* face_input_action() compares each sample with the last one, so a held button acts
\* once: a setting changes again only after a poll has seen its button up.
THEOREM PressActsOnce == Spec => OnePressOneAction
<1>1. Init => UpInv
  BY DEF Init, UpInv
<1>2. TypeOK /\ UpInv /\ [Next]_vars => [\A l \in Loops : PressStep(l)]_vars
  BY PressNext
<1>3. Spec => [][\A l \in Loops : PressStep(l)]_vars
  BY <1>1, <1>2, UpStep, TypeCorrect, PTL DEF Spec
<1>4. QED
  BY <1>3 DEF OnePressOneAction, PressStep
=============================================================================
