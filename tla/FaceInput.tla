----------------------------- MODULE FaceInput -----------------------------
(***************************************************************************)
(* face_input.c, the index arithmetic of face_preset.c and apply() of      *)
(* face_main.c: what the buttons of the panel do to the settings of one    *)
(* render loop.  A button mask is the set of the buttons that are down.    *)
(***************************************************************************)
EXTENDS Integers, Sequences

NPRESETS == 6
FACE_NPALETTES == 3
NSPEEDS == 3
BRIGHT_MIN == 25
BRIGHT_MAX == 100
BRIGHT_STEP == 25

\* The presets in the order of the table, which counts from 0.
PresetNames == <<"vector", "pixel", "crab", "penguin", "bot", "graph">>

\* The expressions of the face.
StateNames == {"idle", "working", "editing", "waiting", "failed", "done"}

\* Checked in order, so the first pressed button of the list wins.
g_bindings == << <<"left", "preset prev">>, <<"right", "preset next">>,
                 <<"press", "preset reset">>, <<"up", "brighter">>, <<"down", "dimmer">>,
                 <<"A", "hold">>, <<"B", "palette">>, <<"X", "speed">>, <<"Y", "overlay">> >>

Buttons == {g_bindings[i][1] : i \in DOMAIN g_bindings}

\* Mutant: every poll acts on the buttons that are down.
LevelPressed(now, prev) == now

\* Only buttons that went from up to down count.
Pressed(now, prev) == now \ prev

\* The bindings whose button was pressed.
Hits(now, prev) == {i \in DOMAIN g_bindings : g_bindings[i][1] \in Pressed(now, prev)}

FirstHit(now, prev) ==
  CHOOSE i \in Hits(now, prev) : \A j \in Hits(now, prev) : i <= j

face_input_action(now, prev) ==
  IF Hits(now, prev) = {} THEN "none" ELSE g_bindings[FirstHit(now, prev)][2]

\* The C remainder, which has the sign of the left operand.
CRemainder(i, n) == IF i >= 0 THEN i % n ELSE -((-i) % n)

face_preset_wrap(index) ==
  LET r == CRemainder(index, NPRESETS)
  IN  IF r < 0 THEN r + NPRESETS ELSE r

\* Mutant: the index counts from 1.
find_from_one(name) ==
  IF \E i \in DOMAIN PresetNames : PresetNames[i] = name
  THEN CHOOSE i \in DOMAIN PresetNames : PresetNames[i] = name
  ELSE -1

\* The index of a preset name, and -1 for any other text.
face_preset_find(name) ==
  IF \E i \in DOMAIN PresetNames : PresetNames[i] = name
  THEN (CHOOSE i \in DOMAIN PresetNames : PresetNames[i] = name) - 1
  ELSE -1

\* The settings run() starts with.
FreshUi == [preset |-> 0, palette |-> 0, speed |-> 1, bright |-> BRIGHT_MAX,
            hold |-> FALSE, overlay |-> FALSE]

Uis == [preset : 0 .. NPRESETS - 1, palette : 0 .. FACE_NPALETTES - 1,
        speed : 0 .. NSPEEDS - 1, bright : BRIGHT_MIN .. BRIGHT_MAX,
        hold : BOOLEAN, overlay : BOOLEAN]

\* The settings after one action.
apply(ui, action) ==
  CASE action = "preset next" -> [ui EXCEPT !.preset = face_preset_wrap(@ + 1)]
    [] action = "preset prev" -> [ui EXCEPT !.preset = face_preset_wrap(@ - 1)]
    [] action = "preset reset" -> [ui EXCEPT !.preset = 0]
    [] action = "brighter" ->
         [ui EXCEPT !.bright = IF @ + BRIGHT_STEP > BRIGHT_MAX THEN BRIGHT_MAX ELSE @ + BRIGHT_STEP]
    [] action = "dimmer" ->
         [ui EXCEPT !.bright = IF @ - BRIGHT_STEP < BRIGHT_MIN THEN BRIGHT_MIN ELSE @ - BRIGHT_STEP]
    [] action = "hold" -> [ui EXCEPT !.hold = ~@]
    [] action = "palette" -> [ui EXCEPT !.palette = (@ + 1) % FACE_NPALETTES]
    [] action = "speed" -> [ui EXCEPT !.speed = (@ + 1) % NSPEEDS]
    [] action = "overlay" -> [ui EXCEPT !.overlay = ~@]
    [] OTHER -> ui
=============================================================================
