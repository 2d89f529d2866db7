----------------------------- MODULE FaceFrame -----------------------------
(***************************************************************************)
(* The frames of run() in face_main.c, and the benchmark: the clock of the *)
(* animation, the face, the drawing into the framebuffer, the scan for     *)
(* what has changed and the push of that to the panel.  The framebuffer    *)
(* and g_tracker belong to the address space, so several loops and         *)
(* benchmarks share them.                                                  *)
(*                                                                         *)
(* Nothing between the drawing and the scan waits, and tasks of one        *)
(* priority change only where one waits: a frame is one step.  The push is *)
(* another, a row at a time, as the bus is given up between rows.  The     *)
(* panel copies what is in the framebuffer then.                           *)
(***************************************************************************)
EXTENDS FaceAnim, FaceDirty

CONSTANTS Loops, Benches,     \* tasks that run `face` and `face -b`
          Wanted,             \* the states each loop may read
          Passed,             \* milliseconds that may pass between its frames
          Looks,              \* presets, palettes, brightness and the overlay
          Plain,              \* the look of the benchmark
          Render(_, _, _, _), \* the frame of a look, a state, a pose and a time
          AtPowerOn,          \* what the framebuffer and the panel may hold before
          BENCH_FRAMES,
          MaxStarts,          \* bound: tasks started
          MaxFaults           \* bound: pushes that fail

Tasks == Loops \cup Benches

ASSUME FrameAssumption ==
  /\ Loops \cap Benches = {}
  /\ Wanted \in [Loops -> SUBSET FaceStates] /\ Passed \in [Loops -> SUBSET Nat]
  /\ Plain \in Looks
  /\ \A look \in Looks, state \in FaceStates, pose \in Poses, now \in 0 .. ClockSize - 1 :
       Render(look, state, pose, now) \in Frames
  /\ AtPowerOn \subseteq Frames
  /\ BENCH_FRAMES \in Nat \ {0} /\ MaxStarts \in Nat /\ MaxFaults \in Nat

g_speeds == {50, 100, 200}

VARIABLES
  on,       \* the tasks that run
  anim_ms,  \* the clock of each loop's animation
  face,     \* its face
  fb,       \* the framebuffer
  g_tracker,
  panel,    \* what the panel shows
  box,      \* what each task has still to push
  turns,    \* pushes a benchmark has still to begin
  starts,   \* tasks started so far
  faults,   \* failed pushes so far
  age,      \* history: time since a loop's face entered its state, up to FACE_BLEND_MS
  wrapped,  \* history: its clock has wrapped since
  lost      \* history: pixels whose last push failed, or that were never pushed

vars == <<on, anim_ms, face, fb, g_tracker, panel, box, turns, starts, faults, age, wrapped, lost>>
clockVars == <<anim_ms, face, age, wrapped>>

Init ==
  /\ on = {}
  /\ anim_ms = [l \in Loops |-> 0]
  /\ face = [l \in Loops |-> face_init(0)]
  /\ fb \in AtPowerOn /\ panel \in AtPowerOn
  /\ g_tracker = [primed |-> FALSE, rows |-> fb, cols |-> fb]
  /\ box = [t \in Tasks |-> {}]
  /\ turns = [b \in Benches |-> 0]
  /\ starts = 0 /\ faults = 0
  /\ age = [l \in Loops |-> 0]
  /\ wrapped = [l \in Loops |-> FALSE]
  /\ lost = {p \in Pixels : panel[p] # fb[p]}

Starts(t) == t \notin on /\ starts < MaxStarts /\ on' = on \cup {t} /\ starts' = starts + 1

\* What drawing s and scanning it do, and the box the scan gives.
Draws(s, tracker) == fb' = s /\ g_tracker' = Scanned(tracker, s)

-----------------------------------------------------------------------------
(* A loop. *)

\* Mutant: the face starts on the real clock.
RealClock(now) == now

StartClock(now) == 0

LoopStart(l) ==
  /\ Starts(l)
  /\ anim_ms' = [anim_ms EXCEPT ![l] = 0]
  /\ \E now \in 0 .. ClockSize - 1 : face' = [face EXCEPT ![l] = face_init(StartClock(now))]
  /\ g_tracker' = face_tracker_reset(g_tracker)
  /\ age' = [age EXCEPT ![l] = 0]
  /\ wrapped' = [wrapped EXCEPT ![l] = FALSE]
  /\ UNCHANGED <<fb, panel, box, turns, faults, lost>>

\* A poll may bring another state; hold, and a frame without a poll, bring none.
Moved(l, word, now) ==
  IF word # face[l].state THEN face_set_state(face[l], word, now) ELSE face[l]

\* One pass of the loop, with the time that has passed, the settings, and the state the
\* poll has read, if it has.
Iterate(l, ms, speed, look, word) ==
  LET past == anim_ms[l] + (ms * speed) \div 100
      now == past % ClockSize
      f == face_tick(Moved(l, word, now), now)
      s == Render(look, f.state, f.pose, now)
      entered == word # face[l].state
      since == age[l] + (past - anim_ms[l])
  IN
  /\ anim_ms' = [anim_ms EXCEPT ![l] = now]
  /\ face' = [face EXCEPT ![l] = f]
  /\ Draws(s, g_tracker)
  /\ box' = [box EXCEPT ![l] = Dirty(g_tracker, s)]
  /\ age' = [age EXCEPT ![l] =
       IF entered THEN 0 ELSE IF since > FACE_BLEND_MS THEN FACE_BLEND_MS ELSE since]
  /\ wrapped' = [wrapped EXCEPT ![l] = ~entered /\ (@ \/ past >= ClockSize)]

Frame(l) ==
  /\ l \in on
  /\ box[l] = {}
  /\ \E ms \in Passed[l], speed \in g_speeds, look \in Looks, word \in Wanted[l] \cup {face[l].state} :
       Iterate(l, ms, speed, look, word)
  /\ UNCHANGED <<on, panel, turns, starts, faults, lost>>

\* The loop has read the quit word.
LoopStop(l) ==
  /\ l \in on
  /\ box[l] = {}
  /\ on' = on \ {l}
  /\ UNCHANGED <<clockVars, fb, g_tracker, panel, box, turns, starts, faults, lost>>

-----------------------------------------------------------------------------
(* A benchmark: it draws, scans what it has drawn, and pushes everything. *)

BenchStart(b) ==
  /\ Starts(b)
  /\ \E now \in 0 .. ClockSize - 1 :
       Draws(Render(Plain, "idle", target_pose("idle", now), now), face_tracker_reset(g_tracker))
  /\ box' = [box EXCEPT ![b] = Pixels]
  /\ turns' = [turns EXCEPT ![b] = BENCH_FRAMES - 1]
  /\ UNCHANGED <<clockVars, panel, faults, lost>>

BenchAgain(b) ==
  /\ b \in on
  /\ box[b] = {}
  /\ turns[b] > 0
  /\ box' = [box EXCEPT ![b] = Pixels]
  /\ turns' = [turns EXCEPT ![b] = @ - 1]
  /\ UNCHANGED <<clockVars, on, fb, g_tracker, panel, starts, faults, lost>>

BenchStop(b) ==
  /\ b \in on
  /\ box[b] = {}
  /\ turns[b] = 0
  /\ on' = on \ {b}
  /\ UNCHANGED <<clockVars, fb, g_tracker, panel, box, turns, starts, faults, lost>>

-----------------------------------------------------------------------------
(* push() and the driver. *)

Push(t) ==
  \E y \in 0 .. Height - 1 :
    LET row == {p \in box[t] : p[2] = y} IN
    /\ row # {}
    /\ panel' = [p \in Pixels |-> IF p \in row THEN fb[p] ELSE panel[p]]
    /\ box' = [box EXCEPT ![t] = @ \ row]
    /\ lost' = lost \ row
    /\ UNCHANGED <<clockVars, on, fb, g_tracker, turns, starts, faults>>

\* Nobody looks at the result of the ioctl.
PushFails(t) ==
  /\ box[t] # {}
  /\ faults < MaxFaults
  /\ faults' = faults + 1
  /\ box' = [box EXCEPT ![t] = {}]
  /\ lost' = lost \cup box[t]
  /\ UNCHANGED <<clockVars, on, fb, g_tracker, panel, turns, starts>>

Next ==
  \/ \E l \in Loops : LoopStart(l) \/ Frame(l) \/ LoopStop(l)
  \/ \E b \in Benches : BenchStart(b) \/ BenchAgain(b) \/ BenchStop(b)
  \/ \E t \in Tasks : Push(t) \/ PushFails(t)

Spec == Init /\ [][Next]_vars

-----------------------------------------------------------------------------

Faces == [state : FaceStates, state_ms : 0 .. ClockSize - 1, pose : Poses, blend_from : Poses]

\* Every variable has its type: in particular no blend leaves the range of a field.
TypeOK ==
  /\ on \subseteq Tasks
  /\ anim_ms \in [Loops -> 0 .. ClockSize - 1]
  /\ face \in [Loops -> Faces]
  /\ fb \in Frames
  /\ g_tracker \in [primed : BOOLEAN, rows : Frames, cols : Frames]
  /\ panel \in Frames
  /\ box \in [Tasks -> SUBSET Pixels]
  /\ turns \in [Benches -> 0 .. BENCH_FRAMES - 1]
  /\ starts \in 0 .. MaxStarts
  /\ faults \in 0 .. MaxFaults
  /\ age \in [Loops -> 0 .. FACE_BLEND_MS]
  /\ wrapped \in [Loops -> BOOLEAN]
  /\ lost \subseteq Pixels

Pending == UNION {box[t] : t \in Tasks}

\* The panel shows the framebuffer but for what some task is about to push and what a
\* failed push lost, whatever loops and benchmarks draw over each other's frames and
\* scan with the one tracker: no change is missed.
PanelFollows == \A p \in Pixels : panel[p] # fb[p] => p \in Pending \cup lost

Quiet == g_tracker.primed /\ Pending \cup lost = {}

\* The smallest box of even columns around some pixels.
Around(changed) ==
  {p \in Pixels : /\ \E c, d \in changed : c[2] <= p[2] /\ p[2] <= d[2]
                  /\ \E c, d \in changed : c[1] \div 2 <= p[1] \div 2 /\ p[1] \div 2 <= d[1] \div 2}

\* Where nothing is left to push, a frame pushes no more than the smallest box around
\* the pixels in which it differs from the panel.
PushesNoMore ==
  [][\A l \in Loops : box'[l] # box[l] /\ Quiet /\ Trackable =>
       box'[l] = Around({p \in Pixels : panel[p] # fb'[p]})]_vars

\* A change of state does not move the face in the frame in which it comes: the blend
\* starts from what is on the panel, in the middle of another blend too.
NoSnap ==
  [][\A l \in on \cap on' \cap Loops :
       face'[l].state # face[l].state => face'[l].pose = face[l].pose]_vars

\* A blend ends after FACE_BLEND_MS, and the face is as its state wants it from then
\* on, unless the clock has wrapped in that state.
Blended ==
  \A l \in on \cap Loops :
    age[l] = FACE_BLEND_MS /\ ~wrapped[l] =>
      face[l].pose = target_pose(face[l].state, anim_ms[l])
=============================================================================
