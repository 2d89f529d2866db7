------------------------------ MODULE FaceAnim ------------------------------
(***************************************************************************)
(* face.c: the pose of a face as a function of its state, of the time the  *)
(* state was entered and of the time, on a clock of milliseconds that      *)
(* wraps.  A pose gives each field a number between -FACE_UNIT and         *)
(* FACE_UNIT.  face.now_ms is written and never read, and is left out.     *)
(***************************************************************************)
EXTENDS Integers

CONSTANTS FACE_UNIT, FACE_BLEND_MS,
          BLINK_PERIOD_MS, BLINK_MS, BLINK_CLOSE_MS, BLINK_OFFSET_MS,
          QuarterSin,  \* g_quarter_sin: a quarter of a sine, in entries
          SineEntries, \* the last entry
          SineStep,    \* phases between two entries
          ClockSize,   \* 2^32: the clock counts modulo this
          FaceStates,  \* the expressions
          Fields,      \* the fields of a pose
          Rest, Swing, Period  \* of each field in each state: the middle, and the wave around it

ASSUME AnimAssumption ==
  /\ FACE_UNIT \in Nat \ {0} /\ FACE_BLEND_MS \in Nat \ {0} /\ ClockSize \in Nat \ {0}
  /\ BLINK_PERIOD_MS \in Nat \ {0} /\ BLINK_OFFSET_MS \in Nat
  /\ BLINK_CLOSE_MS \in Nat \ {0} /\ BLINK_MS \in Nat /\ BLINK_CLOSE_MS < BLINK_MS
  /\ SineStep \in Nat \ {0} /\ SineEntries \in Nat \ {0}
  /\ QuarterSin \in [0 .. SineEntries -> Int]
  /\ Rest \in [FaceStates -> [Fields -> Int]]
  /\ Swing \in [FaceStates -> [Fields -> Int]]
  /\ Period \in [FaceStates -> [Fields -> Nat \ {0}]]
  /\ "idle" \in FaceStates

\* Only these have no sign.
Unsigned == {"eye_open", "mouth_open", "glow"}

Low(x) == IF x \in Unsigned THEN 0 ELSE -FACE_UNIT

Poses == {p \in [Fields -> -FACE_UNIT .. FACE_UNIT] : \A x \in Fields : p[x] >= Low(x)}

\* C division, which drops the fraction.
Quotient(a, b) == IF a >= 0 THEN a \div b ELSE -((-a) \div b)

-----------------------------------------------------------------------------
(* The pose a state wants. *)

PHASE_QUARTER == SineStep * SineEntries
PHASE_FULL == 4 * PHASE_QUARTER

quarter(r) ==
  LET a == QuarterSin[r \div SineStep]
      b == QuarterSin[r \div SineStep + 1]
  IN IF r >= PHASE_QUARTER THEN FACE_UNIT ELSE a + Quotient((b - a) * (r % SineStep), SineStep)

sin_unit(phase) ==
  LET r == phase % PHASE_QUARTER
      q == (phase % PHASE_FULL) \div PHASE_QUARTER
      rising == quarter(IF q \in {0, 2} THEN r ELSE PHASE_QUARTER - r)
  IN IF q \in {0, 1} THEN rising ELSE -rising

wave(now, period, amplitude) ==
  Quotient(sin_unit(((now % period) * PHASE_FULL) \div period) * amplitude, FACE_UNIT)

\* Open but for a short dip once a period.
blink(now, open) ==
  LET p == ((now + BLINK_OFFSET_MS) % ClockSize) % BLINK_PERIOD_MS IN
  IF p >= BLINK_MS THEN open
  ELSE IF p < BLINK_CLOSE_MS THEN open - (open * p) \div BLINK_CLOSE_MS
  ELSE (open * (p - BLINK_CLOSE_MS)) \div (BLINK_MS - BLINK_CLOSE_MS)

\* Mutant: what a state wants is not brought into its range.
Unclamped(v, lo, hi) == v

clamp(v, lo, hi) == IF v < lo THEN lo ELSE IF v > hi THEN hi ELSE v

Drift(state, x, now) ==
  IF state = "idle" /\ x = "eye_open" THEN blink(now, FACE_UNIT)
  ELSE Rest[state][x] + wave(now, Period[state][x], Swing[state][x])

target_pose(state, now) == [x \in Fields |-> clamp(Drift(state, x, now), Low(x), FACE_UNIT)]

-----------------------------------------------------------------------------
(* The blend from one state to another. *)

mix(from, to, frac) == from + Quotient((to - from) * frac, FACE_UNIT)

\* No time has passed on a clock that went backwards.
Elapsed(f, now) == IF now >= f.state_ms THEN now - f.state_ms ELSE 0

Frac(elapsed) ==
  IF elapsed >= FACE_BLEND_MS THEN FACE_UNIT ELSE (elapsed * FACE_UNIT) \div FACE_BLEND_MS

Smoothstep(frac) ==
  (((frac * frac) \div FACE_UNIT) * (3 * FACE_UNIT - 2 * frac)) \div FACE_UNIT

face_init(now) ==
  [state |-> "idle", state_ms |-> now,
   pose |-> target_pose("idle", now), blend_from |-> target_pose("idle", now)]

\* Mutant: the blend starts from what the old state wants.
FromTarget(f, now) == target_pose(f.state, now)

BlendFrom(f, now) == f.pose

face_set_state(f, state, now) ==
  [f EXCEPT !.state = state, !.state_ms = now, !.blend_from = BlendFrom(f, now)]

face_tick(f, now) ==
  LET frac == Smoothstep(Frac(Elapsed(f, now)))
      to == target_pose(f.state, now)
  IN [f EXCEPT !.pose = [x \in Fields |-> mix(f.blend_from[x], to[x], frac)]]
=============================================================================
