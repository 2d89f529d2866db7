-------------------------- MODULE FaceFrame_proofs --------------------------
(***************************************************************************)
(* Proofs about FaceFrame, for every panel, pose table, clock, and number  *)
(* of loops and benchmarks.                                                *)
(***************************************************************************)
EXTENDS FaceFrame, TLAPS

\* Names for one value each.
USE DEF StartClock, BlendFrom, NewColumns

-----------------------------------------------------------------------------
(* Division. *)

\* Division undoes a multiplication, and rounds down.
LEMMA DivBetween ==
  ASSUME NEW a \in Nat, NEW b \in Nat \ {0}
  PROVE  a \div b \in Nat /\ (a \div b) * b <= a /\ a < (a \div b + 1) * b
<1>0. a \in Int /\ a >= 0 /\ b \in Int /\ b > 0
  OBVIOUS
<1>1. a \div b \in Int /\ a \div b >= 0
  BY <1>0
<1>2. (a \div b) * b <= a
  BY <1>0
<1>3. a < (a \div b + 1) * b
  BY <1>0
<1>4. QED
  BY <1>1, <1>2, <1>3
\* A quotient is bounded by what bounds its dividend in units of the divisor.
LEMMA DivBounded ==
  ASSUME NEW a \in Nat, NEW b \in Nat \ {0}, NEW c \in Nat, a <= c * b
  PROVE  a \div b \in 0 .. c
<1> DEFINE q == a \div b
<1>1. q \in Nat /\ q * b <= a
  BY DivBetween
<1> HIDE DEF q
<1>2. q * b <= c * b
  BY <1>1
<1>3. q <= c
  <2>1. SUFFICES ASSUME q >= c + 1 PROVE FALSE
    BY <1>1
  <2>2. q * b >= c * b + b
    BY <2>1, <1>1
  <2>3. c * b \in Int /\ q * b \in Int /\ b \in Int /\ b > 0
    BY <1>1
  <2>4. QED
    BY <2>2, <2>3, <1>2
<1>4. QED
  BY <1>1, <1>3 DEF q

LEMMA DivExact == \A c \in Nat, b \in Nat \ {0} : (c * b) \div b = c
<1> SUFFICES ASSUME NEW c \in Nat, NEW b \in Nat \ {0} PROVE (c * b) \div b = c
  OBVIOUS
<1> DEFINE q == (c * b) \div b
<1>1. c * b \in Nat
  OBVIOUS
<1>2. q \in Nat /\ q * b <= c * b /\ c * b < (q + 1) * b
  BY <1>1, DivBetween
<1> HIDE DEF q
<1>3. ~(q < c)
  <2>1. SUFFICES ASSUME q + 1 <= c PROVE FALSE
    BY <1>2
  <2>2. (q + 1) * b <= c * b
    BY <2>1, <1>2
  <2>3. QED
    BY <2>2, <1>2
<1>4. ~(q > c)
  <2>1. SUFFICES ASSUME q >= c + 1 PROVE FALSE
    BY <1>2
  <2>2. q * b >= (c + 1) * b
    BY <2>1, <1>2
  <2>3. QED
    BY <2>2, <1>2
<1>5. QED
  BY <1>2, <1>3, <1>4 DEF q

LEMMA QuotientType == \A a \in Int, b \in Nat \ {0} : Quotient(a, b) \in Int
BY DEF Quotient

-----------------------------------------------------------------------------
(* The blend. *)

\* The weight of the new pose, before it is smoothed, is between none and all.
LEMMA FracType == \A e \in Nat : Frac(e) \in 0 .. FACE_UNIT
<1> SUFFICES ASSUME NEW e \in Nat PROVE Frac(e) \in 0 .. FACE_UNIT
  OBVIOUS
<1>a. FACE_UNIT \in Nat \ {0} /\ FACE_BLEND_MS \in Nat \ {0}
  BY AnimAssumption
<1>1. CASE e >= FACE_BLEND_MS
  BY <1>1, <1>a DEF Frac
<1>2. CASE ~(e >= FACE_BLEND_MS)
  <2>1. e * FACE_UNIT \in Nat /\ e * FACE_UNIT <= FACE_UNIT * FACE_BLEND_MS
    BY <1>2, <1>a
  <2>2. (e * FACE_UNIT) \div FACE_BLEND_MS \in 0 .. FACE_UNIT
    BY <2>1, <1>a, DivBounded
  <2>3. QED
    BY <1>2, <2>2 DEF Frac
<1>3. QED
  BY <1>1, <1>2

\* Smoothing keeps it there.
LEMMA SmoothstepType == \A f \in 0 .. FACE_UNIT : Smoothstep(f) \in 0 .. FACE_UNIT
<1> SUFFICES ASSUME NEW f \in 0 .. FACE_UNIT PROVE Smoothstep(f) \in 0 .. FACE_UNIT
  OBVIOUS
<1> DEFINE U == FACE_UNIT
           q == (f * f) \div U
           g == 3 * U - 2 * f
<1>a. U \in Nat \ {0} /\ f \in Nat /\ f <= U
  BY AnimAssumption
<1>b. g \in Nat /\ g >= U
  BY <1>a
<1>1. q \in Nat /\ q * U <= f * f
  <2>1. f * f \in Nat
    BY <1>a
  <2>2. QED
    BY <2>1, <1>a, DivBetween
<1>e. Smoothstep(f) = (q * g) \div U
  BY DEF Smoothstep
<1>g. g = 3 * U - 2 * f
  OBVIOUS
<1> HIDE DEF U, q, g
<1>2. (f * f) * g <= (U * U) * U
  <2> DEFINE d == U - f
  <2>1. d \in Nat /\ f = U - d /\ g = U + 2 * d
    BY <1>a, <1>g
  <2> HIDE DEF d
  <2>2. (f * f) * g = (U * U) * U - (d * d) * (3 * U - 2 * d)
    BY <2>1, <1>a
  <2>3. 3 * U - 2 * d \in Nat
    BY <2>1, <1>a
  <2>4. d * d \in Nat
    BY <2>1
  <2>5. (d * d) * (3 * U - 2 * d) >= 0
    BY <2>3, <2>4
  <2>6. QED
    BY <2>2, <2>5, <2>4, <2>3, <1>a
<1>3. (q * U) * g <= (f * f) * g
  <2>1. f * f \in Nat /\ q * U \in Nat
    BY <1>a, <1>1
  <2>2. QED
    BY <2>1, <1>1, <1>b
<1>4. (q * g) * U <= (U * U) * U
  <2>1. (q * g) * U = (q * U) * g
    BY <1>1, <1>b, <1>a
  <2>2. QED
    BY <2>1, <1>3, <1>2, <1>1, <1>b, <1>a
<1>5. q * g <= U * U
  <2>1. q * g \in Nat /\ U * U \in Nat
    BY <1>1, <1>b, <1>a
  <2> DEFINE x == q * g
             y == U * U
  <2>2. x \in Nat /\ y \in Nat /\ x * U <= y * U
    BY <2>1, <1>4
  <2> HIDE DEF x, y
  <2>3. x <= y
    <3>1. SUFFICES ASSUME x >= y + 1 PROVE FALSE
      BY <2>2
    <3>2. x * U >= (y + 1) * U
      BY <3>1, <2>2, <1>a
    <3>3. QED
      BY <3>2, <2>2, <1>a
  <2>4. QED
    BY <2>3 DEF x, y
<1>6. q * g \in Nat
  BY <1>1, <1>b
<1>7. (q * g) \div U \in 0 .. U
  BY <1>5, <1>6, <1>a, DivBounded
<1>8. QED
  BY <1>7, <1>e DEF U

\* A blend begins with the old pose alone.
LEMMA NothingAtFirst == Smoothstep(Frac(0)) = 0
<1>a. FACE_UNIT \in Nat \ {0} /\ FACE_BLEND_MS \in Nat \ {0}
  BY AnimAssumption
<1>z. 0 \div FACE_BLEND_MS = 0 /\ 0 \div FACE_UNIT = 0
  BY <1>a, DivExact, 0 * FACE_BLEND_MS = 0, 0 * FACE_UNIT = 0, 0 \in Nat
<1>1. Frac(0) = 0
  BY <1>a, <1>z, 0 * FACE_UNIT = 0 DEF Frac
<1>2. Smoothstep(0) = 0
  <2>1. 0 * 0 = 0 /\ 0 * (3 * FACE_UNIT - 2 * 0) = 0
    BY <1>a
  <2>2. QED
    BY <2>1, <1>z DEF Smoothstep
<1>3. QED
  BY <1>1, <1>2

\* It ends with the new one alone.
LEMMA AllAtLast == \A e \in Nat : e >= FACE_BLEND_MS => Smoothstep(Frac(e)) = FACE_UNIT
<1> SUFFICES ASSUME NEW e \in Nat, e >= FACE_BLEND_MS
             PROVE  Smoothstep(Frac(e)) = FACE_UNIT
  OBVIOUS
<1>a. FACE_UNIT \in Nat \ {0}
  BY AnimAssumption
<1>1. Frac(e) = FACE_UNIT
  BY DEF Frac
<1>2. (FACE_UNIT * FACE_UNIT) \div FACE_UNIT = FACE_UNIT
  BY <1>a, DivExact
<1>3. 3 * FACE_UNIT - 2 * FACE_UNIT = FACE_UNIT
  BY <1>a
<1>4. QED
  BY <1>1, <1>2, <1>3 DEF Smoothstep

\* A quotient that is weighted by no more than all lies between nothing and the whole.
LEMMA WeightedQuotient ==
  ASSUME NEW a \in Nat, NEW f \in 0 .. FACE_UNIT
  PROVE  (a * f) \div FACE_UNIT \in 0 .. a
<1>a. FACE_UNIT \in Nat \ {0} /\ f \in Nat /\ f <= FACE_UNIT
  BY AnimAssumption
<1>1. a * f \in Nat /\ a * f <= a * FACE_UNIT
  BY <1>a
<1>2. QED
  BY <1>1, <1>a, DivBounded

\* A mixture lies between its parts.
LEMMA MixBetween ==
  ASSUME NEW from \in Int, NEW to \in Int, NEW f \in 0 .. FACE_UNIT
  PROVE  /\ mix(from, to, f) \in Int
         /\ from <= to => from <= mix(from, to, f) /\ mix(from, to, f) <= to
         /\ to <= from => to <= mix(from, to, f) /\ mix(from, to, f) <= from
<1>a. FACE_UNIT \in Nat \ {0} /\ f \in Nat
  BY AnimAssumption
<1>1. CASE from <= to
  <2> DEFINE a == to - from
  <2>1. a \in Nat /\ to = from + a
    BY <1>1
  <2>2. (a * f) \div FACE_UNIT \in 0 .. a
    BY <2>1, WeightedQuotient
  <2>3. a * f >= 0
    BY <2>1, <1>a
  <2>4. mix(from, to, f) = from + (a * f) \div FACE_UNIT
    BY <2>3 DEF mix, Quotient
  <2> HIDE DEF a
  <2> DEFINE m == (a * f) \div FACE_UNIT
  <2>5. m \in 0 .. a /\ mix(from, to, f) = from + m
    BY <2>2, <2>4
  <2> HIDE DEF m
  <2>6. QED
    BY <2>1, <2>5
<1>2. CASE to < from
  <2> DEFINE a == from - to
  <2>1. a \in Nat /\ to = from - a
    BY <1>2
  <2>2. (a * f) \div FACE_UNIT \in 0 .. a
    BY <2>1, WeightedQuotient
  <2>0. (to - from) * f = -(a * f)
    BY <1>a, <1>2
  <2>3. mix(from, to, f) = from - (a * f) \div FACE_UNIT
    <3>1. CASE a * f = 0
      <4>1. (to - from) * f = 0
        BY <2>0, <3>1
      <4>2. 0 \div FACE_UNIT = 0
        BY <1>a, DivExact, 0 * FACE_UNIT = 0, 0 \in Nat
      <4>3. QED
        BY <3>1, <4>1, <4>2 DEF mix, Quotient
    <3>2. CASE a * f # 0
      <4>1. a * f \in Nat
        BY <2>1, <1>a
      <4>2. ~((to - from) * f >= 0) /\ -((to - from) * f) = a * f
        BY <4>1, <3>2, <2>0
      <4>3. (a * f) \div FACE_UNIT \in Int
        BY <2>2
      <4>4. Quotient((to - from) * f, FACE_UNIT) = -((a * f) \div FACE_UNIT)
        BY <4>2 DEF Quotient
      <4>5. QED
        BY <4>3, <4>4 DEF mix
    <3>3. QED
      BY <3>1, <3>2
  <2> DEFINE m == (a * f) \div FACE_UNIT
  <2>4. m \in 0 .. a /\ mix(from, to, f) = from - m
    BY <2>2, <2>3
  <2> HIDE DEF m, a
  <2>5. QED
    BY <2>1, <2>4, <1>2
<1>3. QED
  BY <1>1, <1>2

\* Nothing of the new pose, or all of it.
LEMMA MixEnds ==
  ASSUME NEW from \in Int, NEW to \in Int
  PROVE  mix(from, to, 0) = from /\ mix(from, to, FACE_UNIT) = to
<1>a. FACE_UNIT \in Nat \ {0}
  BY AnimAssumption
<1>1. mix(from, to, 0) = from
  <2>1. 0 \in 0 .. FACE_UNIT
    BY <1>a
  <2>2. (to - from) * 0 = 0 /\ 0 \div FACE_UNIT = 0
    BY <1>a, DivExact, 0 * FACE_UNIT = 0, 0 \in Nat
  <2>3. QED
    BY <2>2 DEF mix, Quotient
<1>2. mix(from, to, FACE_UNIT) = to
  <2>1. CASE from <= to
    <3>1. to - from \in Nat
      BY <2>1
    <3>2. ((to - from) * FACE_UNIT) \div FACE_UNIT = to - from
      BY <3>1, <1>a, DivExact
    <3>3. (to - from) * FACE_UNIT >= 0
      BY <3>1, <1>a
    <3>4. QED
      BY <3>2, <3>3 DEF mix, Quotient
  <2>2. CASE to < from
    <3>1. from - to \in Nat \ {0}
      BY <2>2
    <3>2. ((from - to) * FACE_UNIT) \div FACE_UNIT = from - to
      BY <3>1, <1>a, DivExact
    <3>3. -((to - from) * FACE_UNIT) = (from - to) * FACE_UNIT
      BY <1>a
    <3>4. (from - to) * FACE_UNIT > 0
      BY <3>1, <1>a
    <3>5. ~((to - from) * FACE_UNIT >= 0)
      BY <3>3, <3>4, <1>a
    <3>6. Quotient((to - from) * FACE_UNIT, FACE_UNIT) = -(from - to)
      BY <3>2, <3>3, <3>5 DEF Quotient
    <3>7. QED
      BY <3>6 DEF mix
  <2>3. QED
    BY <2>1, <2>2
<1>3. QED
  BY <1>1, <1>2

-----------------------------------------------------------------------------
(* Poses and faces. *)

LEMMA ClampBetween ==
  ASSUME NEW v \in Int, NEW lo \in Int, NEW hi \in Int, lo <= hi
  PROVE  clamp(v, lo, hi) \in Int /\ lo <= clamp(v, lo, hi) /\ clamp(v, lo, hi) <= hi
BY DEF clamp

LEMMA LowType ==
  \A x : Low(x) \in Int /\ -FACE_UNIT <= Low(x) /\ Low(x) <= 0
BY AnimAssumption DEF Low

\* A pose, field by field.
LEMMA PoseFields ==
  ASSUME NEW p
  PROVE  p \in Poses <=>
           /\ p = [x \in Fields |-> p[x]]
           /\ \A x \in Fields : p[x] \in Int /\ Low(x) <= p[x] /\ p[x] <= FACE_UNIT
<1>a. FACE_UNIT \in Nat \ {0}
  BY AnimAssumption
<1>1. p \in [Fields -> -FACE_UNIT .. FACE_UNIT] <=>
        p = [x \in Fields |-> p[x]] /\ \A x \in Fields : p[x] \in -FACE_UNIT .. FACE_UNIT
  OBVIOUS
<1>2. ASSUME NEW x \in Fields
      PROVE  p[x] \in -FACE_UNIT .. FACE_UNIT /\ p[x] >= Low(x) <=>
               p[x] \in Int /\ Low(x) <= p[x] /\ p[x] <= FACE_UNIT
  BY <1>a, LowType
<1>3. QED
  BY <1>1, <1>2 DEF Poses

\* The sine and the waves are whole numbers.
LEMMA QuarterType == \A r \in Nat : quarter(r) \in Int
<1> SUFFICES ASSUME NEW r \in Nat PROVE quarter(r) \in Int
  OBVIOUS
<1>a. /\ FACE_UNIT \in Nat /\ SineStep \in Nat \ {0} /\ SineEntries \in Nat \ {0}
      /\ QuarterSin \in [0 .. SineEntries -> Int]
  BY AnimAssumption
<1> DEFINE i == r \div SineStep
<1>1. CASE r >= PHASE_QUARTER
  BY <1>1, <1>a DEF quarter
<1>2. CASE ~(r >= PHASE_QUARTER)
  <2>1. i \in Nat /\ i * SineStep <= r
    BY <1>a, DivBetween
  <2>2. r < SineStep * SineEntries
    BY <1>2, <1>a DEF PHASE_QUARTER
  <2>3. r % SineStep \in Int
    BY <1>a
  <2> HIDE DEF i
  <2>4. i < SineEntries
    <3>1. SUFFICES ASSUME i >= SineEntries PROVE FALSE
      BY <2>1, <1>a
    <3>2. i * SineStep >= SineEntries * SineStep
      BY <3>1, <2>1, <1>a
    <3>3. SineEntries * SineStep \in Int /\ SineEntries * SineStep = SineStep * SineEntries
      BY <1>a
    <3>4. QED
      BY <3>2, <3>3, <2>1, <2>2, <1>a
  <2>5. QuarterSin[i] \in Int /\ QuarterSin[i + 1] \in Int
    BY <2>1, <2>4, <1>a
  <2>6. (QuarterSin[i + 1] - QuarterSin[i]) * (r % SineStep) \in Int
    BY <2>3, <2>5
  <2>7. Quotient((QuarterSin[i + 1] - QuarterSin[i]) * (r % SineStep), SineStep) \in Int
    BY <2>6, <1>a, QuotientType
  <2>8. QED
    BY <2>5, <2>7, <1>2 DEF quarter, i
<1>3. QED
  BY <1>1, <1>2

LEMMA SineType == \A phase \in Nat : sin_unit(phase) \in Int
<1> SUFFICES ASSUME NEW phase \in Nat PROVE sin_unit(phase) \in Int
  OBVIOUS
<1>a. SineStep \in Nat \ {0} /\ SineEntries \in Nat \ {0}
  BY AnimAssumption
<1>1. PHASE_QUARTER \in Int /\ PHASE_QUARTER > 0
  BY <1>a DEF PHASE_QUARTER
<1> DEFINE r == phase % PHASE_QUARTER
           q == (phase % PHASE_FULL) \div PHASE_QUARTER
<1>2. r \in 0 .. PHASE_QUARTER - 1
  BY <1>1
<1>3. r \in Nat /\ PHASE_QUARTER - r \in Nat
  BY <1>1, <1>2
<1> HIDE DEF r
<1>4. quarter(r) \in Int /\ quarter(PHASE_QUARTER - r) \in Int
  BY <1>3, QuarterType
<1>5. quarter(IF q \in {0, 2} THEN r ELSE PHASE_QUARTER - r) \in Int
  BY <1>4
<1>6. QED
  BY <1>5 DEF sin_unit, r

LEMMA WaveType ==
  \A now \in Nat, period \in Nat \ {0}, amplitude \in Int : wave(now, period, amplitude) \in Int
<1> SUFFICES ASSUME NEW now \in Nat, NEW period \in Nat \ {0}, NEW amplitude \in Int
             PROVE  wave(now, period, amplitude) \in Int
  OBVIOUS
<1>a. SineStep \in Nat \ {0} /\ SineEntries \in Nat \ {0} /\ FACE_UNIT \in Nat \ {0}
  BY AnimAssumption
<1>1. PHASE_FULL \in Nat
  BY <1>a DEF PHASE_FULL, PHASE_QUARTER
<1>2. now % period \in Nat
  OBVIOUS
<1>3. (now % period) * PHASE_FULL \in Nat
  BY <1>1, <1>2
<1>4. ((now % period) * PHASE_FULL) \div period \in Nat
  BY <1>3, DivBetween
<1>5. sin_unit(((now % period) * PHASE_FULL) \div period) * amplitude \in Int
  BY <1>4, SineType
<1>6. QED
  BY <1>5, <1>a, QuotientType DEF wave

LEMMA BlinkType == \A now \in Nat, open \in Nat : blink(now, open) \in Int
<1> SUFFICES ASSUME NEW now \in Nat, NEW open \in Nat PROVE blink(now, open) \in Int
  OBVIOUS
<1>a. /\ ClockSize \in Nat \ {0} /\ BLINK_PERIOD_MS \in Nat \ {0} /\ BLINK_OFFSET_MS \in Nat
      /\ BLINK_CLOSE_MS \in Nat \ {0} /\ BLINK_MS \in Nat /\ BLINK_CLOSE_MS < BLINK_MS
  BY AnimAssumption
<1> DEFINE p == ((now + BLINK_OFFSET_MS) % ClockSize) % BLINK_PERIOD_MS
<1>1. (now + BLINK_OFFSET_MS) % ClockSize \in Nat
  BY <1>a
<1>2. p \in Nat
  BY <1>1, <1>a
<1>e. blink(now, open) =
        IF p >= BLINK_MS THEN open
        ELSE IF p < BLINK_CLOSE_MS THEN open - (open * p) \div BLINK_CLOSE_MS
        ELSE (open * (p - BLINK_CLOSE_MS)) \div (BLINK_MS - BLINK_CLOSE_MS)
  BY DEF blink
<1> HIDE DEF p
<1>3. open * p \in Nat
  BY <1>2
<1>4. (open * p) \div BLINK_CLOSE_MS \in Nat
  BY <1>3, <1>a, DivBetween
<1>5. CASE p >= BLINK_CLOSE_MS
  <2>1. p - BLINK_CLOSE_MS \in Nat /\ BLINK_MS - BLINK_CLOSE_MS \in Nat \ {0}
    BY <1>5, <1>2, <1>a
  <2>2. open * (p - BLINK_CLOSE_MS) \in Nat
    BY <2>1
  <2>3. (open * (p - BLINK_CLOSE_MS)) \div (BLINK_MS - BLINK_CLOSE_MS) \in Nat
    BY <2>1, <2>2, DivBetween
  <2>4. QED
    BY <2>3, <1>4, <1>e
<1>6. CASE p < BLINK_CLOSE_MS
  BY <1>6, <1>4, <1>2, <1>a, <1>e
<1>7. QED
  BY <1>5, <1>6, <1>2, <1>a

\* What a state wants is a pose.
LEMMA TargetType ==
  \A state \in FaceStates, now \in Nat : target_pose(state, now) \in Poses
<1> SUFFICES ASSUME NEW state \in FaceStates, NEW now \in Nat
             PROVE  target_pose(state, now) \in Poses
  OBVIOUS
<1>a. /\ FACE_UNIT \in Nat \ {0}
      /\ Rest \in [FaceStates -> [Fields -> Int]]
      /\ Swing \in [FaceStates -> [Fields -> Int]]
      /\ Period \in [FaceStates -> [Fields -> Nat \ {0}]]
  BY AnimAssumption
<1>1. ASSUME NEW x \in Fields PROVE Drift(state, x, now) \in Int
  <2>1. blink(now, FACE_UNIT) \in Int
    BY <1>a, BlinkType
  <2>2. Rest[state][x] \in Int /\ Swing[state][x] \in Int /\ Period[state][x] \in Nat \ {0}
    BY <1>a
  <2>3. wave(now, Period[state][x], Swing[state][x]) \in Int
    BY <2>2, WaveType
  <2>4. QED
    BY <2>1, <2>2, <2>3 DEF Drift
<1>2. ASSUME NEW x \in Fields
      PROVE  /\ clamp(Drift(state, x, now), Low(x), FACE_UNIT) \in Int
             /\ Low(x) <= clamp(Drift(state, x, now), Low(x), FACE_UNIT)
             /\ clamp(Drift(state, x, now), Low(x), FACE_UNIT) <= FACE_UNIT
  <2>1. Drift(state, x, now) \in Int /\ Low(x) \in Int /\ FACE_UNIT \in Int /\ Low(x) <= FACE_UNIT
    BY <1>1, <1>a, LowType
  <2>2. QED
    BY <2>1, ClampBetween
<1>3. QED
  <2> DEFINE p == target_pose(state, now)
  <2>1. p = [x \in Fields |-> p[x]]
    BY DEF target_pose
  <2>2. \A x \in Fields : p[x] = clamp(Drift(state, x, now), Low(x), FACE_UNIT)
    BY DEF target_pose
  <2> HIDE DEF p
  <2>3. p \in Poses
    BY <2>1, <2>2, <1>2, PoseFields
  <2>4. QED
    BY <2>3 DEF p

\* A mixture of two poses is a pose: no blend leaves the range of a field.
LEMMA MixPose ==
  ASSUME NEW from \in Poses, NEW to \in Poses, NEW f \in 0 .. FACE_UNIT
  PROVE  [x \in Fields |-> mix(from[x], to[x], f)] \in Poses
<1> DEFINE p == [x \in Fields |-> mix(from[x], to[x], f)]
<1>1. p = [x \in Fields |-> p[x]]
  OBVIOUS
<1>2. ASSUME NEW x \in Fields
      PROVE  p[x] \in Int /\ Low(x) <= p[x] /\ p[x] <= FACE_UNIT
  <2>a. FACE_UNIT \in Nat \ {0} /\ Low(x) \in Int
    BY AnimAssumption, LowType
  <2>1. /\ from[x] \in Int /\ Low(x) <= from[x] /\ from[x] <= FACE_UNIT
        /\ to[x] \in Int /\ Low(x) <= to[x] /\ to[x] <= FACE_UNIT
    BY PoseFields
  <2>2. p[x] = mix(from[x], to[x], f)
    OBVIOUS
  <2> HIDE DEF p
  <2> DEFINE m == mix(from[x], to[x], f)
  <2>3. /\ m \in Int
        /\ from[x] <= to[x] => from[x] <= m /\ m <= to[x]
        /\ to[x] <= from[x] => to[x] <= m /\ m <= from[x]
    BY <2>1, MixBetween
  <2> HIDE DEF m
  <2>4. m \in Int /\ Low(x) <= m /\ m <= FACE_UNIT
    BY <2>1, <2>3, <2>a
  <2>5. QED
    BY <2>2, <2>4 DEF m
<1> HIDE DEF p
<1>3. p \in Poses
  BY <1>1, <1>2, PoseFields
<1>4. QED
  BY <1>3 DEF p

Clock == 0 .. ClockSize - 1

LEMMA ClockType == 0 \in Clock /\ Clock \subseteq Nat
BY AnimAssumption DEF Clock

LEMMA InitialFace == \A now \in Clock : face_init(now) \in Faces
BY TargetType, ClockType, AnimAssumption DEF face_init, Faces, Clock

LEMMA EnteredFace ==
  \A f \in Faces, state \in FaceStates, now \in Clock : face_set_state(f, state, now) \in Faces
BY DEF face_set_state, Faces, Clock

LEMMA ElapsedType == \A f \in Faces, now \in Clock : Elapsed(f, now) \in Nat
BY ClockType DEF Elapsed, Faces, Clock

\* A tick changes the pose only, to a mixture of where the blend began and the target.
LEMMA TickedFace ==
  ASSUME NEW f \in Faces, NEW now \in Clock
  PROVE  /\ face_tick(f, now) \in Faces
         /\ face_tick(f, now).state = f.state
         /\ face_tick(f, now).state_ms = f.state_ms
         /\ face_tick(f, now).pose =
              [x \in Fields |-> mix(f.blend_from[x], target_pose(f.state, now)[x],
                                    Smoothstep(Frac(Elapsed(f, now))))]
<1> DEFINE pose == [x \in Fields |-> mix(f.blend_from[x], target_pose(f.state, now)[x],
                                         Smoothstep(Frac(Elapsed(f, now))))]
<1>1. f.blend_from \in Poses /\ target_pose(f.state, now) \in Poses
  BY TargetType, ClockType DEF Faces
<1>2. Smoothstep(Frac(Elapsed(f, now))) \in 0 .. FACE_UNIT
  BY ElapsedType, FracType, SmoothstepType
<1>3. pose \in Poses
  BY <1>1, <1>2, MixPose
<1>4. face_tick(f, now) = [f EXCEPT !.pose = pose]
  BY DEF face_tick
<1> HIDE DEF pose
<1>5. [f EXCEPT !.pose = pose] \in Faces
  BY <1>3 DEF Faces
<1>6. QED
  BY <1>4, <1>5 DEF Faces, pose

\* In the frame in which a state comes, the pose stays.
LEMMA EnteredPose ==
  ASSUME NEW f \in Faces, NEW state \in FaceStates, NEW now \in Clock
  PROVE  face_tick(face_set_state(f, state, now), now).pose = f.pose
<1> DEFINE g == face_set_state(f, state, now)
<1>1. g \in Faces /\ g.state = state /\ g.state_ms = now /\ g.blend_from = f.pose
  BY EnteredFace DEF face_set_state, Faces
<1> HIDE DEF g
<1>2. Elapsed(g, now) = 0
  BY <1>1, ClockType DEF Elapsed
<1>3. Smoothstep(Frac(Elapsed(g, now))) = 0
  BY <1>2, NothingAtFirst
<1>4. target_pose(state, now) \in Poses /\ f.pose \in Poses
  BY TargetType, ClockType DEF Faces
<1>5. \A x \in Fields : mix(f.pose[x], target_pose(state, now)[x], 0) = f.pose[x]
  <2> TAKE x \in Fields
  <2>1. f.pose[x] \in Int /\ target_pose(state, now)[x] \in Int
    BY <1>4, PoseFields
  <2>2. QED
    BY <2>1, MixEnds
<1>6. f.pose = [x \in Fields |-> f.pose[x]]
  BY <1>4, PoseFields
<1>7. QED
  BY <1>1, <1>3, <1>5, <1>6, TickedFace DEF g

\* After the time of a blend the pose is the one its state wants.
LEMMA BlendedPose ==
  ASSUME NEW f \in Faces, NEW now \in Clock, now - f.state_ms >= FACE_BLEND_MS
  PROVE  face_tick(f, now).pose = target_pose(f.state, now)
<1>1. now \in Nat /\ f.state_ms \in Nat /\ FACE_BLEND_MS \in Nat \ {0}
  BY ClockType, AnimAssumption DEF Faces
<1>2. Elapsed(f, now) \in Nat /\ Elapsed(f, now) >= FACE_BLEND_MS
  BY <1>1 DEF Elapsed
<1>3. Smoothstep(Frac(Elapsed(f, now))) = FACE_UNIT
  BY <1>2, AllAtLast
<1> DEFINE to == target_pose(f.state, now)
<1>4. to \in Poses /\ f.blend_from \in Poses
  BY TargetType, ClockType DEF Faces
<1>e. face_tick(f, now).pose = [x \in Fields |-> mix(f.blend_from[x], to[x], FACE_UNIT)]
  BY <1>3, TickedFace
<1> HIDE DEF to
<1>5. \A x \in Fields : mix(f.blend_from[x], to[x], FACE_UNIT) = to[x]
  <2> TAKE x \in Fields
  <2>1. f.blend_from[x] \in Int /\ to[x] \in Int
    BY <1>4, PoseFields
  <2>2. QED
    BY <2>1, MixEnds
<1>6. to = [x \in Fields |-> to[x]]
  BY <1>4, PoseFields
<1>7. QED
  BY <1>e, <1>5, <1>6 DEF to

-----------------------------------------------------------------------------
(* Frames. *)

Trackers == [primed : BOOLEAN, rows : Frames, cols : Frames]

LEMMA ScannedType ==
  \A t \in Trackers, s \in Frames : Scanned(t, s) \in Trackers
BY DEF Scanned, Trackers

LEMMA ResetType == \A t \in Trackers : face_tracker_reset(t) \in Trackers
BY DEF face_tracker_reset, Trackers

LEMMA DirtyType == \A t, s : Dirty(t, s) \subseteq Pixels
BY DEF Dirty, Box

LEMMA RenderType ==
  \A look \in Looks, state \in FaceStates, pose \in Poses, now \in Clock :
    Render(look, state, pose, now) \in Frames
BY FrameAssumption DEF Clock

\* What one frame of a loop has computed.
Computed(l, look, word, past, now, f, s) ==
  /\ past \in Nat /\ past >= anim_ms[l] /\ now \in Clock
  /\ past < ClockSize => now = past
  /\ Moved(l, word, now) \in Faces /\ f \in Faces /\ s \in Frames
  /\ f = face_tick(Moved(l, word, now), now)
  /\ anim_ms' = [anim_ms EXCEPT ![l] = now]
  /\ face' = [face EXCEPT ![l] = f]
  /\ fb' = s
  /\ g_tracker' = Scanned(g_tracker, s)
  /\ box' = [box EXCEPT ![l] = Dirty(g_tracker, s)]
  /\ age' = [age EXCEPT ![l] =
       IF word # face[l].state THEN 0
       ELSE IF age[l] + (past - anim_ms[l]) > FACE_BLEND_MS THEN FACE_BLEND_MS
       ELSE age[l] + (past - anim_ms[l])]
  /\ wrapped' = [wrapped EXCEPT ![l] = word = face[l].state /\ (wrapped[l] \/ past >= ClockSize)]

LEMMA FrameComputes ==
  ASSUME TypeOK, NEW l \in Loops, Frame(l)
  PROVE  \E look \in Looks, word \in FaceStates : \E past, now, f, s :
           Computed(l, look, word, past, now, f, s)
<1>1. Passed[l] \subseteq Nat /\ Wanted[l] \cup {face[l].state} \subseteq FaceStates
  BY FrameAssumption DEF TypeOK, Faces
<1>2. PICK ms \in Nat, speed \in g_speeds, look \in Looks, word \in FaceStates :
        Iterate(l, ms, speed, look, word)
  BY <1>1 DEF Frame
<1> DEFINE past == anim_ms[l] + (ms * speed) \div 100
           now == past % ClockSize
           f == face_tick(Moved(l, word, now), now)
           s == Render(look, f.state, f.pose, now)
<1>a. /\ anim_ms[l] \in Nat /\ anim_ms[l] \in Clock /\ face[l] \in Faces
      /\ ClockSize \in Nat \ {0} /\ speed \in Nat
  BY ClockType, AnimAssumption DEF TypeOK, g_speeds, Clock
<1>3. past \in Nat /\ past >= anim_ms[l]
  <2>1. ms * speed \in Nat
    BY <1>a
  <2>2. (ms * speed) \div 100 \in Nat
    BY <2>1, DivBetween
  <2>3. QED
    BY <2>2, <1>a
<1>u. /\ anim_ms' = [anim_ms EXCEPT ![l] = now]
      /\ face' = [face EXCEPT ![l] = f]
      /\ fb' = s
      /\ g_tracker' = Scanned(g_tracker, s)
      /\ box' = [box EXCEPT ![l] = Dirty(g_tracker, s)]
  BY <1>2 DEF Iterate, Draws
<1>v. age' = [age EXCEPT ![l] =
       IF word # face[l].state THEN 0
       ELSE IF age[l] + (past - anim_ms[l]) > FACE_BLEND_MS THEN FACE_BLEND_MS
       ELSE age[l] + (past - anim_ms[l])]
  BY <1>2 DEF Iterate
<1>w. wrapped' = [wrapped EXCEPT ![l] = word = face[l].state /\ (wrapped[l] \/ past >= ClockSize)]
  BY <1>2 DEF Iterate
<1> HIDE DEF past
<1>4. now \in Clock /\ (past < ClockSize => now = past)
  BY <1>3, <1>a DEF Clock
<1> HIDE DEF now
<1>5. Moved(l, word, now) \in Faces
  BY <1>a, <1>4, EnteredFace DEF Moved
<1>6. f \in Faces
  BY <1>4, <1>5, TickedFace
<1>7. f = face_tick(Moved(l, word, now), now)
  OBVIOUS
<1> HIDE DEF f
<1>8. s \in Frames
  <2>1. f.state \in FaceStates /\ f.pose \in Poses
    BY <1>6 DEF Faces
  <2>2. QED
    BY <2>1, <1>4, RenderType
<1> HIDE DEF s
<1>9. Computed(l, look, word, past, now, f, s)
  BY <1>3, <1>4, <1>5, <1>6, <1>7, <1>8, <1>u, <1>v, <1>w DEF Computed
<1>10. QED
  BY <1>9

-----------------------------------------------------------------------------
(* Type correctness. *)

\* The cases a step splits into.
LEMMA NextCases ==
  ASSUME Next
  PROVE  \/ \E l \in Loops : LoopStart(l)
         \/ \E l \in Loops : Frame(l)
         \/ \E l \in Loops : LoopStop(l)
         \/ \E b \in Benches : BenchStart(b)
         \/ \E b \in Benches : BenchAgain(b)
         \/ \E b \in Benches : BenchStop(b)
         \/ \E t \in Tasks : Push(t)
         \/ \E t \in Tasks : PushFails(t)
BY DEF Next

LEMMA TypeInit == Init => TypeOK
<1> SUFFICES ASSUME Init PROVE TypeOK
  OBVIOUS
<1>1. /\ FACE_BLEND_MS \in Nat /\ BENCH_FRAMES \in Nat \ {0} /\ MaxStarts \in Nat
      /\ MaxFaults \in Nat /\ AtPowerOn \subseteq Frames
  BY AnimAssumption, FrameAssumption
<1>2. face_init(0) \in Faces /\ 0 \in 0 .. ClockSize - 1
  BY InitialFace, ClockType DEF Clock
<1>3. QED
  BY <1>1, <1>2 DEF Init, TypeOK

LEMMA TypeFrame == ASSUME TypeOK, NEW l \in Loops, Frame(l) PROVE TypeOK'
<1>0. PICK look \in Looks, word \in FaceStates : \E past, now, f, s :
        Computed(l, look, word, past, now, f, s)
  BY FrameComputes
<1>1. PICK past, now, f, s : Computed(l, look, word, past, now, f, s)
  BY <1>0
<1>2. UNCHANGED <<on, panel, turns, starts, faults, lost>>
  BY DEF Frame
<1>3. now \in 0 .. ClockSize - 1 /\ f \in Faces /\ s \in Frames
  BY <1>1 DEF Computed, Clock
<1>4. anim_ms' \in [Loops -> 0 .. ClockSize - 1]
  BY <1>1, <1>3 DEF Computed, TypeOK
<1>5. face' \in [Loops -> Faces]
  BY <1>1, <1>3 DEF Computed, TypeOK
<1>6. fb' \in Frames /\ g_tracker' \in Trackers
  BY <1>1, <1>3, ScannedType DEF Computed, TypeOK, Trackers
<1>7. box' \in [Tasks -> SUBSET Pixels]
  BY <1>1, DirtyType DEF Computed, TypeOK, Tasks
<1>8. age' \in [Loops -> 0 .. FACE_BLEND_MS]
  <2>1. /\ FACE_BLEND_MS \in Nat /\ age[l] \in 0 .. FACE_BLEND_MS
        /\ past \in Nat /\ anim_ms[l] \in Nat /\ past >= anim_ms[l]
    BY <1>1, AnimAssumption, ClockType DEF Computed, TypeOK, Clock
  <2>2. (IF word # face[l].state THEN 0
         ELSE IF age[l] + (past - anim_ms[l]) > FACE_BLEND_MS THEN FACE_BLEND_MS
         ELSE age[l] + (past - anim_ms[l])) \in 0 .. FACE_BLEND_MS
    BY <2>1
  <2>3. QED
    BY <1>1, <2>2 DEF Computed, TypeOK
<1>9. wrapped' \in [Loops -> BOOLEAN]
  BY <1>1 DEF Computed, TypeOK
<1>10. QED
  BY <1>2, <1>4, <1>5, <1>6, <1>7, <1>8, <1>9 DEF TypeOK, Trackers

LEMMA TypeStep == TypeOK /\ [Next]_vars => TypeOK'
<1> SUFFICES ASSUME TypeOK, [Next]_vars PROVE TypeOK'
  OBVIOUS
<1>a. starts \in Nat /\ faults \in Nat /\ MaxStarts \in Nat /\ MaxFaults \in Nat
  BY FrameAssumption DEF TypeOK
<1>b. ASSUME NEW t, Starts(t), t \in Tasks
      PROVE  on' \subseteq Tasks /\ starts' \in 0 .. MaxStarts
  BY <1>a, <1>b DEF Starts, TypeOK
<1>1. ASSUME NEW l \in Loops, LoopStart(l) PROVE TypeOK'
  <2>1. on' \subseteq Tasks /\ starts' \in 0 .. MaxStarts
    BY <1>1, <1>b DEF LoopStart, Tasks
  <2>2. anim_ms' \in [Loops -> 0 .. ClockSize - 1]
    BY <1>1, ClockType DEF LoopStart, TypeOK, Clock
  <2>3. face' \in [Loops -> Faces]
    <3>1. face_init(0) \in Faces /\ face' = [face EXCEPT ![l] = face_init(0)]
      BY <1>1, InitialFace, ClockType DEF LoopStart
    <3>2. QED
      BY <3>1 DEF TypeOK
  <2>4. g_tracker' \in Trackers
    BY <1>1, ResetType DEF LoopStart, TypeOK, Trackers
  <2>5. age' \in [Loops -> 0 .. FACE_BLEND_MS] /\ wrapped' \in [Loops -> BOOLEAN]
    BY <1>1, AnimAssumption DEF LoopStart, TypeOK
  <2>6. QED
    BY <1>1, <2>1, <2>2, <2>3, <2>4, <2>5 DEF LoopStart, TypeOK, Trackers
<1>2. ASSUME NEW l \in Loops, Frame(l) PROVE TypeOK'
  BY <1>2, TypeFrame
<1>3. ASSUME NEW l \in Loops, LoopStop(l) PROVE TypeOK'
  BY <1>3 DEF LoopStop, clockVars, TypeOK
<1>4. ASSUME NEW b \in Benches, BenchStart(b) PROVE TypeOK'
  <2>1. on' \subseteq Tasks /\ starts' \in 0 .. MaxStarts
    BY <1>4, <1>b DEF BenchStart, Tasks
  <2>2. fb' \in Frames /\ g_tracker' \in Trackers
    <3>1. PICK now \in Clock :
            Draws(Render(Plain, "idle", target_pose("idle", now), now), face_tracker_reset(g_tracker))
      BY <1>4 DEF BenchStart, Clock
    <3>2. Render(Plain, "idle", target_pose("idle", now), now) \in Frames
      <4>1. Plain \in Looks /\ "idle" \in FaceStates
        BY FrameAssumption, AnimAssumption
      <4>2. target_pose("idle", now) \in Poses
        BY <4>1, TargetType, ClockType
      <4>3. QED
        BY <4>1, <4>2, RenderType
    <3>3. face_tracker_reset(g_tracker) \in Trackers
      BY ResetType DEF TypeOK, Trackers
    <3>4. QED
      BY <3>1, <3>2, <3>3, ScannedType DEF Draws
  <2>3. box' \in [Tasks -> SUBSET Pixels]
    BY <1>4 DEF BenchStart, TypeOK, Tasks
  <2>4. turns' \in [Benches -> 0 .. BENCH_FRAMES - 1]
    <3>1. BENCH_FRAMES - 1 \in 0 .. BENCH_FRAMES - 1
      BY FrameAssumption
    <3>2. QED
      BY <1>4, <3>1 DEF BenchStart, TypeOK
  <2>5. QED
    BY <1>4, <2>1, <2>2, <2>3, <2>4 DEF BenchStart, clockVars, TypeOK, Trackers
<1>5. ASSUME NEW b \in Benches, BenchAgain(b) PROVE TypeOK'
  <2>1. turns[b] \in 0 .. BENCH_FRAMES - 1 /\ turns[b] > 0 /\ BENCH_FRAMES \in Nat
    BY <1>5, FrameAssumption DEF BenchAgain, TypeOK
  <2>2. turns[b] - 1 \in 0 .. BENCH_FRAMES - 1
    BY <2>1
  <2>3. turns' \in [Benches -> 0 .. BENCH_FRAMES - 1]
    BY <1>5, <2>2 DEF BenchAgain, TypeOK
  <2>4. box' \in [Tasks -> SUBSET Pixels]
    BY <1>5 DEF BenchAgain, TypeOK, Tasks
  <2>5. QED
    BY <1>5, <2>3, <2>4 DEF BenchAgain, clockVars, TypeOK
<1>6. ASSUME NEW b \in Benches, BenchStop(b) PROVE TypeOK'
  BY <1>6 DEF BenchStop, clockVars, TypeOK
<1>7. ASSUME NEW t \in Tasks, Push(t) PROVE TypeOK'
  <2>1. PICK y \in 0 .. Height - 1 :
          LET row == {p \in box[t] : p[2] = y} IN
          /\ panel' = [p \in Pixels |-> IF p \in row THEN fb[p] ELSE panel[p]]
          /\ box' = [box EXCEPT ![t] = @ \ row]
          /\ lost' = lost \ row
    BY <1>7 DEF Push
  <2>2. panel' \in Frames
    BY <2>1 DEF TypeOK, Frames
  <2>3. box' \in [Tasks -> SUBSET Pixels] /\ lost' \subseteq Pixels
    BY <2>1 DEF TypeOK
  <2>4. QED
    BY <1>7, <2>2, <2>3 DEF Push, clockVars, TypeOK
<1>8. ASSUME NEW t \in Tasks, PushFails(t) PROVE TypeOK'
  <2>1. faults' \in 0 .. MaxFaults
    BY <1>8, <1>a DEF PushFails
  <2>2. box' \in [Tasks -> SUBSET Pixels] /\ lost' \subseteq Pixels
    BY <1>8 DEF PushFails, TypeOK
  <2>3. QED
    BY <1>8, <2>1, <2>2 DEF PushFails, clockVars, TypeOK
<1>9. CASE UNCHANGED vars
  BY <1>9 DEF vars, TypeOK
<1>10. QED
  BY <1>1, <1>2, <1>3, <1>4, <1>5, <1>6, <1>7, <1>8, <1>9, NextCases

\* Every reachable state is in the type invariant: whatever states follow each other and
\* whenever, no blend of face.c leaves the range of a field of the pose.
THEOREM TypeCorrect == Spec => []TypeOK
BY TypeInit, TypeStep, PTL DEF Spec

-----------------------------------------------------------------------------
(* The panel follows the framebuffer. *)

\* A tracker that has a record has that of the frame in the framebuffer, whichever
\* task scanned it; of a panel that cannot be tracked it has none.
TrackerInv ==
  g_tracker.primed => Trackable /\ g_tracker.rows = fb /\ g_tracker.cols = fb

\* A scan leaves the record of what it scans.
LEMMA ScanRecords ==
  ASSUME NEW s, NEW t \in Trackers, t.primed => Trackable, fb' = s, g_tracker' = Scanned(t, s)
  PROVE  TrackerInv'
<1>1. CASE Trackable
  BY <1>1 DEF TrackerInv, Scanned
<1>2. CASE ~Trackable
  BY <1>2 DEF TrackerInv, Scanned
<1>3. QED
  BY <1>1, <1>2

LEMMA TrackerStep == TypeOK /\ TrackerInv /\ [Next]_vars => TrackerInv'
<1> SUFFICES ASSUME TypeOK, TrackerInv, [Next]_vars PROVE TrackerInv'
  OBVIOUS
<1>a. g_tracker \in Trackers /\ (g_tracker.primed => Trackable)
  BY DEF TypeOK, Trackers, TrackerInv
<1>1. ASSUME NEW l \in Loops, LoopStart(l) PROVE TrackerInv'
  BY <1>1, <1>a DEF LoopStart, face_tracker_reset, TrackerInv, Trackers
<1>2. ASSUME NEW l \in Loops, Frame(l) PROVE TrackerInv'
  <2>1. PICK s : fb' = s /\ g_tracker' = Scanned(g_tracker, s)
    BY <1>2, FrameComputes DEF Computed
  <2>2. QED
    BY <2>1, <1>a, ScanRecords
<1>3. ASSUME NEW b \in Benches, BenchStart(b) PROVE TrackerInv'
  <2>1. PICK s : fb' = s /\ g_tracker' = Scanned(face_tracker_reset(g_tracker), s)
    BY <1>3 DEF BenchStart, Draws
  <2>2. /\ face_tracker_reset(g_tracker) \in Trackers
        /\ ~face_tracker_reset(g_tracker).primed
    BY <1>a, ResetType DEF face_tracker_reset, Trackers
  <2>3. QED
    BY <2>1, <2>2, ScanRecords
<1>4. CASE UNCHANGED <<fb, g_tracker>>
  BY <1>4 DEF TrackerInv
<1>5. ASSUME NEW l \in Loops, LoopStop(l) PROVE TrackerInv'
  BY <1>5, <1>4 DEF LoopStop
<1>6. ASSUME NEW b \in Benches, BenchAgain(b) \/ BenchStop(b) PROVE TrackerInv'
  BY <1>6, <1>4 DEF BenchAgain, BenchStop
<1>7. ASSUME NEW t \in Tasks, Push(t) \/ PushFails(t) PROVE TrackerInv'
  BY <1>7, <1>4 DEF Push, PushFails
<1>8. CASE UNCHANGED vars
  BY <1>8, <1>4 DEF vars
<1>9. QED
  BY <1>1, <1>2, <1>3, <1>5, <1>6, <1>7, <1>8, NextCases

\* A pixel that differs from the record is in a row and in a pair that do.
LEMMA PixelChanges ==
  ASSUME Trackable, NEW t \in Trackers, NEW s \in Frames, NEW p \in Pixels,
         t.primed => t.rows[p] # s[p] /\ t.cols[p] # s[p]
  PROVE  /\ p[2] \in ChangedRows(t, s)
         /\ \E i \in ChangedPairs(t, s) : 2 * i <= p[1] /\ p[1] <= 2 * i + 1
<1>a. /\ Width \in Nat \ {0} /\ Height \in Nat \ {0} /\ Width % 2 = 0
  BY DirtyAssumption
<1>b. PICK x \in 0 .. Width - 1, y \in 0 .. Height - 1 : p = <<x, y>>
  BY DEF Pixels
<1>1. p[2] \in ChangedRows(t, s)
  <2>1. CASE ~t.primed
    BY <2>1, <1>b DEF ChangedRows
  <2>2. CASE t.primed
    <3>1. Row(s, y)[x] = s[<<x, y>>] /\ Row(t.rows, y)[x] = t.rows[<<x, y>>]
      BY DEF Row
    <3>2. s[<<x, y>>] # t.rows[<<x, y>>]
      BY <2>2, <1>b
    <3>3. Row(s, y) # Row(t.rows, y)
      BY <3>1, <3>2
    <3>4. QED
      BY <3>3, <1>b DEF ChangedRows
  <2>3. QED
    BY <2>1, <2>2
<1> DEFINE i == x \div 2
<1>2. i \in 0 .. Width \div 2 - 1 /\ 2 * i <= x /\ x <= 2 * i + 1
  BY <1>a
<1> HIDE DEF i
<1>3. i \in ChangedPairs(t, s)
  <2>1. CASE ~t.primed
    BY <2>1, <1>2 DEF ChangedPairs
  <2>2. CASE t.primed
    <3>1. p \in (2 * i .. 2 * i + 1) \X (0 .. Height - 1)
      BY <1>b, <1>2
    <3>2. Pair(s, i)[p] = s[p] /\ Pair(t.cols, i)[p] = t.cols[p]
      BY <3>1 DEF Pair
    <3>3. Pair(s, i) # Pair(t.cols, i)
      BY <3>2, <2>2
    <3>4. QED
      BY <3>3, <1>2 DEF ChangedPairs
  <2>3. QED
    BY <2>1, <2>2
<1>4. QED
  BY <1>1, <1>2, <1>3, <1>b

\* A scan finds every pixel the framebuffer has changed in.
LEMMA ScanCovers ==
  ASSUME NEW t \in Trackers, NEW old \in Frames, t.primed => t.rows = old /\ t.cols = old,
         NEW s \in Frames, NEW p \in Pixels, s[p] # old[p]
  PROVE  p \in Dirty(t, s)
<1>1. CASE ~Trackable
  BY <1>1 DEF Dirty
<1>2. CASE Trackable
  <2>1. /\ p[2] \in ChangedRows(t, s)
        /\ \E i \in ChangedPairs(t, s) : 2 * i <= p[1] /\ p[1] <= 2 * i + 1
    BY <1>2, PixelChanges
  <2>2. p[2] \in Int
    BY DirtyAssumption DEF Pixels
  <2>3. QED
    BY <1>2, <2>1, <2>2 DEF Dirty, Box
<1>3. QED
  BY <1>1, <1>2

LEMMA PanelStep == TypeOK /\ TrackerInv /\ PanelFollows /\ [Next]_vars => PanelFollows'
<1> SUFFICES ASSUME TypeOK, TrackerInv, PanelFollows, [Next]_vars,
                    NEW p \in Pixels, (panel[p] # fb[p])'
             PROVE  (p \in Pending \cup lost)'
  BY DEF PanelFollows
<1>a. \A t \in Tasks : (p \in box[t])' => (p \in Pending \cup lost)'
  BY DEF Pending
<1>b. panel[p] # fb[p] => p \in lost \/ \E t \in Tasks : p \in box[t]
  BY DEF PanelFollows, Pending
<1>c. g_tracker \in Trackers /\ fb \in Frames /\ box \in [Tasks -> SUBSET Pixels]
  BY DEF TypeOK, Trackers
<1>d. ASSUME UNCHANGED <<fb, panel, box, lost>> PROVE (p \in Pending \cup lost)'
  BY <1>d, <1>a, <1>b
<1>1. ASSUME NEW l \in Loops, LoopStart(l) PROVE (p \in Pending \cup lost)'
  BY <1>1, <1>d DEF LoopStart
<1>2. ASSUME NEW l \in Loops, Frame(l) PROVE (p \in Pending \cup lost)'
  <2>0. PICK look \in Looks, word \in FaceStates : \E past, now, f, s :
          Computed(l, look, word, past, now, f, s)
    BY <1>2, FrameComputes
  <2>1. PICK past, now, f, s : Computed(l, look, word, past, now, f, s)
    BY <2>0
  <2>2. /\ s \in Frames /\ fb' = s /\ box' = [box EXCEPT ![l] = Dirty(g_tracker, s)]
        /\ box[l] = {} /\ panel' = panel /\ lost' = lost /\ l \in Tasks
    BY <1>2, <2>1 DEF Computed, Frame, Tasks
  <2>3. CASE panel[p] # fb[p]
    <3>1. CASE p \in lost
      BY <3>1, <2>2
    <3>2. ASSUME NEW t \in Tasks, p \in box[t] PROVE (p \in Pending \cup lost)'
      <4>1. t # l
        BY <3>2, <2>2
      <4>2. box'[t] = box[t]
        BY <4>1, <2>2, <1>c
      <4>3. QED
        BY <4>2, <3>2, <1>a
    <3>3. QED
      BY <2>3, <3>1, <3>2, <1>b
  <2>4. CASE panel[p] = fb[p]
    <3>1. s[p] # fb[p]
      BY <2>2, <2>4
    <3>2. p \in Dirty(g_tracker, s)
      BY <3>1, <2>2, <1>c, ScanCovers DEF TrackerInv
    <3>3. box'[l] = Dirty(g_tracker, s)
      BY <2>2, <1>c
    <3>4. QED
      BY <3>2, <3>3, <2>2, <1>a
  <2>5. QED
    BY <2>3, <2>4
<1>3. ASSUME NEW l \in Loops, LoopStop(l) PROVE (p \in Pending \cup lost)'
  BY <1>3, <1>d DEF LoopStop
<1>4. ASSUME NEW b \in Benches, BenchStart(b) \/ BenchAgain(b) PROVE (p \in Pending \cup lost)'
  <2>1. box'[b] = Pixels /\ b \in Tasks
    BY <1>4, <1>c DEF BenchStart, BenchAgain, Tasks
  <2>2. QED
    BY <2>1, <1>a
<1>5. ASSUME NEW b \in Benches, BenchStop(b) PROVE (p \in Pending \cup lost)'
  BY <1>5, <1>d DEF BenchStop
<1>6. ASSUME NEW t \in Tasks, Push(t) PROVE (p \in Pending \cup lost)'
  <2>1. PICK y \in 0 .. Height - 1 :
          LET row == {q \in box[t] : q[2] = y} IN
          /\ panel' = [q \in Pixels |-> IF q \in row THEN fb[q] ELSE panel[q]]
          /\ box' = [box EXCEPT ![t] = @ \ row]
          /\ lost' = lost \ row
    BY <1>6 DEF Push
  <2> DEFINE row == {q \in box[t] : q[2] = y}
  <2>2. /\ panel' = [q \in Pixels |-> IF q \in row THEN fb[q] ELSE panel[q]]
        /\ box' = [box EXCEPT ![t] = @ \ row]
        /\ lost' = lost \ row /\ fb' = fb
    BY <1>6, <2>1 DEF Push
  <2> HIDE DEF row
  <2>3. p \notin row /\ panel[p] # fb[p]
    BY <2>2
  <2>4. CASE p \in lost
    BY <2>2, <2>3, <2>4
  <2>5. ASSUME NEW u \in Tasks, p \in box[u] PROVE (p \in Pending \cup lost)'
    <3>1. p \in box'[u]
      BY <2>2, <2>3, <2>5, <1>c
    <3>2. QED
      BY <3>1, <1>a
  <2>6. QED
    BY <2>3, <2>4, <2>5, <1>b
<1>7. ASSUME NEW t \in Tasks, PushFails(t) PROVE (p \in Pending \cup lost)'
  <2>1. /\ panel' = panel /\ fb' = fb /\ lost' = lost \cup box[t]
        /\ box' = [box EXCEPT ![t] = {}]
    BY <1>7 DEF PushFails
  <2>2. ASSUME NEW u \in Tasks, p \in box[u] PROVE (p \in Pending \cup lost)'
    <3>1. CASE u = t
      BY <3>1, <2>1, <2>2
    <3>2. CASE u # t
      <4>1. p \in box'[u]
        BY <3>2, <2>1, <2>2, <1>c
      <4>2. QED
        BY <4>1, <1>a
    <3>3. QED
      BY <3>1, <3>2
  <2>3. CASE p \in lost
    BY <2>1, <2>3
  <2>4. QED
    BY <2>1, <2>2, <2>3, <1>b
<1>8. CASE UNCHANGED vars
  BY <1>8, <1>d DEF vars
<1>9. QED
  BY <1>1, <1>2, <1>3, <1>4, <1>5, <1>6, <1>7, <1>8, NextCases

LEMMA FollowsInit == Init => TrackerInv /\ PanelFollows
BY DEF Init, TrackerInv, PanelFollows

\* The panel shows the framebuffer but for what a task is about to push and what a failed
\* push lost: with any number of loops and benchmarks over the one tracker, no change of
\* the picture is missed.
THEOREM NoChangeMissed == Spec => []PanelFollows
BY FollowsInit, TrackerStep, PanelStep, TypeCorrect, PTL DEF Spec

-----------------------------------------------------------------------------
(* The blend on the panel. *)

\* A face that is not moved is ticked as it is.
LEMMA FrameEnters ==
  ASSUME TypeOK, NEW l \in Loops, NEW look, NEW word \in FaceStates, NEW past, NEW now, NEW f, NEW s,
         Computed(l, look, word, past, now, f, s)
  PROVE  /\ f.state = word
         /\ word # face[l].state => f.pose = face[l].pose /\ f.state_ms = now
         /\ word = face[l].state => f = face_tick(face[l], now)
<1>1. now \in Clock /\ face[l] \in Faces /\ f = face_tick(Moved(l, word, now), now)
  BY DEF Computed, TypeOK
<1>2. CASE word = face[l].state
  <2>1. Moved(l, word, now) = face[l]
    BY <1>2 DEF Moved
  <2>2. f = face_tick(face[l], now)
    BY <1>1, <2>1
  <2>3. face_tick(face[l], now).state = face[l].state
    BY <1>1, TickedFace
  <2>4. QED
    BY <1>2, <2>2, <2>3
<1>3. CASE word # face[l].state
  <2>1. Moved(l, word, now) = face_set_state(face[l], word, now)
    BY <1>3 DEF Moved
  <2>2. f.pose = face[l].pose
    BY <1>1, <2>1, EnteredPose
  <2>3. /\ Moved(l, word, now) \in Faces /\ Moved(l, word, now).state = word
        /\ Moved(l, word, now).state_ms = now
    BY <1>1, <2>1, EnteredFace DEF face_set_state, Faces
  <2> DEFINE g == Moved(l, word, now)
  <2>4. g \in Faces /\ g.state = word /\ g.state_ms = now /\ f = face_tick(g, now)
    BY <1>1, <2>3
  <2> HIDE DEF g
  <2>5. face_tick(g, now).state = g.state /\ face_tick(g, now).state_ms = g.state_ms
    BY <1>1, <2>4, TickedFace
  <2>6. f.state = word /\ f.state_ms = now
    BY <2>4, <2>5
  <2>7. QED
    BY <1>3, <2>2, <2>6
<1>4. QED
  BY <1>2, <1>3

SnapStep(l) == face'[l].state # face[l].state => face'[l].pose = face[l].pose

LEMMA NoSnapStep ==
  ASSUME TypeOK, [Next]_vars, NEW l \in Loops, l \in on, l \in on'
  PROVE  SnapStep(l)
<1>a. face \in [Loops -> Faces]
  BY DEF TypeOK
<1>d. ASSUME UNCHANGED face PROVE SnapStep(l)
  BY <1>d DEF SnapStep
<1>1. ASSUME NEW m \in Loops, LoopStart(m) PROVE SnapStep(l)
  <2>1. m # l
    BY <1>1 DEF LoopStart, Starts
  <2>2. face'[l] = face[l]
    BY <1>1, <1>a, <2>1 DEF LoopStart
  <2>3. QED
    BY <2>2 DEF SnapStep
<1>2. ASSUME NEW m \in Loops, Frame(m) PROVE SnapStep(l)
  <2>0. PICK look \in Looks, word \in FaceStates : \E past, now, f, s :
          Computed(m, look, word, past, now, f, s)
    BY <1>2, FrameComputes
  <2>1. PICK past, now, f, s : Computed(m, look, word, past, now, f, s)
    BY <2>0
  <2>2. face' = [face EXCEPT ![m] = f]
    BY <2>1 DEF Computed
  <2>3. f.state # face[m].state => f.pose = face[m].pose
    BY <2>1, FrameEnters
  <2>4. QED
    BY <2>2, <2>3, <1>a DEF SnapStep
<1>3. ASSUME NEW m \in Loops, LoopStop(m) PROVE SnapStep(l)
  BY <1>3, <1>d DEF LoopStop, clockVars
<1>4. ASSUME NEW b \in Benches, BenchStart(b) \/ BenchAgain(b) \/ BenchStop(b) PROVE SnapStep(l)
  BY <1>4, <1>d DEF BenchStart, BenchAgain, BenchStop, clockVars
<1>5. ASSUME NEW t \in Tasks, Push(t) \/ PushFails(t) PROVE SnapStep(l)
  BY <1>5, <1>d DEF Push, PushFails, clockVars
<1>6. CASE UNCHANGED vars
  BY <1>6, <1>d DEF vars
<1>7. QED
  BY <1>1, <1>2, <1>3, <1>4, <1>5, <1>6, NextCases

\* A state that comes does not move the face in the frame in which it comes, in the middle
\* of another blend either.
THEOREM BlendNeverSnaps == Spec => NoSnap
<1>1. TypeOK /\ [Next]_vars => [\A l \in on \cap on' \cap Loops : SnapStep(l)]_vars
  BY NoSnapStep
<1>2. Spec => [][\A l \in on \cap on' \cap Loops : SnapStep(l)]_vars
  BY <1>1, TypeCorrect, PTL DEF Spec
<1>3. QED
  BY <1>2 DEF NoSnap, SnapStep

\* As long as its clock has not wrapped, a face is in its state for as long as its history
\* says, on the animation's clock; and what it shows after a blend is its target.
BlendInv ==
  \A l \in on \cap Loops :
    ~wrapped[l] => /\ anim_ms[l] - face[l].state_ms >= age[l]
                   /\ age[l] = FACE_BLEND_MS =>
                        face[l].pose = target_pose(face[l].state, anim_ms[l])

LEMMA BlendStep == TypeOK /\ BlendInv /\ [Next]_vars => BlendInv'
<1> DEFINE Part(l) ==
      ~wrapped[l] => /\ anim_ms[l] - face[l].state_ms >= age[l]
                     /\ age[l] = FACE_BLEND_MS =>
                          face[l].pose = target_pose(face[l].state, anim_ms[l])
<1> SUFFICES ASSUME TypeOK, BlendInv, [Next]_vars, NEW l \in Loops, l \in on'
             PROVE  Part(l)'
  BY DEF BlendInv
<1>a. /\ face \in [Loops -> Faces] /\ anim_ms \in [Loops -> Clock] /\ Clock \subseteq Nat
      /\ age \in [Loops -> 0 .. FACE_BLEND_MS] /\ wrapped \in [Loops -> BOOLEAN]
      /\ FACE_BLEND_MS \in Nat \ {0}
  BY ClockType, AnimAssumption DEF TypeOK, Clock
<1>b. l \in on => Part(l)
  BY DEF BlendInv
<1>d. ASSUME UNCHANGED clockVars, l \in on PROVE Part(l)'
  BY <1>d, <1>b DEF clockVars
<1>1. ASSUME NEW m \in Loops, LoopStart(m) PROVE Part(l)'
  <2>1. CASE m = l
    <3>1. /\ anim_ms'[l] = 0 /\ age'[l] = 0
          /\ face'[l] = face_init(0)
      BY <1>1, <2>1, <1>a DEF LoopStart
    <3>2. face'[l].state_ms = 0
      BY <3>1 DEF face_init
    <3>3. QED
      BY <3>1, <3>2, <1>a
  <2>2. CASE m # l
    <3>1. /\ l \in on
          /\ anim_ms'[l] = anim_ms[l] /\ age'[l] = age[l]
          /\ face'[l] = face[l] /\ wrapped'[l] = wrapped[l]
      BY <1>1, <2>2, <1>a DEF LoopStart, Starts
    <3>2. QED
      BY <3>1, <1>b
  <2>3. QED
    BY <2>1, <2>2
<1>2. ASSUME NEW m \in Loops, Frame(m) PROVE Part(l)'
  <2>0. PICK look \in Looks, word \in FaceStates : \E past, now, f, s :
          Computed(m, look, word, past, now, f, s)
    BY <1>2, FrameComputes
  <2>1. PICK past, now, f, s : Computed(m, look, word, past, now, f, s)
    BY <2>0
  <2>2. l \in on /\ m \in on
    BY <1>2 DEF Frame
  <2>3. CASE m # l
    <3>1. /\ anim_ms'[l] = anim_ms[l] /\ age'[l] = age[l]
          /\ face'[l] = face[l] /\ wrapped'[l] = wrapped[l]
      BY <2>1, <2>3, <1>a DEF Computed
    <3>2. QED
      BY <2>2, <3>1, <1>b
  <2>4. CASE m = l
    <3> SUFFICES ASSUME ~wrapped'[l]
                 PROVE  /\ anim_ms'[l] - face'[l].state_ms >= age'[l]
                        /\ age'[l] = FACE_BLEND_MS =>
                             face'[l].pose = target_pose(face'[l].state, anim_ms'[l])
      OBVIOUS
    <3>1. /\ anim_ms'[l] = now /\ face'[l] = f /\ now \in Nat /\ now \in Clock
          /\ past \in Nat /\ past >= anim_ms[l] /\ (past < ClockSize => now = past)
          /\ age'[l] = IF word # face[l].state THEN 0
                       ELSE IF age[l] + (past - anim_ms[l]) > FACE_BLEND_MS THEN FACE_BLEND_MS
                       ELSE age[l] + (past - anim_ms[l])
          /\ wrapped'[l] = (word = face[l].state /\ (wrapped[l] \/ past >= ClockSize))
      BY <2>1, <2>4, <1>a DEF Computed
    <3>2. CASE word # face[l].state
      <4>1. f.state_ms = now
        BY <2>1, <2>4, <3>2, FrameEnters
      <4>2. age'[l] = 0
        BY <3>1, <3>2
      <4>3. QED
        BY <3>1, <4>1, <4>2, <1>a
    <3>3. CASE word = face[l].state
      <4>1. f = face_tick(face[l], now) /\ f.state = face[l].state
        BY <2>1, <2>4, <3>3, FrameEnters
      <4>2. f.state_ms = face[l].state_ms
        <5>1. face[l] \in Faces /\ now \in Clock
          BY <3>1, <1>a
        <5>2. face_tick(face[l], now).state_ms = face[l].state_ms
          BY <5>1, TickedFace
        <5>3. QED
          BY <5>2, <4>1
      <4>3. ~wrapped[l] /\ ~(past >= ClockSize)
        BY <3>1, <3>3
      <4>4. now = past
        BY <3>1, <4>3, AnimAssumption
      <4>5. anim_ms[l] - face[l].state_ms >= age[l]
        BY <4>3, <1>b, <2>2
      <4>6. /\ anim_ms[l] \in Nat /\ age[l] \in Nat /\ face[l].state_ms \in Nat
        BY <1>a DEF Faces, Clock
      <4>7. age'[l] <= age[l] + (past - anim_ms[l]) /\ age'[l] \in Nat
        BY <3>1, <3>3, <4>6, <1>a
      <4>8. now - face[l].state_ms >= age'[l]
        BY <4>4, <4>5, <4>6, <4>7, <3>1
      <4>9. ASSUME age'[l] = FACE_BLEND_MS PROVE f.pose = target_pose(f.state, now)
        <5>1. now - face[l].state_ms >= FACE_BLEND_MS
          BY <4>8, <4>9
        <5>2. face[l] \in Faces /\ now \in Clock
          BY <1>a, <3>1
        <5>3. QED
          BY <5>1, <5>2, <4>1, BlendedPose
      <4>10. QED
        BY <3>1, <4>2, <4>8, <4>9
    <3>4. QED
      BY <3>2, <3>3
  <2>5. QED
    BY <2>3, <2>4
<1>3. ASSUME NEW m \in Loops, LoopStop(m) PROVE Part(l)'
  BY <1>3, <1>d DEF LoopStop
<1>4. ASSUME NEW b \in Benches, BenchStart(b) PROVE Part(l)'
  <2>1. l # b
    BY FrameAssumption
  <2>2. QED
    BY <1>4, <1>d, <2>1 DEF BenchStart, Starts
<1>5. ASSUME NEW b \in Benches, BenchAgain(b) \/ BenchStop(b) PROVE Part(l)'
  BY <1>5, <1>d DEF BenchAgain, BenchStop
<1>6. ASSUME NEW t \in Tasks, Push(t) \/ PushFails(t) PROVE Part(l)'
  BY <1>6, <1>d DEF Push, PushFails
<1>7. CASE UNCHANGED vars
  BY <1>7, <1>d DEF vars, clockVars
<1>8. QED
  BY <1>1, <1>2, <1>3, <1>4, <1>5, <1>6, <1>7, NextCases

\* A blend ends in its time: from then on the face is as its state wants it, for any
\* speeds, polls and lengths of a frame, until the clock wraps.
THEOREM BlendEnds == Spec => []Blended
<1>1. Init => BlendInv
  BY DEF Init, BlendInv
<1>2. BlendInv => Blended
  BY DEF BlendInv, Blended
<1>3. QED
  BY <1>1, <1>2, BlendStep, TypeCorrect, PTL DEF Spec

-----------------------------------------------------------------------------
(* What a frame pushes. *)

\* Where the record is the picture on the panel, the box a scan gives is the smallest one
\* around what has changed.
LEMMA BoxAround ==
  ASSUME Trackable, NEW old \in Frames, NEW s \in Frames,
         NEW t \in Trackers, t.primed, t.rows = old, t.cols = old
  PROVE  Dirty(t, s) = Around({p \in Pixels : old[p] # s[p]})
<1> DEFINE changed == {p \in Pixels : old[p] # s[p]}
<1>a. /\ Width \in Nat \ {0} /\ Height \in Nat \ {0} /\ Width % 2 = 0
  BY DirtyAssumption
<1>1. \A c \in changed : /\ c[2] \in ChangedRows(t, s)
                         /\ c[1] \div 2 \in ChangedPairs(t, s)
  <2> TAKE c \in changed
  <2>1. c \in Pixels /\ t.rows[c] # s[c] /\ t.cols[c] # s[c]
    OBVIOUS
  <2>2. /\ c[2] \in ChangedRows(t, s)
        /\ \E i \in ChangedPairs(t, s) : 2 * i <= c[1] /\ c[1] <= 2 * i + 1
    BY <2>1, PixelChanges
  <2>3. PICK i \in ChangedPairs(t, s) : 2 * i <= c[1] /\ c[1] <= 2 * i + 1
    BY <2>2
  <2>4. i \in Int /\ c[1] \in Int
    BY <2>1, <1>a DEF ChangedPairs, Pixels
  <2>5. c[1] \div 2 = i
    BY <2>3, <2>4
  <2>6. QED
    BY <2>2, <2>3, <2>5
<1>2. \A y \in ChangedRows(t, s) : \E c \in changed : c[2] = y
  <2> TAKE y \in ChangedRows(t, s)
  <2>1. y \in 0 .. Height - 1 /\ Row(s, y) # Row(old, y)
    BY DEF ChangedRows
  <2>2. PICK x \in 0 .. Width - 1 : s[<<x, y>>] # old[<<x, y>>]
    BY <2>1 DEF Row
  <2>3. <<x, y>> \in changed
    BY <2>1, <2>2 DEF Pixels
  <2>4. QED
    BY <2>3
<1>3. \A i \in ChangedPairs(t, s) : \E c \in changed : c[1] \div 2 = i
  <2> TAKE i \in ChangedPairs(t, s)
  <2>1. i \in 0 .. Width \div 2 - 1 /\ Pair(s, i) # Pair(old, i)
    BY DEF ChangedPairs
  <2>2. PICK p \in (2 * i .. 2 * i + 1) \X (0 .. Height - 1) : s[p] # old[p]
    BY <2>1 DEF Pair
  <2>3. PICK x \in 2 * i .. 2 * i + 1, y \in 0 .. Height - 1 : p = <<x, y>>
    BY <2>2
  <2>4. x \in 0 .. Width - 1 /\ x \div 2 = i
    BY <2>1, <2>3, <1>a
  <2>5. p \in changed
    BY <2>2, <2>3, <2>4 DEF Pixels
  <2>6. QED
    BY <2>3, <2>4, <2>5
<1> HIDE DEF changed
<1>4. ASSUME NEW p \in Pixels
      PROVE  /\ (\E v, w \in ChangedRows(t, s) : v <= p[2] /\ p[2] <= w)
                 <=> \E c, d \in changed : c[2] <= p[2] /\ p[2] <= d[2]
             /\ (\E i, j \in ChangedPairs(t, s) : 2 * i <= p[1] /\ p[1] <= 2 * j + 1)
                 <=> \E c, d \in changed : c[1] \div 2 <= p[1] \div 2 /\ p[1] \div 2 <= d[1] \div 2
  <2>1. (\E v, w \in ChangedRows(t, s) : v <= p[2] /\ p[2] <= w)
          <=> \E c, d \in changed : c[2] <= p[2] /\ p[2] <= d[2]
    BY <1>1, <1>2
  <2>2. p[1] \in Int
    BY <1>a DEF Pixels
  <2>3. \A i \in Int : /\ 2 * i <= p[1] <=> i <= p[1] \div 2
                       /\ p[1] <= 2 * i + 1 <=> p[1] \div 2 <= i
    BY <2>2
  <2>4. ChangedPairs(t, s) \subseteq Int
    BY <1>a DEF ChangedPairs
  <2>5. (\E i, j \in ChangedPairs(t, s) : 2 * i <= p[1] /\ p[1] <= 2 * j + 1)
          <=> \E i, j \in ChangedPairs(t, s) : i <= p[1] \div 2 /\ p[1] \div 2 <= j
    BY <2>3, <2>4
  <2>6. (\E i, j \in ChangedPairs(t, s) : i <= p[1] \div 2 /\ p[1] \div 2 <= j)
          <=> \E c, d \in changed : c[1] \div 2 <= p[1] \div 2 /\ p[1] \div 2 <= d[1] \div 2
    BY <1>1, <1>3
  <2>7. QED
    BY <2>1, <2>5, <2>6
<1>5. Dirty(t, s) = Around(changed)
  BY <1>4 DEF Dirty, Box, Around
<1>6. QED
  BY <1>5 DEF changed

PushStep(l) ==
  box'[l] # box[l] /\ Quiet /\ Trackable =>
    box'[l] = Around({p \in Pixels : panel[p] # fb'[p]})

LEMMA PushesNoMoreStep ==
  ASSUME TypeOK, TrackerInv, PanelFollows, [Next]_vars, NEW l \in Loops
  PROVE  PushStep(l)
<1> SUFFICES ASSUME box'[l] # box[l], Quiet, Trackable
             PROVE  box'[l] = Around({p \in Pixels : panel[p] # fb'[p]})
  BY DEF PushStep
<1>a. /\ box \in [Tasks -> SUBSET Pixels] /\ l \in Tasks /\ g_tracker \in Trackers
      /\ fb \in Frames /\ panel \in Frames
  BY DEF TypeOK, Trackers, Tasks
<1>b. \A t \in Tasks : box[t] = {}
  BY DEF Quiet, Pending
<1>c. panel = fb
  <2>1. \A p \in Pixels : panel[p] = fb[p]
    BY DEF Quiet, PanelFollows
  <2>2. QED
    BY <2>1, <1>a DEF Frames
<1>1. ASSUME NEW m \in Loops, LoopStart(m) PROVE FALSE
  BY <1>1 DEF LoopStart
<1>2. ASSUME NEW m \in Loops, Frame(m) PROVE box'[l] = Around({p \in Pixels : panel[p] # fb'[p]})
  <2>0. PICK look \in Looks, word \in FaceStates : \E past, now, f, s :
          Computed(m, look, word, past, now, f, s)
    BY <1>2, FrameComputes
  <2>1. PICK past, now, f, s : Computed(m, look, word, past, now, f, s)
    BY <2>0
  <2>2. s \in Frames /\ fb' = s /\ box' = [box EXCEPT ![m] = Dirty(g_tracker, s)]
    BY <2>1 DEF Computed
  <2>3. m = l /\ box'[l] = Dirty(g_tracker, s)
    BY <2>2, <1>a
  <2>4. g_tracker.primed /\ g_tracker.rows = fb /\ g_tracker.cols = fb
    BY DEF Quiet, TrackerInv
  <2>5. Dirty(g_tracker, s) = Around({p \in Pixels : fb[p] # s[p]})
    BY <2>2, <2>4, <1>a, BoxAround
  <2>6. QED
    BY <2>2, <2>3, <2>5, <1>c
<1>3. ASSUME NEW m \in Loops, LoopStop(m) PROVE FALSE
  BY <1>3 DEF LoopStop
<1>4. ASSUME NEW b \in Benches, BenchStart(b) \/ BenchAgain(b) \/ BenchStop(b) PROVE FALSE
  <2>1. b # l
    BY FrameAssumption
  <2>2. QED
    BY <1>4, <2>1, <1>a DEF BenchStart, BenchAgain, BenchStop
<1>5. ASSUME NEW t \in Tasks, Push(t) PROVE FALSE
  BY <1>5, <1>b DEF Push
<1>6. ASSUME NEW t \in Tasks, PushFails(t) PROVE FALSE
  BY <1>6, <1>b DEF PushFails
<1>7. CASE UNCHANGED vars
  BY <1>7 DEF vars
<1>8. QED
  BY <1>1, <1>2, <1>3, <1>4, <1>5, <1>6, <1>7, NextCases

\* Where nothing is left to push, a frame pushes exactly the smallest box of even columns
\* around what it changes on the panel.
THEOREM NoMoreThanChanged == Spec => PushesNoMore
<1>1. TypeOK /\ TrackerInv /\ PanelFollows /\ [Next]_vars => [\A l \in Loops : PushStep(l)]_vars
  BY PushesNoMoreStep
<1>2. Spec => [][\A l \in Loops : PushStep(l)]_vars
  BY <1>1, FollowsInit, TrackerStep, PanelStep, TypeCorrect, PTL DEF Spec
<1>3. QED
  BY <1>2 DEF PushesNoMore, PushStep
=============================================================================
