----------------------------- MODULE ManualProofs -----------------------------
(***************************************************************************)
(* Proofs about Manual and the filter of Mixing: for any rates, any limit, *)
(* any thrusts, any tick of the clock and any length of the poll.          *)
(***************************************************************************)
EXTENDS Manual, TLAPS

\* What the proofs need of the constants: slowing down is not slower than speeding up.
ManualConstants ==
  /\ TicksPerMs \in Nat \ {0}
  /\ SpeedUp \in Nat /\ SlowDown \in Nat /\ SpeedUp <= SlowDown
  /\ Limit \in Nat
  /\ Thrusts \subseteq Int /\ 0 \in Thrusts
  /\ PollTicks \in Nat /\ MaxGap \in Nat

-----------------------------------------------------------------------------
(* The filter.                                                             *)

Distance(f, ref) == IF Clamp(ref) > f THEN Clamp(ref) - f ELSE f - Clamp(ref)

LEMMA RateFacts ==
  ASSUME ManualConstants, NEW f \in Int, NEW ref \in Int
  PROVE  Rate(f, ref) \in Nat /\ Rate(f, ref) >= SpeedUp
  BY DEF ManualConstants, Rate

LEMMA StepFacts ==
  ASSUME NEW r \in Nat, NEW u \in Nat, r >= u, NEW dt \in Nat
  PROVE  r * dt \in Nat /\ u * dt \in Nat /\ r * dt >= u * dt
<1>1. r * dt = u * dt + (r - u) * dt /\ r - u \in Nat
  OBVIOUS
<1>2. \A a, b \in Nat : a * b \in Nat
  OBVIOUS
<1>. QED BY <1>1, <1>2

\* The filter stays on the way to the limited reference, and comes nearer by the slower
\* rate at least, or arrives.
LEMMA FilterFacts ==
  ASSUME ManualConstants, NEW f \in -Limit .. Limit, NEW ref \in Int, NEW dt \in Nat
  PROVE  /\ FilterRef(f, ref, dt) \in Between(f, ref)
         /\ LET d == Distance(FilterRef(f, ref, dt), ref)
            IN  d = 0 \/ d + SpeedUp * dt <= Distance(f, ref)
<1> DEFINE step == Rate(f, ref) * dt
           least == SpeedUp * dt
<1>1. f \in Int /\ Limit \in Nat /\ -Limit <= f /\ f <= Limit
  BY DEF ManualConstants
<1>2. step \in Nat /\ least \in Nat /\ step >= least
  BY <1>1, RateFacts, StepFacts DEF ManualConstants
<1>3. FilterRef(f, ref, dt) =
        Clamp(IF ref - f > step THEN f + step ELSE IF f - ref > step THEN f - step ELSE ref)
  BY DEF FilterRef
<1>. HIDE DEF step, least
<1>4. FilterRef(f, ref, dt) \in Between(f, ref)
  BY <1>1, <1>2, <1>3 DEF Between, Clamp
<1>5. LET d == Distance(FilterRef(f, ref, dt), ref) IN d = 0 \/ d + least <= Distance(f, ref)
  BY <1>1, <1>2, <1>3 DEF Distance, Clamp
<1>. QED BY <1>4, <1>5 DEF least

LEMMA StaysWhereItIs ==
  ASSUME ManualConstants, NEW f \in -Limit .. Limit, NEW ref \in Int
  PROVE  f \in Between(f, ref)
  BY DEF ManualConstants, Between, Clamp

\* Rounding up: a pass counts at least the ticks that have passed.
LEMMA CeilFacts ==
  ASSUME ManualConstants, NEW t \in Nat
  PROVE  /\ MsCeil(t) \in Nat
         /\ MsCeil(t) * TicksPerMs >= t
<1> DEFINE n == t + TicksPerMs - 1
           q == n \div TicksPerMs
<1>1. TicksPerMs \in Nat \ {0} /\ n \in Nat
  BY DEF ManualConstants
<1>2. q \in Int /\ n = TicksPerMs * q + (n % TicksPerMs) /\ n % TicksPerMs \in 0 .. TicksPerMs - 1
  BY <1>1
<1>3. q \in Nat
  BY <1>1, <1>2
<1>4. q * TicksPerMs >= t
  BY <1>1, <1>2
<1>. QED BY <1>3, <1>4 DEF MsCeil

-----------------------------------------------------------------------------
(* Types.                                                                  *)

\* The age of the reference is what this poll has waited and what the last pass left.
AgeInv == age <= MaxGap + waited /\ (mAt = "publish" => age <= MaxGap)

LEMMA NeededType == ASSUME ManualConstants PROVE Needed \in Nat
<1>1. Limit \in Nat /\ TicksPerMs \in Nat /\ 2 * Limit \in Nat
  BY DEF ManualConstants
<1>2. (2 * Limit) * TicksPerMs \in Nat
  BY <1>1, StepFacts
<1>. QED BY <1>2 DEF Needed

LEMMA HeldType ==
  ASSUME ManualConstants, held \in 0 .. Needed, NEW t \in Nat
  PROVE  HeldFor(t) \in 0 .. Needed /\ HeldFor(t) <= held + t
  BY NeededType DEF HeldFor

\* What a pass of the filter does.
LEMMA FilterStep ==
  ASSUME ManualConstants, TypeOK, Filter
  PROVE  \E gap \in 0 .. MaxGap :
           LET ms == MsCeil(age + gap)
           IN  /\ ms \in Nat /\ ms * TicksPerMs >= age + gap
               /\ held' = HeldFor(gap)
               /\ ms = 0 => age + gap = 0
               /\ age' = gap
               /\ speed' = IF ms > 0 THEN FilterRef(speed, thrust, ms) ELSE speed
<1>1. PICK gap \in 0 .. MaxGap :
        LET ms == MsCeil(age + gap)
        IN  /\ age' = IF ms > 0 THEN gap ELSE age + gap
            /\ speed' = IF ms > 0 THEN FilterRef(speed, thrust, ms) ELSE speed
            /\ held' = HeldFor(gap)
  BY DEF Filter
<1> DEFINE ms == MsCeil(age + gap)
<1>2. age \in Nat /\ gap \in Nat /\ TicksPerMs \in Nat
  BY DEF TypeOK, ManualConstants
<1>3. ms \in Nat /\ ms * TicksPerMs >= age + gap
  BY <1>2, CeilFacts
<1>. HIDE DEF ms
<1>4. ms = 0 => age + gap = 0
  BY <1>2, <1>3
<1>5. age' = gap
  BY <1>1, <1>2, <1>3, <1>4 DEF ms
<1>. QED BY <1>1, <1>3, <1>4, <1>5 DEF ms

LEMMA NextType ==
  ASSUME ManualConstants, TypeOK, AgeInv, [Next]_vars
  PROVE  TypeOK' /\ AgeInv' /\ speed' \in Between(speed, thrust)
<1>. USE DEF TypeOK, AgeInv
<1>0. thrust \in Int /\ Needed \in Nat /\ PollTicks \in Nat /\ MaxGap \in Nat
  BY NeededType DEF ManualConstants
<1>1. speed \in Between(speed, thrust)
  BY <1>0, StaysWhereItIs
<1>2. CASE Poll
  BY <1>1, <1>2 DEF Poll
<1>3. CASE Tick
  BY <1>0, <1>1, <1>3, HeldType DEF Tick
<1>4. CASE Read
  <2>1. thrust' \in Thrusts /\ joyNew' \in BOOLEAN
    BY <1>4 DEF Read
  <2>2. held' \in 0 .. Needed
    BY <1>0, <1>4 DEF Read
  <2>. QED BY <1>1, <1>4, <2>1, <2>2 DEF Read
<1>5. CASE Filter
  <2>1. PICK gap \in 0 .. MaxGap :
          LET ms == MsCeil(age + gap)
          IN  /\ ms \in Nat /\ held' = HeldFor(gap) /\ age' = gap
              /\ speed' = IF ms > 0 THEN FilterRef(speed, thrust, ms) ELSE speed
    BY <1>5, FilterStep
  <2>2. speed' \in Between(speed, thrust)
    BY <1>0, <1>1, <2>1, FilterFacts
  <2>3. speed' \in -Limit .. Limit
    BY <2>2 DEF Between
  <2>4. held' \in 0 .. Needed
    BY <1>0, <2>1, HeldType
  <2>. QED BY <1>0, <1>5, <2>1, <2>2, <2>3, <2>4 DEF Filter
<1>6. CASE Publish
  BY <1>0, <1>1, <1>6 DEF Publish
<1>7. CASE \E v \in Thrusts : PublishJoy(v)
  BY <1>1, <1>7 DEF PublishJoy
<1>8. CASE UNCHANGED vars
  BY <1>1, <1>8 DEF vars
<1>. QED BY <1>2, <1>3, <1>4, <1>5, <1>6, <1>7, <1>8 DEF Next

-----------------------------------------------------------------------------
(* The time to reach the thrust.                                           *)

\* What is left of the way, against the time that has been counted; between publish
\* and the next pass, age is not counted yet.
ProgressInv ==
  LET d == Distance(speed, thrust)
      counted == IF mAt = "publish" THEN held ELSE held - age
  IN  d = 0 \/ d * TicksPerMs + SpeedUp * counted <= Needed

LEMMA Monotone ==
  ASSUME NEW c \in Nat, NEW a \in Int, NEW b \in Int, a <= b
  PROVE  c * a <= c * b
<1>1. c * b = c * a + c * (b - a) /\ b - a \in Nat
  OBVIOUS
<1>2. \A x, y \in Nat : x * y \in Nat
  OBVIOUS
<1>. QED BY <1>1, <1>2

\* A pass of m milliseconds, rounded up, makes up for the ticks it counts.
LEMMA PassCounts ==
  ASSUME NEW T \in Nat, NEW u \in Nat, NEW d \in Nat, NEW d2 \in Nat, NEW m \in Nat,
         NEW h \in Nat, NEW h2 \in Nat, NEW a \in Nat, NEW g \in Nat, NEW n \in Nat,
         d2 + u * m <= d, d * T + u * (h - a) <= n, m * T >= a + g, h2 <= h + g
  PROVE  d2 * T + u * h2 <= n
<1>1. T * (d2 + u * m) <= T * d
  BY Monotone
<1>2. T * (d2 + u * m) = d2 * T + u * (m * T)
  OBVIOUS
<1>3. u * (a + g) <= u * (m * T)
  BY Monotone
<1>4. u * h2 <= u * (h + g)
  BY Monotone
<1>5. u * (h + g) = u * (h - a) + u * (a + g)
  OBVIOUS
<1>. QED BY <1>1, <1>2, <1>3, <1>4, <1>5

LEMMA DistanceType ==
  ASSUME ManualConstants, NEW f \in -Limit .. Limit, NEW ref \in Int
  PROVE  Distance(f, ref) \in Nat /\ Distance(f, ref) <= 2 * Limit
  BY DEF ManualConstants, Distance, Clamp

LEMMA NextProgressInv ==
  ASSUME ManualConstants, TypeOK, AgeInv, ProgressInv, [Next]_vars
  PROVE  ProgressInv'
<1> DEFINE d == Distance(speed, thrust)
<1>0. /\ thrust \in Int /\ speed \in -Limit .. Limit /\ Needed \in Nat /\ held \in Nat
      /\ age \in Nat /\ SpeedUp \in Nat /\ TicksPerMs \in Nat /\ Limit \in Nat
  BY NeededType DEF TypeOK, ManualConstants
<1>1. d \in Nat
  BY <1>0, DistanceType
\* Less time counted asks for less.
<1>2. ASSUME NEW x \in Int, NEW y \in Int, x <= y, d * TicksPerMs + SpeedUp * y <= Needed
      PROVE  d * TicksPerMs + SpeedUp * x <= Needed
  <2>1. SpeedUp * x <= SpeedUp * y
    BY <1>0, <1>2, Monotone
  <2>2. d * TicksPerMs \in Int /\ SpeedUp * x \in Int /\ SpeedUp * y \in Int
    BY <1>0, <1>1, <1>2
  <2>. QED BY <1>0, <1>2, <2>1, <2>2
<1>3. CASE Poll
  BY <1>3 DEF Poll, ProgressInv, Distance, Clamp
<1>4. CASE Tick
  <2>1. held' - age' <= held - age /\ held' \in Int /\ age' \in Int
    BY <1>0, <1>4, HeldType DEF Tick, TypeOK
  <2>2. Distance(speed, thrust)' = d
    BY <1>4 DEF Tick, Distance, Clamp
  <2>3. d = 0 \/ d * TicksPerMs + SpeedUp * (held - age) <= Needed
    BY <1>4 DEF Tick, ProgressInv
  <2>4. d = 0 \/ d * TicksPerMs + SpeedUp * (held' - age') <= Needed
    <3>1. held - age \in Int /\ held' - age' \in Int
      BY <1>0, <2>1
    <3>. HIDE DEF d
    <3>. QED BY <1>2, <2>1, <2>3, <3>1
  <2>. QED BY <1>4, <2>2, <2>4 DEF Tick, ProgressInv
<1>5. CASE Read
  <2>1. CASE thrust' = thrust
    <3>1. Distance(speed, thrust)' = d
      BY <1>5, <2>1 DEF Read, Distance, Clamp
    <3>. QED BY <1>5, <2>1, <3>1 DEF Read, ProgressInv
  <2>2. CASE thrust' # thrust
    <3> DEFINE e == Distance(speed, thrust)'
    <3>1. thrust' \in Int /\ speed' = speed
      BY <1>5 DEF Read, TypeOK, ManualConstants
    <3>2. e \in Nat /\ e <= 2 * Limit
      BY <1>0, <3>1, DistanceType DEF Distance, Clamp
    <3>. HIDE DEF e
    <3>3. TicksPerMs * e <= TicksPerMs * (2 * Limit)
      BY <1>0, <3>2, Monotone
    <3>4. SpeedUp * (0 - age) <= SpeedUp * 0
      BY <1>0, Monotone
    <3>5. TicksPerMs * e = e * TicksPerMs /\ TicksPerMs * (2 * Limit) = Needed
      BY <1>0, <3>2 DEF Needed
    <3>6. e * TicksPerMs + SpeedUp * (0 - age) <= Needed
      BY <1>0, <3>2, <3>3, <3>4, <3>5
    <3>. QED BY <1>5, <2>2, <3>6 DEF Read, ProgressInv, e
  <2>. QED BY <2>1, <2>2
<1>6. CASE Filter
  <2>1. PICK gap \in 0 .. MaxGap :
          LET ms == MsCeil(age + gap)
          IN  /\ ms \in Nat /\ ms * TicksPerMs >= age + gap
              /\ held' = HeldFor(gap)
              /\ ms = 0 => age + gap = 0
              /\ speed' = IF ms > 0 THEN FilterRef(speed, thrust, ms) ELSE speed
    BY <1>6, FilterStep
  <2> DEFINE ms == MsCeil(age + gap)
             e == Distance(speed', thrust)
  <2>2. held' \in Nat /\ held' <= held + gap /\ gap \in Nat
    BY <2>1, <1>0, HeldType, NeededType DEF TypeOK
  <2>3. speed' \in -Limit .. Limit
    BY NextType, <1>6 DEF TypeOK
  <2>4. e \in Nat
    BY <1>0, <2>3, DistanceType
  <2>5. e = 0 \/ e + SpeedUp * ms <= d
    <3>1. CASE ms > 0
      BY <1>0, <2>1, <3>1, FilterFacts
    <3>2. CASE ms = 0
      BY <1>0, <1>1, <2>1, <3>2
    <3>. QED BY <2>1, <3>1, <3>2
  <2>6. d = 0 \/ d * TicksPerMs + SpeedUp * (held - age) <= Needed
    BY <1>6 DEF Filter, ProgressInv
  <2>7. ms \in Nat /\ ms * TicksPerMs >= age + gap
    BY <2>1
  <2>. HIDE DEF ms, d, e
  <2>8. e = 0 \/ e * TicksPerMs + SpeedUp * held' <= Needed
    <3>1. CASE d = 0
      <4>1. SpeedUp * ms \in Nat
        BY <1>0, <2>7, StepFacts
      <4>. QED BY <2>4, <2>5, <3>1, <4>1
    <3>2. CASE d # 0 /\ e # 0
      BY <1>0, <1>1, <2>2, <2>4, <2>5, <2>6, <2>7, <3>2, PassCounts
    <3>. QED BY <3>1, <3>2
  <2>9. Distance(speed, thrust)' = e
    BY <1>6 DEF Filter, Distance, Clamp, e
  <2>. QED BY <1>6, <2>8, <2>9 DEF Filter, ProgressInv
<1>7. CASE Publish
  <2>1. Distance(speed, thrust)' = d
    BY <1>7 DEF Publish, Distance, Clamp
  <2>2. d = 0 \/ d * TicksPerMs + SpeedUp * held <= Needed
    BY <1>7 DEF Publish, ProgressInv
  <2>3. d = 0 \/ d * TicksPerMs + SpeedUp * (held - age) <= Needed
    <3>1. held - age \in Int /\ held \in Int /\ held - age <= held
      BY <1>0
    <3>. HIDE DEF d
    <3>. QED BY <1>2, <2>2, <3>1
  <2>. QED BY <1>7, <2>1, <2>3 DEF Publish, ProgressInv
<1>8. CASE (\E v \in Thrusts : PublishJoy(v)) \/ UNCHANGED vars
  BY <1>8 DEF PublishJoy, vars, ProgressInv, Distance, Clamp
<1>. QED BY <1>3, <1>4, <1>5, <1>6, <1>7, <1>8 DEF Next

-----------------------------------------------------------------------------
(* The theorems.                                                           *)

LEMMA InitInv == ASSUME ManualConstants, Init PROVE TypeOK /\ AgeInv /\ ProgressInv
<1>1. Needed \in Nat /\ Limit \in Nat /\ PollTicks \in Nat /\ MaxGap \in Nat /\ 0 \in Thrusts
  BY NeededType DEF ManualConstants
<1>2. TypeOK /\ AgeInv
  <2>1. joyNew \in BOOLEAN
    BY DEF Init
  <2>2. 0 \in -Limit .. Limit /\ 0 \in 0 .. PollTicks + MaxGap /\ 0 \in 0 .. PollTicks
        /\ 0 \in 0 .. Needed /\ 0 <= MaxGap + 0
    BY <1>1
  <2>. QED BY <1>1, <2>1, <2>2 DEF Init, TypeOK, AgeInv
<1>3. Distance(speed, thrust) = 0
  <2>1. Clamp(0) = 0
    BY <1>1 DEF Clamp
  <2>. QED BY <2>1 DEF Init, Distance
<1>. QED BY <1>2, <1>3 DEF ProgressInv

LEMMA Reached ==
  ASSUME ManualConstants, TypeOK, ProgressInv
  PROVE  ThrustIsReached
<1> DEFINE d == Distance(speed, thrust)
<1>. SUFFICES ASSUME mAt = "publish", held * SpeedUp >= Needed PROVE speed = Clamp(thrust)
  BY DEF ThrustIsReached
<1>1. /\ thrust \in Int /\ speed \in -Limit .. Limit /\ Needed \in Nat /\ held \in Nat
      /\ SpeedUp \in Nat /\ TicksPerMs \in Nat \ {0} /\ Limit \in Nat
  BY NeededType DEF TypeOK, ManualConstants
<1>2. d \in Nat
  BY <1>1, DistanceType
<1>3. d = 0 \/ d * TicksPerMs + SpeedUp * held <= Needed
  BY DEF ProgressInv
<1>4. d = 0
  <2>. SUFFICES ASSUME d # 0 PROVE FALSE
    BY <1>2
  <2>. HIDE DEF d
  <2>1. SpeedUp * held = held * SpeedUp /\ SpeedUp * held \in Nat /\ d * TicksPerMs \in Nat
    BY <1>1, <1>2, StepFacts
  <2>2. d * 1 <= d * TicksPerMs
    BY <1>1, <1>2, Monotone
  <2>. QED BY <1>1, <1>2, <1>3, <2>1, <2>2
<1>. QED BY <1>1, <1>4 DEF Distance, Clamp

LEMMA Invariance ==
  ASSUME ManualConstants PROVE Spec => [](TypeOK /\ AgeInv /\ ProgressInv)
<1>1. Init => TypeOK /\ AgeInv /\ ProgressInv
  BY InitInv
<1>2. TypeOK /\ AgeInv /\ ProgressInv /\ [Next]_vars => (TypeOK /\ AgeInv /\ ProgressInv)'
  BY NextType, NextProgressInv
<1>. QED BY <1>1, <1>2, PTL DEF Spec

\* For any rates and any tick of the clock: a thrust that stays is reached in the time
\* the slower rate allows, however often the joystick wakes the thread (mixing.c:8-19,
\* manual.c:66-95).
THEOREM Reaches == ASSUME ManualConstants PROVE Spec => []ThrustIsReached
<1>1. TypeOK /\ ProgressInv => ThrustIsReached
  BY Reached
<1>. QED BY <1>1, Invariance, PTL

\* For any rates and any time between two passes: the speed stays between where it was
\* and the limited thrust (mixing.c:20-65).
THEOREM StaysBetween == ASSUME ManualConstants PROVE Spec => FilterStaysBetween
<1>1. TypeOK /\ AgeInv /\ [Next]_vars => [speed' \in Between(speed, thrust)]_vars
  BY NextType
<1>. QED BY <1>1, Invariance, PTL DEF Spec, FilterStaysBetween
=============================================================================
