-------------------------------- MODULE Mixing --------------------------------
(***************************************************************************)
(* The filter of the reference speed (app/b3rb/src/mixing.c): the speed    *)
(* follows its reference at a limited rate, one to speed up and another,   *)
(* twice as fast, to slow down.  Speeds are in units of the rate.          *)
(***************************************************************************)
EXTENDS Integers

CONSTANTS
  TicksPerMs,  \* ticks of the clock in a millisecond
  SpeedUp,     \* change of speed in a millisecond, 2 m/s^2
  SlowDown,    \* and towards zero, 4 m/s^2
  Limit        \* the largest speed, 1 m/s

\* Mutant of MsCeil: rounded down.
MsFloor(ticks) == ticks \div TicksPerMs

\* k_ticks_to_ms_ceil32.
MsCeil(ticks) == (ticks + TicksPerMs - 1) \div TicksPerMs

Clamp(f) == IF f < -Limit THEN -Limit ELSE IF f > Limit THEN Limit ELSE f

\* The four cases of filter_ref.  At a standstill the reference below counts as slowing
\* down.
Rate(f, ref) ==
  IF f >= 0 THEN (IF ref > f THEN SpeedUp ELSE SlowDown)
            ELSE (IF ref > f THEN SlowDown ELSE SpeedUp)

\* Mutant of FilterRef: the last step is as large as the others.
FilterRefOvershoots(f, ref, dt) ==
  Clamp(IF ref > f THEN f + Rate(f, ref) * dt ELSE IF ref < f THEN f - Rate(f, ref) * dt ELSE f)

\* Mutant of FilterRef: the range is not applied.
FilterRefUnlimited(f, ref, dt) ==
  LET step == Rate(f, ref) * dt
  IN  IF ref - f > step THEN f + step ELSE IF f - ref > step THEN f - step ELSE ref

\* The speed after dt milliseconds; the range is applied after the step.
FilterRef(f, ref, dt) ==
  LET step == Rate(f, ref) * dt
  IN  Clamp(IF ref - f > step THEN f + step ELSE IF f - ref > step THEN f - step ELSE ref)

\* What B3rbVelocity assumes of the filter: between the speed and the limited reference.
Between(f, ref) ==
  {x \in -Limit .. Limit : (f <= x /\ x <= Clamp(ref)) \/ (Clamp(ref) <= x /\ x <= f)}
=============================================================================
