-------------------------------- MODULE Manual --------------------------------
(***************************************************************************)
(* Manual driving (app/b3rb/src/manual.c): the thread waits for the        *)
(* joystick for at most 10 ms, passes its thrust through the filter of     *)
(* Mixing and publishes it.  How far the filter moves depends on the time  *)
(* it finds to have passed.  Steering takes the same path and is left out. *)
(***************************************************************************)
EXTENDS Mixing

CONSTANTS
  Thrusts,    \* what the joystick asks for, 0 among it
  PollTicks,  \* ticks k_poll waits
  MaxGap      \* bound: ticks between the two readings of the clock

VARIABLES
  mAt,     \* where the thread stands
  axis,    \* topic_joy, its thrust
  joyNew,  \* the signal of the subscription
  thrust,  \* ctx->joy
  speed,   \* speed_ref_f
  age,     \* ticks since last_ticks
  waited,  \* ticks this poll has waited
  held     \* history: ticks that thrust has been the same, up to Needed

vars == <<mAt, axis, joyNew, thrust, speed, age, waited, held>>

\* The ticks the filter needs from one end of its range to the other.
Needed == 2 * Limit * TicksPerMs

HeldFor(ticks) == IF held + ticks > Needed THEN Needed ELSE held + ticks

Init ==
  /\ mAt = "poll" /\ axis = 0 /\ joyNew = FALSE /\ thrust = 0
  /\ speed = 0 /\ age = 0 /\ waited = 0 /\ held = 0

Poll ==
  /\ mAt = "poll" /\ (joyNew \/ waited = PollTicks)
  /\ mAt' = "read"
  /\ UNCHANGED <<axis, joyNew, thrust, speed, age, waited, held>>

Tick ==
  /\ mAt = "poll" /\ ~joyNew /\ waited < PollTicks
  /\ waited' = waited + 1 /\ age' = age + 1 /\ held' = HeldFor(1)
  /\ UNCHANGED <<mAt, axis, joyNew, thrust, speed>>

Read ==
  /\ mAt = "read" /\ mAt' = "filter"
  /\ joyNew' = FALSE
  /\ thrust' \in IF joyNew THEN {axis, thrust} ELSE {thrust}
  /\ held' = IF thrust' = thrust THEN held ELSE 0
  /\ UNCHANGED <<axis, speed, age, waited>>

\* elapsed_ms and filter_refs: the time is that of the second reading of the clock, the
\* next one counts from the first.
Filter ==
  /\ mAt = "filter" /\ mAt' = "publish"
  /\ \E gap \in 0 .. MaxGap :
       LET ms == MsCeil(age + gap)
       IN  /\ age' = IF ms > 0 THEN gap ELSE age + gap
           /\ speed' = IF ms > 0 THEN FilterRef(speed, thrust, ms) ELSE speed
           /\ held' = HeldFor(gap)
  /\ UNCHANGED <<axis, joyNew, thrust, waited>>

\* b3rb_set_actuators and the publication of actuators_manual.
Publish ==
  /\ mAt = "publish" /\ mAt' = "poll"
  /\ waited' = 0
  /\ UNCHANGED <<axis, joyNew, thrust, speed, age, held>>

PublishJoy(v) ==
  /\ axis' = v /\ joyNew' = TRUE
  /\ UNCHANGED <<mAt, thrust, speed, age, waited, held>>

Next == Poll \/ Tick \/ Read \/ Filter \/ Publish \/ \E v \in Thrusts : PublishJoy(v)

Spec == Init /\ [][Next]_vars

-----------------------------------------------------------------------------
(* Properties.                                                             *)

TypeOK ==
  /\ mAt \in {"poll", "read", "filter", "publish"}
  /\ axis \in Thrusts /\ thrust \in Thrusts /\ joyNew \in BOOLEAN
  /\ speed \in -Limit .. Limit /\ age \in 0 .. PollTicks + MaxGap
  /\ waited \in 0 .. PollTicks /\ held \in 0 .. Needed

\* A thrust that stays is reached in the time the rates allow, however often the
\* joystick wakes the thread: no part of a millisecond is lost between two passes
\* (mixing.c:8-19, manual.c:66-95).
ThrustIsReached ==
  mAt = "publish" /\ held * SpeedUp >= Needed => speed = Clamp(thrust)

\* The speed never leaves the way from where it was to the thrust, limited to the
\* range: the filter does what B3rbVelocity assumes of it (mixing.c:20-65).
FilterStaysBetween == [][speed' \in Between(speed, thrust)]_vars
=============================================================================
