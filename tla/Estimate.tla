-------------------------------- MODULE Estimate --------------------------------
(***************************************************************************)
(* The estimator of the pose (app/b3rb/src/estimate.c): at every message   *)
(* of the imu it integrates how far the wheels have turned since the last  *)
(* step.  The rotation is the wheels' own count; the heading takes the     *)
(* same path and is left out.                                              *)
(***************************************************************************)
EXTENDS Integers

CONSTANT Rotations  \* of the wheels, 0 among them

VARIABLES
  estAt,        \* where the thread stands
  imuNew,       \* the signal of the imu
  wheel,        \* topic_wheel_odometry
  wheelNew,     \* and its signal
  rotation,     \* ctx->wheel_odometry.rotation
  rotationLast, \* rotation_last
  moved,        \* the way ctx->x has come, in rotations, until a step is lost
  lost          \* history: a step was dropped because it was not finite

vars == <<estAt, imuNew, wheel, wheelNew, rotation, rotationLast, moved, lost>>

Init ==
  /\ estAt = "wait_imu" /\ imuNew = FALSE
  /\ wheel = 0 /\ wheelNew = FALSE
  /\ rotation = 0 /\ rotationLast = 0
  /\ moved = 0 /\ lost = FALSE

GoTo(from, to) == estAt = from /\ estAt' = to

\* A copy stays if its update misses the lock.
ReadWheel ==
  /\ wheelNew' = FALSE
  /\ rotation' \in IF wheelNew THEN {wheel, rotation} ELSE {rotation}

\* Before the loop the thread waits for one message of each.
WaitImu ==
  /\ imuNew /\ GoTo("wait_imu", "wait_wheel") /\ imuNew' = FALSE
  /\ UNCHANGED <<wheel, wheelNew, rotation, rotationLast, moved, lost>>
WaitWheel ==
  /\ wheelNew /\ GoTo("wait_wheel", "poll") /\ ReadWheel
  /\ UNCHANGED <<imuNew, wheel, rotationLast, moved, lost>>

\* The poll and the two updates; a second without the imu ends nothing.
Poll ==
  /\ imuNew /\ GoTo("poll", "step") /\ imuNew' = FALSE /\ ReadWheel
  /\ UNCHANGED <<wheel, rotationLast, moved, lost>>

\* Mutant of Slow: the rotation is taken before the time is looked at.
SlowTakesRotation ==
  /\ GoTo("step", "poll")
  /\ rotationLast' = rotation
  /\ UNCHANGED <<imuNew, wheel, wheelNew, rotation, moved, lost>>

\* More than half a second has passed: the step is left out, its rotation is not.
Slow ==
  /\ GoTo("step", "poll")
  /\ UNCHANGED <<imuNew, wheel, wheelNew, rotation, rotationLast, moved, lost>>

\* handle_update: a prediction that is not finite is not taken over.
HandleUpdate(finite) ==
  /\ lost' = (lost \/ ~finite)
  /\ moved' = IF lost' THEN moved ELSE moved + (rotation - rotationLast)

\* The prediction, and the publication.
Predict(finite) ==
  /\ GoTo("step", "poll")
  /\ rotationLast' = rotation
  /\ HandleUpdate(finite)
  /\ UNCHANGED <<imuNew, wheel, wheelNew, rotation>>

PublishImu ==
  /\ imuNew' = TRUE
  /\ UNCHANGED <<estAt, wheel, wheelNew, rotation, rotationLast, moved, lost>>

\* The wheels' driver publishes again and again, also when they stand.
PublishWheel(r) ==
  /\ wheel' = r /\ wheelNew' = TRUE
  /\ UNCHANGED <<estAt, imuNew, rotation, rotationLast, moved, lost>>

Next ==
  \/ WaitImu \/ WaitWheel \/ Poll \/ Slow \/ Predict(TRUE) \/ Predict(FALSE)
  \/ PublishImu \/ \E r \in Rotations : PublishWheel(r)

\* The thread goes on and the sensors publish; of the steps some are in time, and
\* some find the lock of the wheels' topic free.
Fairness ==
  /\ WF_vars(WaitImu) /\ WF_vars(WaitWheel) /\ WF_vars(PublishImu)
  /\ WF_vars(PublishWheel(wheel))
  /\ SF_vars(wheelNew /\ Poll /\ rotation' = wheel)
  /\ SF_vars(\E finite \in BOOLEAN : Predict(finite))

Spec == Init /\ [][Next]_vars /\ Fairness

-----------------------------------------------------------------------------
(* Properties.                                                             *)

TypeOK ==
  /\ estAt \in {"wait_imu", "wait_wheel", "poll", "step"}
  /\ imuNew \in BOOLEAN /\ wheelNew \in BOOLEAN /\ lost \in BOOLEAN
  /\ wheel \in Rotations /\ rotation \in Rotations /\ rotationLast \in Rotations
  /\ moved \in Int

\* When the wheels stand, the estimate comes to have counted every rotation, also those
\* of steps that were too slow to be integrated and of messages that were not read,
\* unless a step was not finite (estimate.c:86-97, 148-200).
RotationIsCounted == \A r \in Rotations :
  wheel = r ~> wheel # r \/ moved = r \/ lost
=============================================================================
