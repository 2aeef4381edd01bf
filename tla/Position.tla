-------------------------------- MODULE Position --------------------------------
(***************************************************************************)
(* The position controller (app/b3rb/src/position.c): whenever the         *)
(* estimator publishes it reads its topics and, in mode auto, follows the  *)
(* curve of the trajectory that the time falls in.  What the topics show   *)
(* is whatever was published last, and a copy stays when a lock is missed. *)
(* The twist that follows from the curve is arithmetic and left out.       *)
(***************************************************************************)
EXTENDS Integers, Sequences, SequencesExt

CONSTANTS
  Times,      \* of the clock, of the start and of the stops, 0 among them
  MaxCurves   \* curves of a trajectory, at least 1

\* time_start and the time_stop of each curve; the sender is free to send any.
Trajectories == [start : Times, stops : BoundedSeq(Times, MaxCurves)]

VARIABLES
  posAt,      \* where the thread stands
  pose,       \* the signal of the estimator
  trajectory, \* ctx->bezier_trajectory
  isAuto,     \* ctx->status.mode
  cmdVel      \* ctx->cmd_vel: stop, or the curve and the time on it

vars == <<posAt, pose, trajectory, isAuto, cmdVel>>

Halt == [curve |-> 0, t |-> 0, T |-> 0]

Init ==
  /\ posAt = "poll" /\ pose = FALSE
  /\ trajectory = [start |-> 0, stops |-> <<>>] /\ isAuto = FALSE
  /\ cmdVel = Halt

\* The poll ends: by the pose, or by a timeout of a second after which it begins again.
Poll ==
  /\ posAt = "poll" /\ pose /\ posAt' = "read"
  /\ UNCHANGED <<pose, trajectory, isAuto, cmdVel>>

\* The copies of trajectory and status, new or not; auto alone goes on.  In another mode
\* the trajectory has no use until it is copied again.
Read(tr, auto) ==
  /\ posAt = "read" /\ posAt' = IF auto THEN "auto" ELSE "poll"
  /\ pose' = FALSE
  /\ trajectory' = IF auto THEN tr ELSE trajectory
  /\ isAuto' = auto
  /\ UNCHANGED cmdVel

\* Without curves the time is compared with what the first one is: zero.
Stops(tr) == IF tr.stops = <<>> THEN <<0>> ELSE tr.stops

\* The first curve that has not stopped yet, if any.
Current(tr, now) == SelectInSeq(Stops(tr), LAMBDA stop : now < stop)

Begin(tr, k) == IF k = 1 THEN tr.start ELSE tr.stops[k - 1]

\* Mutant of Follow: nothing is asked of the start.
FollowEarly(tr, now) ==
  LET k == Current(tr, now)
  IN  IF k = 0 THEN Halt
      ELSE [curve |-> k, t |-> now - Begin(tr, k), T |-> Stops(tr)[k] - Begin(tr, k)]

\* auto_mode: before the start and after the last curve the car stops; on a curve its
\* twist follows from the curve, the time on it and the pose.
Follow(tr, now) ==
  LET k == Current(tr, now)
  IN  IF now < tr.start \/ k = 0 THEN Halt
      ELSE [curve |-> k, t |-> now - Begin(tr, k), T |-> Stops(tr)[k] - Begin(tr, k)]

\* auto_mode with the time as the uptime and the offset of the clock give it, and the
\* publication of cmd_vel.
AutoMode(now) ==
  /\ posAt = "auto" /\ posAt' = "poll"
  /\ cmdVel' = Follow(trajectory, now)
  /\ UNCHANGED <<pose, trajectory, isAuto>>

PublishPose ==
  /\ pose' = TRUE
  /\ UNCHANGED <<posAt, trajectory, isAuto, cmdVel>>

Next ==
  \/ Poll \/ PublishPose
  \/ \E tr \in Trajectories, auto \in BOOLEAN : Read(tr, auto)
  \/ \E now \in Times : AutoMode(now)

Spec == Init /\ [][Next]_vars

-----------------------------------------------------------------------------
(* Properties.                                                             *)

TypeOK ==
  /\ posAt \in {"poll", "read", "auto"} /\ pose \in BOOLEAN /\ isAuto \in BOOLEAN
  /\ trajectory \in Trajectories
  /\ DOMAIN cmdVel = {"curve", "t", "T"}

\* Whatever times a trajectory carries, in order or not, the car follows a curve the
\* trajectory has and at a time inside it, so that the rover's equations are asked for
\* nothing outside and T is never zero (position.c:84-126).
TimeInsideCurve ==
  [][cmdVel' # cmdVel /\ cmdVel'.curve # 0 =>
       /\ cmdVel'.curve \in DOMAIN trajectory.stops
       /\ 0 <= cmdVel'.t /\ cmdVel'.t < cmdVel'.T]_vars
=============================================================================
