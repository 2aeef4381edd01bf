----------------------------- MODULE B3rbVelocity -----------------------------
(***************************************************************************)
(* The velocity thread of the vehicle (app/b3rb/src/velocity.c).  By the   *)
(* mode of the status it passes on the manual actuators, follows cmd_vel,  *)
(* or follows cmd_vel and counts a lap (AUTO), and it publishes the        *)
(* actuators.  Steering takes the same path as speed and is left out.      *)
(*                                                                         *)
(* Speeds are in cm/s.  Positions lie on a line, in decimetres: only the   *)
(* distance to the start of the lap matters.  The thread is a client of    *)
(* its topics as ZrosClient says, and time passes while it polls.          *)
(***************************************************************************)
EXTENDS Integers, ZrosClient

CONSTANTS
  Statuses,   \* the statuses the supervisor publishes
  Speeds,     \* the speeds of cmd_vel and of the manual actuators
  Positions,  \* the positions the estimator reports
  NoStart,    \* no start position is set
  PollTicks,  \* ticks k_poll waits, one second
  StaleTicks  \* ticks after which cmd_vel is lost, two seconds

Cap == 20  \* the speed after the lap is done

Modes == {"unknown", "manual", "auto", "cmd_vel", "calibration"}

ASSUME B3rbVelocityAssumption ==
  /\ Speeds \subseteq Int /\ Positions \subseteq Int /\ NoStart \notin Positions
  /\ 0 \in Positions
  /\ PollTicks \in Nat /\ StaleTicks \in Nat
  /\ Statuses \subseteq [arming : {"disarmed", "armed"}, mode : Modes]

VARIABLES
  pc,        \* where the thread stands in its loop
  status,    \* topic_status, its arming and its mode
  cmdVel,    \* topic_cmd_vel: the speed asked for
  manual,    \* topic_actuators_manual
  odom,      \* topic_estimator_odometry: the position
  mode,      \* mode: the mode at the top of the loop
  prevMode,  \* prev_mode
  lap,       \* ctx->state
  start,     \* g_start_x, g_start_y when g_initial_position_set
  ever,      \* cmd_vel_ever_received
  silence,   \* ticks since cmd_vel_last_ticks, counted up to StaleTicks + PollTicks + 1
  speedRef,  \* speed_ref_f, of the filters of follow_line and update_cmd_vel
  actuators, \* topic_actuators: the speed published last
  polled,    \* ticks this poll has waited
  disarmed,  \* history: ticks the topic has said disarmed, up to PollTicks + 1
  left       \* history: the loop acted in another mode since the lap was reset

vars == <<pc, status, cmdVel, manual, odom, news, ctx, lost, mode, prevMode, lap, start,
          ever, silence, speedRef, actuators, polled, disarmed, left>>
topicVars == <<status, cmdVel, manual, odom>>
lapVars   == <<lap, start, ever>>
outVars   == <<speedRef, actuators>>

SilenceMax == StaleTicks + PollTicks + 1
Saturate(x, n) == IF x > n THEN n ELSE x
Abs(x) == IF x < 0 THEN -x ELSE x

Init ==
  /\ pc = "top"
  /\ status = [arming |-> "disarmed", mode |-> "unknown"]
  /\ cmdVel = 0 /\ manual = 0 /\ odom = 0
  /\ news = {} /\ lost = FALSE
  /\ ctx = [status |-> status, cmdVel |-> 0, manual |-> 0, odom |-> 0]
  /\ mode = "unknown" /\ prevMode = "unknown"
  /\ lap = "normal" /\ start = NoStart
  /\ ever = FALSE /\ silence = 0
  /\ speedRef = [auto |-> 0, cmdVel |-> 0]
  /\ actuators = 0
  /\ polled = 0 /\ disarmed = 0 /\ left = FALSE

-----------------------------------------------------------------------------
(* The loop.                                                               *)

\* mode is read before the poll and before the status is updated.
Top ==
  /\ pc = "top"
  /\ mode' = ctx.status.mode
  /\ polled' = 0
  /\ pc' = "poll"
  /\ UNCHANGED <<topicVars, news, ctx, lost, prevMode, lapVars, silence, outVars,
                 disarmed, left>>

Awaited == IF mode = "manual" THEN "manual" ELSE "cmd_vel"

Poll ==
  /\ pc = "poll"
  /\ Awaited \in news \/ polled = PollTicks
  /\ pc' = "read_status"
  /\ UNCHANGED <<topicVars, news, ctx, lost, mode, prevMode, lapVars, silence, outVars,
                 polled, disarmed, left>>

\* Mutant of ReadStatus: skipped when the poll timed out.
ReadStatusOnEvent ==
  /\ pc = "read_status"
  /\ IF Awaited \in news
     THEN Read("status", [ctx EXCEPT !.status = status]) ELSE UNCHANGED <<ctx, news, lost>>
  /\ pc' = "read_cmd_vel"
  /\ UNCHANGED <<topicVars, mode, prevMode, lapVars, silence, outVars, polled,
                 disarmed, left>>

ReadStatus ==
  /\ pc = "read_status"
  /\ Read("status", [ctx EXCEPT !.status = status])
  /\ pc' = "read_cmd_vel"
  /\ UNCHANGED <<topicVars, mode, prevMode, lapVars, silence, outVars, polled,
                 disarmed, left>>

ReadCmdVel ==
  /\ pc = "read_cmd_vel"
  /\ Read("cmd_vel", [ctx EXCEPT !.cmdVel = cmdVel])
  /\ ever' = (ever \/ "cmd_vel" \in news)
  /\ silence' = IF "cmd_vel" \in news THEN 0 ELSE silence
  /\ pc' = "check_stale"
  /\ UNCHANGED <<topicVars, mode, prevMode, lap, start, outVars, polled, disarmed, left>>

\* Mutants of CheckStale: the lap state survives; the test is never made.
CheckStaleKeepsLap ==
  /\ pc = "check_stale"
  /\ IF ever /\ silence > StaleTicks
     THEN start' = NoStart /\ ever' = FALSE /\ left' = FALSE
     ELSE UNCHANGED <<start, ever, left>>
  /\ pc' = "read_manual"
  /\ UNCHANGED <<topicVars, news, ctx, lost, mode, prevMode, lap, silence, outVars, polled,
                 disarmed>>
CheckStaleNever ==
  /\ pc = "check_stale"
  /\ pc' = "read_manual"
  /\ UNCHANGED <<topicVars, news, ctx, lost, mode, prevMode, lapVars, silence, outVars,
                 polled, disarmed, left>>

\* cmd_vel is lost: the lap is reset, the last speed stays.
CheckStale ==
  /\ pc = "check_stale"
  /\ IF ever /\ silence > StaleTicks
     THEN lap' = "normal" /\ start' = NoStart /\ ever' = FALSE /\ left' = FALSE
     ELSE UNCHANGED <<lapVars, left>>
  /\ pc' = "read_manual"
  /\ UNCHANGED <<topicVars, news, ctx, lost, mode, prevMode, silence, outVars, polled, disarmed>>

ReadManual ==
  /\ pc = "read_manual"
  /\ Read("manual", [ctx EXCEPT !.manual = manual])
  /\ pc' = "read_odom"
  /\ UNCHANGED <<topicVars, mode, prevMode, lapVars, silence, outVars, polled,
                 disarmed, left>>

ReadOdom ==
  /\ pc = "read_odom"
  /\ Read("odom", [ctx EXCEPT !.odom = odom])
  /\ pc' = "act"
  /\ UNCHANGED <<topicVars, mode, prevMode, lapVars, silence, outVars, polled,
                 disarmed, left>>

-----------------------------------------------------------------------------
(* The modes.                                                              *)

\* update_state, from lap state l and start s: the new start ...
StartAfter(s) ==
  IF s = NoStart /\ Abs(ctx.cmdVel) >= 10 THEN ctx.odom ELSE s

\* ... and the new lap state.
LapAfter(l, s) ==
  LET s1 == StartAfter(s)
  IN  IF s1 = NoStart THEN l
      ELSE IF l = "normal" /\ Abs(ctx.odom - s1) > 5 THEN "started"
      ELSE IF l = "started" /\ Abs(ctx.odom - s1) < 1 THEN "done"
      ELSE l

\* Mutant of AutoSpeed: without the cap.
AutoSpeedUncapped(l) == ctx.cmdVel

\* The speed follow_line asks for.
AutoSpeed(l) ==
  IF l # "done" THEN ctx.cmdVel ELSE IF Abs(ctx.cmdVel) < 1 THEN 0 ELSE Cap

\* Mutant of Filtered: without the range.
FilteredUnbounded(f, target) == {f, target}

\* filter_refs moves a reference some way towards its target, in the range of
\* -1 to 1 m/s (see Mixing).
Filtered(f, target) ==
  LET Clamp(x) == IF x > 100 THEN 100 ELSE IF x < -100 THEN -100 ELSE x
      t == Clamp(target)
  IN  {x \in {Clamp(y) : y \in Speeds \cup {0, Cap}} :
         (f <= x /\ x <= t) \/ (t <= x /\ x <= f)}

\* zros_pub_update of the actuators.
PublishActuators(v) == Publish(actuators, actuators' = v)

Armed == ctx.status.arming = "armed"

Stop ==
  /\ ~Armed
  /\ PublishActuators(0)
  /\ left' = (left \/ ctx.status.mode # "auto")
  /\ UNCHANGED <<lap, start, speedRef>>

Manual ==
  /\ Armed /\ ctx.status.mode = "manual"
  /\ PublishActuators(ctx.manual)
  /\ left' = TRUE
  /\ UNCHANGED <<lap, start, speedRef>>

\* Mutant of FollowLine: the new lap forgets the start only.
FollowLineKeepsLap ==
  /\ Armed /\ ctx.status.mode = "auto"
  /\ LET s == IF prevMode # "auto" THEN NoStart ELSE start
     IN  lap' = LapAfter(lap, s) /\ start' = StartAfter(s)
  /\ left' = (left /\ prevMode = "auto")
  /\ \E v \in Filtered(speedRef.auto, AutoSpeed(lap')) :
       speedRef' = [speedRef EXCEPT !.auto = v] /\ PublishActuators(v)

\* AUTO after another mode starts a new lap; then follow_line.
FollowLine ==
  /\ Armed /\ ctx.status.mode = "auto"
  /\ LET reset == prevMode # "auto"
         l     == IF reset THEN "normal" ELSE lap
         s     == IF reset THEN NoStart ELSE start
     IN  /\ lap' = LapAfter(l, s)
         /\ start' = StartAfter(s)
         /\ left' = (left /\ ~reset)
  /\ \E v \in Filtered(speedRef.auto, AutoSpeed(lap')) :
       speedRef' = [speedRef EXCEPT !.auto = v] /\ PublishActuators(v)

\* update_cmd_vel, in every other mode.
FollowCmdVel ==
  /\ Armed /\ ctx.status.mode \notin {"manual", "auto"}
  /\ \E v \in Filtered(speedRef.cmdVel, ctx.cmdVel) :
       speedRef' = [speedRef EXCEPT !.cmdVel = v] /\ PublishActuators(v)
  /\ left' = TRUE
  /\ UNCHANGED <<lap, start>>

Act ==
  /\ pc = "act"
  /\ Stop \/ Manual \/ FollowLine \/ FollowCmdVel
  /\ prevMode' = mode
  /\ pc' = "top"
  /\ UNCHANGED <<topicVars, news, ctx, mode, ever, silence, polled, disarmed>>

-----------------------------------------------------------------------------
(* What surrounds the thread.                                              *)

threadVars == <<pc, ctx, mode, prevMode, lapVars, silence, outVars, polled, left>>

PublishStatus(s) ==
  /\ status' = s
  /\ Signal("status")
  /\ disarmed' = IF s.arming = "disarmed" THEN disarmed ELSE 0
  /\ UNCHANGED <<cmdVel, manual, odom, threadVars>>

PublishCmdVel(v) ==
  /\ cmdVel' = v
  /\ Signal("cmd_vel")
  /\ UNCHANGED <<status, manual, odom, threadVars, disarmed>>

PublishManual(v) ==
  /\ manual' = v
  /\ Signal("manual")
  /\ UNCHANGED <<status, cmdVel, odom, threadVars, disarmed>>

PublishOdom(x) ==
  /\ odom' = x
  /\ Signal("odom")
  /\ UNCHANGED <<status, cmdVel, manual, threadVars, disarmed>>

Tick ==
  /\ pc = "poll" /\ polled < PollTicks /\ Awaited \notin news
  /\ polled' = polled + 1
  /\ silence' = Saturate(silence + 1, SilenceMax)
  /\ disarmed' = IF status.arming = "armed" THEN 0 ELSE Saturate(disarmed + 1, PollTicks + 1)
  /\ UNCHANGED <<topicVars, pc, news, ctx, lost, mode, prevMode, lapVars, outVars, left>>

Loop == Top \/ Poll \/ ReadStatus \/ ReadCmdVel \/ CheckStale \/ ReadManual \/ ReadOdom \/ Act

Environment ==
  \/ \E s \in Statuses : PublishStatus(s)
  \/ \E v \in Speeds : PublishCmdVel(v) \/ PublishManual(v)
  \/ \E x \in Positions : PublishOdom(x)

Next == Loop \/ Environment \/ Tick

Spec == Init /\ [][Next]_vars

-----------------------------------------------------------------------------
(* Properties.                                                             *)

StatusType == [arming : {"disarmed", "armed"}, mode : Modes]
Velocities == Speeds \cup {0}
Copies ==
  [status : StatusType, cmdVel : Velocities, manual : Velocities, odom : Positions]

TypeOK ==
  /\ pc \in {"top", "poll", "read_status", "read_cmd_vel", "check_stale",
             "read_manual", "read_odom", "act"}
  /\ status \in StatusType /\ cmdVel \in Velocities /\ manual \in Velocities
  /\ odom \in Positions /\ news \subseteq {"status", "cmd_vel", "manual", "odom"}
  /\ ctx \in Copies /\ mode \in Modes /\ prevMode \in Modes
  /\ lap \in {"normal", "started", "done"} /\ start \in Positions \cup {NoStart}
  /\ ever \in BOOLEAN /\ left \in BOOLEAN /\ lost \in BOOLEAN
  /\ silence \in 0 .. SilenceMax /\ polled \in 0 .. PollTicks
  /\ disarmed \in 0 .. PollTicks + 1
  /\ speedRef \in [auto : -100 .. 100, cmdVel : -100 .. 100]
  /\ actuators \in Velocities \cup -100 .. 100

\* A lap that is under way or done has a start: both resets of the lap forget
\* the start and the state together (velocity.c:86-121, 248-252, 275-279).
LapHasStart == lap # "normal" => start # NoStart

\* While the lap is done the speed asked for does not grow above the cap, not
\* by the filter's memory of an earlier speed either (velocity.c:163-171).
DoneIsSlow ==
  [][lap' = "done" /\ speedRef'.auto > speedRef.auto => speedRef'.auto <= Cap]_vars

\* A cmd_vel that falls silent counts as received for the limit and one poll at
\* most, wherever the thread stands and whichever topic the mode makes it wait
\* for (velocity.c:203-233, 245-253).
SilenceIsNoticed == ever => silence <= StaleTicks + PollTicks

\* When nothing is dropped, a disarmed status stops the actuators within one
\* poll, although the thread waits for another topic (velocity.c:203-233, 265).
DisarmStopsInTime == ~lost /\ disarmed > PollTicks => actuators = 0

\* A lap under way keeps its start until it is reset (velocity.c:90-96).
StartIsKept ==
  [][lap # "normal" /\ lap' # "normal" => start' = start]_vars

\* "Reset lap detection when re-entering AUTO from another mode": the loop does
\* not drive in AUTO with the lap of before another mode (velocity.c:274).
ReentryResets ==
  [][Act /\ start # NoStart /\ ctx.status = [arming |-> "armed", mode |-> "auto"]
     => ~left']_vars

\* "Wait until the car is actually driving (main.py sending speed)": a start is
\* captured only while cmd_vel is being received (velocity.c:90).
StartNeedsDriver ==
  [][start = NoStart /\ start' # NoStart => ever]_vars
=============================================================================
