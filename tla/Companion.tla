------------------------------- MODULE Companion -------------------------------
(***************************************************************************)
(* The driver on the companion computer (main.py) and the reader of its    *)
(* lidar (detection/lidar.py).  The driver sends a speed for every frame   *)
(* of the camera, and a stop when something is near; the reader folds the  *)
(* packets of a sweep into one distance.  What the controller has heard    *)
(* last is what the car does: it holds the last speed for ever             *)
(* (B3rbVelocity).  Speeds are stop and go, distances near and far;        *)
(* steering, display and logs are left out.                                *)
(***************************************************************************)
EXTENDS Naturals

CONSTANT Sectors  \* packets in a sweep, at least 3; the front is on both sides of 0

Front == {0, Sectors - 1}

VARIABLES
  driver,    \* where the driver stands
  mode,      \* what was chosen: none, auto, manual, or fsd (full self-driving)
  speed,     \* speed (auto) or forward_speed (manual)
  braking,   \* obstacle_detected_now
  hasty,     \* history: interrupted while it was ending
  failed,    \* history: an exception other than an interrupt ended the loop
  command,   \* the speed the controller has heard last
  missed,    \* history: the last stop on the way out was not delivered
  reader,    \* the reader's thread: off, reading, or ended
  sector,    \* the sector the sensor measures next
  lastAngle, \* last_angle
  sweepNear, \* scan_min_dist is below the threshold
  frontNear, \* front_distance is below the threshold
  obstacle,  \* something is near in the front
  clear      \* the lidar's serial line is in order

driveVars == <<driver, mode, speed, braking, hasty, failed>>
netVars   == <<command, missed>>
lidarVars == <<reader, sector, lastAngle, sweepNear, frontNear>>
envVars   == <<obstacle, clear>>
vars      == <<driveVars, netVars, lidarVars, envVars>>

Init ==
  /\ driver = "start" /\ mode = "none" /\ speed = "stop"
  /\ braking = FALSE /\ hasty = FALSE /\ failed = FALSE
  /\ command = "stop" /\ missed = FALSE
  /\ reader = "off" /\ sector = 0 /\ lastAngle = 0
  /\ sweepNear = FALSE /\ frontNear = FALSE
  /\ obstacle = FALSE /\ clear = TRUE

-----------------------------------------------------------------------------
(* The lidar's reader.                                                     *)

\* Mutant of Sweep: the distance is reset before it is shared.
SweepResetFirst(near) ==
  IF sector < lastAngle
  THEN frontNear' = FALSE /\ sweepNear' = near
  ELSE sweepNear' = near /\ UNCHANGED frontNear

\* The angle has decreased: the distance of the sweep is shared, this packet's included,
\* and a new one begins without it.
Sweep(near) ==
  IF sector < lastAngle
  THEN frontNear' = near /\ sweepNear' = FALSE
  ELSE sweepNear' = near /\ UNCHANGED frontNear

\* One packet.  If the line is not in order it may fail its CRC, or the read fails, and
\* the thread tries again for ever: the last distance stays meanwhile.
Packet ==
  /\ reader = "reading"
  /\ sector' = (sector + 1) % Sectors
  /\ \/ Sweep(sweepNear \/ (obstacle /\ sector \in Front)) /\ lastAngle' = sector
     \/ ~clear /\ UNCHANGED <<lastAngle, sweepNear, frontNear>>
  /\ UNCHANGED <<driveVars, netVars, reader, envVars>>

-----------------------------------------------------------------------------
(* The driver.                                                             *)

Turn(from, to) == driver = from /\ driver' = to

\* sendto: one datagram, delivered or not.  An error is printed and nothing is sent again.
Send(v, delivered) == command' = IF delivered THEN v ELSE command

SendStop == \E delivered \in BOOLEAN : Send("stop", delivered) /\ missed' = ~delivered

\* The process ends, and the reader with it.
Gone ==
  /\ driver' = "end" /\ reader' = "ended"
  /\ sector' = 0 /\ lastAngle' = 0 /\ sweepNear' = FALSE /\ frontNear' = FALSE

\* Ten tries to open the lidar and ten for the camera, or the process exits.
Start ==
  /\ \/ /\ Turn("start", "choose") /\ reader' = "reading"
        /\ UNCHANGED <<sector, lastAngle, sweepNear, frontNear>>
     \/ driver = "start" /\ Gone
  /\ UNCHANGED <<mode, speed, braking, hasty, failed, netVars, envVars>>

\* The answer to the question for a mode.  Auto begins with a speed if it has no display;
\* every speed of full self-driving is go.
Choose(m) ==
  /\ Turn("choose", "frame") /\ mode' = m
  /\ speed' \in CASE m = "auto" -> {"stop", "go"} [] m = "manual" -> {"stop"}
                   [] m = "fsd" -> {"go"}
  /\ UNCHANGED <<braking, hasty, failed, netVars, lidarVars, envVars>>

\* A frame is read and the track found in it; manual goes on with the keys.  Full
\* self-driving looks at the lidar before as well, but what it decides there is overwritten.
Frame ==
  /\ Turn("frame", IF mode = "manual" THEN "keys" ELSE "brake")
  /\ UNCHANGED <<mode, speed, braking, hasty, failed, netVars, lidarVars, envVars>>

\* get_front_distance.
Brake ==
  /\ Turn("brake", "send") /\ braking' = frontNear
  /\ UNCHANGED <<mode, speed, hasty, failed, netVars, lidarVars, envVars>>

\* send_cmd_vel.
SendSpeed(delivered) ==
  /\ Turn("send", IF mode = "manual" THEN "frame" ELSE "keys")
  /\ Send(IF braking THEN "stop" ELSE speed, delivered)
  /\ UNCHANGED <<mode, speed, braking, hasty, failed, missed, lidarVars, envVars>>

\* Another key than q, or none; in auto and manual w and s change the speed.
Keys ==
  /\ Turn("keys", IF mode = "manual" THEN "send" ELSE "frame")
  /\ speed' \in IF mode = "fsd" THEN {speed} ELSE {"stop", "go"}
  /\ UNCHANGED <<mode, braking, hasty, failed, netVars, lidarVars, envVars>>

\* The driver is in the loop of its mode.
Looping == driver \in {"frame", "brake", "send", "keys"}

\* The loop has ended, and its speed has no meaning any more.
Leave == speed' = "stop" /\ braking' = FALSE

\* q: full self-driving and manual send a stop at once, auto leaves it to the end.
Quit ==
  /\ Turn("keys", "finally") /\ Leave
  /\ IF mode = "auto" THEN UNCHANGED netVars ELSE SendStop
  /\ UNCHANGED <<mode, hasty, failed, lidarVars, envVars>>

\* The camera fails, or anything else raises an exception.
Fail ==
  /\ Looping /\ driver' = "finally" /\ failed' = TRUE /\ Leave
  /\ UNCHANGED <<mode, hasty, netVars, lidarVars, envVars>>

\* Ctrl-C, at any time.
Interrupt ==
  /\ \/ Looping /\ driver' = "handler" /\ UNCHANGED <<hasty, lidarVars>>
     \/ Turn("handler", "finally") /\ hasty' = TRUE /\ UNCHANGED lidarVars
     \/ driver = "finally" /\ Gone /\ hasty' = TRUE
     \/ driver \in {"start", "choose"} /\ Gone /\ UNCHANGED hasty
  /\ Leave
  /\ UNCHANGED <<mode, failed, netVars, envVars>>

\* Mutant of Handler: the stop is left to the end in every mode.
HandlerSilent ==
  /\ Turn("handler", "finally")
  /\ UNCHANGED <<mode, speed, braking, hasty, failed, netVars, lidarVars, envVars>>

\* except KeyboardInterrupt: a stop, except in manual.  (In its first frame full
\* self-driving fails here for want of a steering, but it has sent no speed yet.)
Handler ==
  /\ Turn("handler", "finally")
  /\ IF mode = "manual" THEN UNCHANGED netVars ELSE SendStop
  /\ UNCHANGED <<mode, speed, braking, hasty, failed, lidarVars, envVars>>

\* finally: a stop, except in full self-driving, which only stops its lap detector.  Auto
\* stops the lidar; in the other modes its thread ends with the process.
Finally ==
  /\ driver = "finally" /\ Gone
  /\ IF mode = "fsd" THEN UNCHANGED netVars ELSE SendStop
  /\ UNCHANGED <<mode, speed, braking, hasty, failed, envVars>>

\* What the lidar sees comes and goes, and so does its line.
Surroundings ==
  /\ driver # "end"
  /\ \/ obstacle' = ~obstacle /\ UNCHANGED clear
     \/ clear' = ~clear /\ UNCHANGED obstacle
  /\ UNCHANGED <<driveVars, netVars, lidarVars>>

\* A pass of that loop.
Pass == Frame \/ Brake \/ (\E delivered \in BOOLEAN : SendSpeed(delivered)) \/ Keys

Next ==
  \/ Start \/ \E m \in {"auto", "manual", "fsd"} : Choose(m)
  \/ Pass \/ Quit \/ Fail \/ Interrupt \/ Handler \/ Finally
  \/ Packet \/ Surroundings

\* The reader reads, the loop goes on, and not every datagram is lost.
Fairness ==
  /\ WF_vars(Packet) /\ WF_vars(Pass)
  /\ SF_vars(SendSpeed(TRUE))

Spec == Init /\ [][Next]_vars /\ Fairness

-----------------------------------------------------------------------------
(* Properties.                                                             *)

TypeOK ==
  /\ driver \in {"start", "choose", "frame", "brake", "send", "keys", "handler",
                 "finally", "end"}
  /\ mode \in {"none", "auto", "manual", "fsd"}
  /\ {speed, command} \subseteq {"stop", "go"}
  /\ {braking, hasty, failed, missed, sweepNear, frontNear, obstacle,
      clear} \subseteq BOOLEAN
  /\ reader \in {"off", "reading", "ended"}
  /\ {sector, lastAngle} \subseteq 0 .. Sectors - 1

\* "Redundant stop to ensure we never leave motors spinning": a driver that ends by its
\* keys, by Ctrl-C or by an exception leaves the controller with a stop - unless the last
\* datagram was lost, somebody interrupted it while it was ending, or full self-driving
\* was ended by an exception (main.py:162-172, 257-258, 366-371, 461-468).
StoppedAtEnd ==
  driver = "end" /\ ~missed /\ ~hasty /\ ~(mode = "fsd" /\ failed) => command = "stop"

\* While the line is clear, the car comes to stand before an obstacle that stays, and full
\* self-driving comes to drive on when it has gone: no distance of an old sweep stays
\* (lidar.py:138-198, main.py:66-119, 389-423).
CarFollowsLidar ==
  \A near \in BOOLEAN :
    <>[](/\ obstacle = near /\ clear
         /\ Looping /\ mode \in IF near THEN {"auto", "fsd"} ELSE {"fsd"})
      => <>[](command = IF near THEN "stop" ELSE "go")
=============================================================================
