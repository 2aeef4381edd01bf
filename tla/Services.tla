-------------------------------- MODULE Services --------------------------------
(***************************************************************************)
(* The parts of the vehicle that share no state with each other beyond     *)
(* what each models of its surroundings.  A behaviour is one of a single   *)
(* part; the others stand still.                                           *)
(***************************************************************************)
EXTENDS Integers, Sequences

CONSTANTS
  WorkModes, Samples,                                 \* WorkQueues
  MaxSockets,                                         \* EthService
  MaxErrors,                                          \* TcpBridge
  Sensors, Values, RingSize,                          \* SilBridge
  TicksPerMs, SpeedUp, SlowDown, Limit,               \* Mixing
  Thrusts, PollTicks, MaxGap,                         \* Manual
  LightModes, Armings, LightSafeties, Batteries, Joys, \* Lights
  SoundModes, SoundSafeties,                          \* Sound
  Times, MaxCurves,                                   \* Position
  Rotations,                                          \* Estimate
  Sectors,                                            \* Companion
  Track, Depart, Return                               \* LapDetector

\* Slowing down is not slower than speeding up; a topic begins with zeros; a car that has
\* departed has not returned.
ASSUME ServicesAssumption ==
  /\ Samples \in Nat /\ MaxSockets \in Nat /\ MaxErrors \in Nat /\ RingSize \in Nat
  /\ 0 \in Values
  /\ TicksPerMs \in Nat \ {0} /\ Limit \in Nat
  /\ SpeedUp \in Nat /\ SlowDown \in Nat /\ SpeedUp <= SlowDown
  /\ Thrusts \subseteq Int /\ 0 \in Thrusts /\ PollTicks \in Nat /\ MaxGap \in Nat
  /\ Times \subseteq Nat /\ 0 \in Times /\ MaxCurves \in Nat
  /\ Rotations \subseteq Int /\ 0 \in Rotations
  /\ Sectors \in Nat \ {0}
  /\ Track \subseteq Nat /\ 0 \in Track
  /\ Depart \in Nat /\ Return \in Nat /\ Return <= Depart

VARIABLES
  part,  \* the part this behaviour is of
  queue, sampling, mode, imu, switch, request,
  thread, running, socket, inbox, updates, asked,
  next, tail, shell, cursor, kept,
  at, reconnect, errorCount, unsent, peer, arrived,
  host, stored, ring, clock, offset, zephyr, published, told, shutdown, dropped,
  gAt, going, isAlive, device,
  mAt, axis, joyNew, thrust, speed, age, waited, held,
  light, shown, seen, lightsOn, lit, leds, ledsNew, strip,
  buzz, last, heard, status, started, tone,
  posAt, pose, trajectory, isAuto, cmdVel,
  estAt, imuNew, wheel, wheelNew, rotation, rotationLast, moved, lost,
  driver, driveMode, driveSpeed, braking, hasty, failed, command, missed,
  reader, sector, lastAngle, sweepNear, frontNear, obstacle, clear,
  car, driven, from, lapState, detected, laps, away, crossings

workVars == <<queue, sampling, mode, imu, switch, request>>
ethVars == <<thread, running, socket, inbox, updates, asked>>
nodesVars == <<next, tail, shell, cursor, kept>>
tcpVars == <<at, reconnect, errorCount, unsent, peer, arrived>>
silVars == <<host, stored, ring, clock, offset, zephyr, published, told, shutdown, dropped>>
receiverVars == <<gAt, going, isAlive, device>>
drivingVars == <<mAt, axis, joyNew, thrust, speed, age, waited, held>>
lampsVars == <<light, shown, seen, lightsOn, lit, leds, ledsNew, strip>>
buzzerVars == <<buzz, last, heard, status, started, tone>>
pathVars == <<posAt, pose, trajectory, isAuto, cmdVel>>
poseVars == <<estAt, imuNew, wheel, wheelNew, rotation, rotationLast, moved, lost>>
driveVars == <<driver, driveMode, driveSpeed, braking, hasty, failed, command, missed,
               reader, sector, lastAngle, sweepNear, frontNear, obstacle, clear>>
lapVars == <<car, driven, from, lapState, detected, laps, away, crossings>>
vars == <<part, workVars, ethVars, nodesVars, tcpVars, silVars, receiverVars,
          drivingVars, lampsVars, buzzerVars, pathVars, poseVars, driveVars, lapVars>>

Work == INSTANCE WorkQueues WITH Modes <- WorkModes
Eth == INSTANCE EthService
Nodes == INSTANCE Broker WITH Services <- {"rx", "tx"}
Tcp == INSTANCE TcpBridge
Sil == INSTANCE SilBridge WITH Topics <- Sensors
Receiver == INSTANCE Gnss
Driving == INSTANCE Manual
Lamps == INSTANCE Lights WITH Modes <- LightModes, Safeties <- LightSafeties
Buzzer == INSTANCE Sound WITH Modes <- SoundModes, Safeties <- SoundSafeties
Path == INSTANCE Position
Pose == INSTANCE Estimate
Drive == INSTANCE Companion WITH mode <- driveMode, speed <- driveSpeed
Laps == INSTANCE LapDetector

Parts == {"work", "eth", "broker", "tcp", "sil", "gnss", "manual",
          "lights", "sound", "position", "estimate",
          "companion", "laps"}

Init ==
  /\ part \in Parts
  /\ Work!Init /\ Eth!Init /\ Nodes!Init /\ Tcp!Init /\ Sil!Init /\ Receiver!Init
  /\ Driving!Init /\ Lamps!Init /\ Buzzer!Init /\ Path!Init /\ Pose!Init
  /\ Drive!Init /\ Laps!Init
  /\ part # "lights" => light = "mode"  \* no other part looks at it

\* A step of the part; the others stand still.
Next ==
  /\ UNCHANGED part
  /\ IF part = "work" THEN Work!Next ELSE UNCHANGED workVars
  /\ IF part = "eth" THEN Eth!Next ELSE UNCHANGED ethVars
  /\ IF part = "broker" THEN Nodes!Next ELSE UNCHANGED nodesVars
  /\ IF part = "tcp" THEN Tcp!Next ELSE UNCHANGED tcpVars
  /\ IF part = "sil" THEN Sil!Next ELSE UNCHANGED silVars
  /\ IF part = "gnss" THEN Receiver!Next ELSE UNCHANGED receiverVars
  /\ IF part = "manual" THEN Driving!Next ELSE UNCHANGED drivingVars
  /\ IF part = "lights" THEN Lamps!Next ELSE UNCHANGED lampsVars
  /\ IF part = "sound" THEN Buzzer!Next ELSE UNCHANGED buzzerVars
  /\ IF part = "position" THEN Path!Next ELSE UNCHANGED pathVars
  /\ IF part = "estimate" THEN Pose!Next ELSE UNCHANGED poseVars
  /\ IF part = "companion" THEN Drive!Next ELSE UNCHANGED driveVars
  /\ IF part = "laps" THEN Laps!Next ELSE UNCHANGED lapVars

Spec == Init /\ [][Next]_vars

-----------------------------------------------------------------------------
(* Properties: those of the parts, each under the fairness of its part.    *)

\* The types of every part.
TypeOK ==
  /\ part \in Parts
  /\ Work!TypeOK /\ Eth!TypeOK /\ Nodes!TypeOK /\ Tcp!TypeOK /\ Sil!TypeOK
  /\ Receiver!TypeOK /\ Driving!TypeOK /\ Lamps!TypeOK
  /\ Buzzer!TypeOK /\ Path!TypeOK /\ Pose!TypeOK
  /\ Drive!TypeOK /\ Laps!TypeOK

\* A press of the safety switch is handled, whatever the imu does, and the topic comes to
\* show the state of the switch (safety/main.c:72-85).
PressServed == Work!Fairness => Work!PressServed /\ Work!SwitchShown

\* A request to calibrate is followed by a whole calibration (imu/main.c:306-329).
CalibrationServed == Work!Fairness => Work!CalibrationServed

\* A stop the shell accepts ends the service's thread (eth_rx/main.c:190-251).
StopEnds == Eth!Fairness => Eth!StopEnds

\* No node of a command that has ended is in the broker's list (synapse_topic.c:119-157).
NodesAreAlive == Nodes!NodesAreAlive

\* A client that has closed is noticed (synapse_ethernet.c:298-363).
ClosedIsNoticed == Tcp!Fairness => Tcp!ClosedIsNoticed

\* What the simulation sent last is published (native_main.c:87-170).
LatestIsPublished == Sil!Fairness => Sil!LatestIsPublished

\* A receiver that falls silent is opened again (ubx_gnss/main.c:65-148).
SilenceReopens == Receiver!Fairness => Receiver!SilenceReopens

\* A thrust that stays is reached in time (mixing.c:8-65).
ThrustIsReached == Driving!ThrustIsReached

\* The speed stays between where it was and the thrust (mixing.c:20-65).
FilterStaysBetween == Driving!FilterStaysBetween

\* The strip comes to show what the topics go on asking for (lighting.c:81-206).
StripFollowsStatus == Lamps!Fairness => Lamps!StripFollowsStatus

\* The last tone for the arming comes to be the right one (sound/main.c:93-174).
ArmingIsTold == Buzzer!Fairness => Buzzer!ArmingIsTold

\* The car follows a curve of its trajectory at a time inside it (position.c:84-126).
TimeInsideCurve == Path!TimeInsideCurve

\* The estimate comes to have counted every rotation (estimate.c:148-200).
RotationIsCounted == Pose!Fairness => Pose!RotationIsCounted

\* The driver leaves the controller with a stop (main.py:162-172, 366-371, 461-468).
StoppedAtEnd == Drive!StoppedAtEnd

\* The car stops for what the lidar sees, and drives on (main.py:66-119, lidar.py:138-198).
CarFollowsLidar == Drive!Fairness => Drive!CarFollowsLidar

\* The driver is told of the lap seen, and of no lap more often than the car came back
\* (lap_detector.py:229-235, 289-314).
LapIsToldOnce == Laps!Fairness => Laps!LapIsToldOnce
=============================================================================
