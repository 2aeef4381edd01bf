------------------------------ MODULE WorkQueues ------------------------------
(***************************************************************************)
(* The two work queues (lib/core/workqueues) and the handlers of the       *)
(* sensors that run on them.  Timers and the switch's interrupt submit     *)
(* items, a queue's thread runs one item at a time, and an item that waits *)
(* already is not queued again.  The handlers keep to themselves except    *)
(* for the time they take: the imu's sleeps inside its handler while it    *)
(* takes the samples of a calibration, and holds its queue meanwhile.      *)
(* Readings are not told apart; the mode the imu reads and the state of    *)
(* the switch are.                                                         *)
(***************************************************************************)
EXTENDS Naturals, Sequences

CONSTANTS
  Modes,    \* the modes the status may show, "calibration" among them
  Samples   \* samples of a calibration, 100

VARIABLES
  queue,    \* the items that wait in each queue, in order
  sampling, \* samples the imu has still to take, 0 if it does not calibrate
  mode,     \* topic_status, its mode
  imu,      \* the imu's context: status.mode, last_mode, calibrated
  switch,   \* the safety switch: its state, and topic_safety
  request   \* history: what became of the last request to calibrate that the imu can see

vars == <<queue, sampling, mode, imu, switch, request>>

Queues == {"high", "low"}

Init ==
  /\ queue = [q \in Queues |-> <<>>]
  /\ sampling = 0
  /\ mode = "unknown"
  /\ imu = [mode |-> "unknown", last |-> "unknown", calibrated |-> FALSE]
  /\ switch = [data |-> "safe", topic |-> "safe"]
  /\ request = "none"

Waits(item) == \E q \in Queues : \E k \in DOMAIN queue[q] : queue[q][k] = item

\* k_work_submit_to_queue: no effect on an item that waits.
Submit(q, item) ==
  /\ ~Waits(item)
  /\ queue' = [queue EXCEPT ![q] = Append(@, item)]
  /\ UNCHANGED <<sampling, mode, imu, switch, request>>

\* The thread of a queue takes its next item, unless a handler sleeps on it.
Start(item) == \E q \in Queues :
  /\ queue[q] # <<>> /\ Head(queue[q]) = item
  /\ q = "high" => sampling = 0
  /\ queue' = [queue EXCEPT ![q] = Tail(@)]

-----------------------------------------------------------------------------
(* The imu.                                                                *)

ImuTimer == Submit("high", "imu")

\* Mutant of ImuHandler: the calibration starts, but last_mode is already the mode
\* the topic has now.
ImuHandlerLate(m) ==
  /\ Start("imu")
  /\ LET calibrated == imu.calibrated /\ ~(m = "calibration" /\ imu.last # "calibration")
     IN  /\ imu' = [mode |-> m, last |-> mode, calibrated |-> calibrated]
         /\ sampling' = IF calibrated THEN 0 ELSE Samples
         /\ request' = IF ~calibrated /\ request = "open" THEN "begun" ELSE request
  /\ UNCHANGED <<mode, switch>>

\* imu_work_handler up to the calibration, or to the reading it publishes.  m is the
\* mode it has after its update: that of the topic, or still the old one.
ImuHandler(m) ==
  /\ Start("imu")
  /\ LET calibrated == imu.calibrated /\ ~(m = "calibration" /\ imu.last # "calibration")
     IN  /\ imu' = [mode |-> m, last |-> m, calibrated |-> calibrated]
         /\ sampling' = IF calibrated THEN 0 ELSE Samples
         /\ request' = IF ~calibrated /\ request = "open" THEN "begun" ELSE request
  /\ UNCHANGED <<mode, switch>>

\* imu_calibrate: one sample, 5 ms after the last one.
Sample ==
  /\ sampling > 0
  /\ sampling' = sampling - 1
  /\ imu' = [imu EXCEPT !.calibrated = (sampling = 1)]
  /\ request' = IF sampling = 1 /\ request = "begun" THEN "done" ELSE request
  /\ UNCHANGED <<queue, mode, switch>>

-----------------------------------------------------------------------------
(* The other sensors: a reading is published, or the fetch fails.          *)

MagTimer           == Submit("high", "mag")
WheelOdometryTimer == Submit("high", "wheel_odometry")
PowerTimer         == Submit("low", "power")

MagHandler           == Start("mag") /\ UNCHANGED <<sampling, mode, imu, switch, request>>
WheelOdometryHandler == Start("wheel_odometry") /\ UNCHANGED <<sampling, mode, imu, switch, request>>
PowerHandler         == Start("power") /\ UNCHANGED <<sampling, mode, imu, switch, request>>

-----------------------------------------------------------------------------
(* The safety switch.                                                      *)

\* Mutant of Press: the toggle is submitted to the high priority queue.
PressHigh == Submit("high", "toggle")

\* button_pressed, the interrupt.
Press == Submit("low", "toggle")

SafetyTimer == Submit("low", "safety_timer")

\* zros_pub_update of the switch's state: the topic takes it, or drops it.
PublishSwitch(data) == \E topic \in {data, switch.topic} :
  switch' = [data |-> data, topic |-> topic]

Toggle ==
  /\ Start("toggle")
  /\ PublishSwitch(IF switch.data = "safe" THEN "unsafe" ELSE "safe")
  /\ UNCHANGED <<sampling, mode, imu, request>>

SafetyTimerHandler ==
  /\ Start("safety_timer")
  /\ PublishSwitch(switch.data)
  /\ UNCHANGED <<sampling, mode, imu, request>>

-----------------------------------------------------------------------------

\* The supervisor publishes a mode.  A request to calibrate counts if the imu last read
\* another mode: two requests with nothing read between them are one to the imu.
SetMode(m) ==
  /\ m # mode
  /\ mode' = m
  /\ request' = IF m = "calibration" /\ imu.mode # m THEN "open" ELSE "none"
  /\ UNCHANGED <<queue, sampling, imu, switch>>

Timers    == ImuTimer \/ MagTimer \/ WheelOdometryTimer \/ PowerTimer \/ SafetyTimer
HighQueue ==
  (\E m \in {mode, imu.mode} : ImuHandler(m)) \/ MagHandler \/ WheelOdometryHandler
LowQueue  == PowerHandler \/ Toggle \/ SafetyTimerHandler

Next == Timers \/ Press \/ HighQueue \/ LowQueue \/ Sample \/ \E m \in Modes : SetMode(m)

\* The timers go on, a queue that has work runs it, the status is published again and
\* again until it is read, and so is the switch until the topic takes it.  Nothing is
\* said of Sample: the drivers it calls may take for ever.
Fairness ==
  /\ WF_vars(ImuTimer) /\ WF_vars(SafetyTimer)
  /\ WF_vars(HighQueue) /\ WF_vars(LowQueue)
  /\ SF_vars(ImuHandler(mode))
  /\ SF_vars(SafetyTimerHandler /\ switch'.topic = switch.data)

Spec == Init /\ [][Next]_vars /\ Fairness

-----------------------------------------------------------------------------
(* Properties.                                                             *)

Items == {"imu", "mag", "wheel_odometry", "power", "toggle", "safety_timer"}

TypeOK ==
  /\ queue \in [Queues -> Seq(Items)]
  /\ sampling \in 0 .. Samples
  /\ mode \in Modes \cup {"unknown"}
  /\ imu \in [mode : Modes \cup {"unknown"}, last : Modes \cup {"unknown"}, calibrated : BOOLEAN]
  /\ switch \in [data : {"safe", "unsafe"}, topic : {"safe", "unsafe"}]
  /\ request \in {"none", "open", "begun", "done"}

\* A press of the safety switch is handled, whatever the imu does: even a calibration
\* that never ends does not hold it up (safety/main.c:81-85, workq.c:24-52).
PressServed == Waits("toggle") ~> ~Waits("toggle")

\* The topic comes to show the state of the switch: a publication that was dropped is
\* made good by the timer (safety/main.c:72-78).
SwitchShown == (switch.topic # switch.data) ~> (switch.topic = switch.data)

\* A request to calibrate that stays is followed by a calibration that begins after it
\* and ends, also when it comes in the middle of an earlier one (imu/main.c:306-329).
CalibrationServed == WF_vars(Sample) => (request = "open" ~> request \in {"done", "none"})
=============================================================================
