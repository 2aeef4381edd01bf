------------------------------- MODULE LapDetector -------------------------------
(***************************************************************************)
(* The companion's lap detector (lap_detector.py): a thread that listens   *)
(* for odometry and follows the distance from where the drive began, and   *)
(* the driver's loop (Companion, mode fsd), which marks that beginning     *)
(* and asks after each frame.  Both hold the lock for whole calls.  The    *)
(* track is a line; datagrams that do not parse are dropped.               *)
(***************************************************************************)
EXTENDS Integers

CONSTANTS
  Track,   \* positions, natural numbers, 0 among them
  Depart,  \* DEPART_THRESHOLD, 0.4 m
  Return   \* RETURN_THRESHOLD, 0.3 m

VARIABLES
  car,      \* the position of the car
  driven,   \* _driving_started
  from,     \* _initial_position_set and the start, or Unset
  lapState, \* _state
  detected, \* _lap_detected
  laps,     \* history: laps the driver was told of, up to 2
  away,     \* history: the car has been beyond Depart since it last crossed the start
  crossings \* history: how often it came back within Return, up to 2

vars == <<car, driven, from, lapState, detected, laps, away, crossings>>

Unset == -1

Dist(a, b) == IF a > b THEN a - b ELSE b - a

Init ==
  /\ car = 0 /\ driven = FALSE /\ from = Unset
  /\ lapState = "normal" /\ detected = FALSE /\ laps = 0
  /\ away = FALSE /\ crossings = 0

\* The car moves by one position, driven or pushed.
Drive ==
  /\ car' \in {x \in Track : Dist(x, car) = 1}
  /\ LET out  == from # Unset /\ Dist(car', from) > Depart
         back == away /\ Dist(car', from) < Return
     IN  /\ away' = (out \/ (away /\ ~back))
         /\ crossings' = IF back /\ crossings < 2 THEN crossings + 1 ELSE crossings
  /\ UNCHANGED <<driven, from, lapState, detected, laps>>

\* mark_driving_started, once, after the first speed was sent.
MarkDrivingStarted ==
  /\ ~driven /\ driven' = TRUE
  /\ UNCHANGED <<car, from, lapState, detected, laps, away, crossings>>

\* Mutant of UpdateState: every odometry says whether the lap is being detected.
UpdateStateAnew ==
  /\ driven
  /\ IF from = Unset
     THEN from' = car /\ UNCHANGED <<lapState, detected>>
     ELSE /\ lapState' = CASE lapState = "normal" /\ Dist(car, from) > Depart -> "started"
                           [] lapState = "started" /\ Dist(car, from) < Return -> "done"
                           [] OTHER -> lapState
          /\ detected' = (lapState = "started" /\ lapState' = "done")
          /\ UNCHANGED from
  /\ UNCHANGED <<car, driven, laps, away, crossings>>

\* _update_state with the odometry of where the car is.
UpdateState ==
  /\ driven
  /\ IF from = Unset
     THEN from' = car /\ UNCHANGED <<lapState, detected>>
     ELSE /\ lapState' = CASE lapState = "normal" /\ Dist(car, from) > Depart -> "started"
                           [] lapState = "started" /\ Dist(car, from) < Return -> "done"
                           [] OTHER -> lapState
          /\ detected' = (detected \/ (lapState = "started" /\ lapState' = "done"))
          /\ UNCHANGED from
  /\ UNCHANGED <<car, driven, laps, away, crossings>>

\* check_lap_detected; true is told and forgotten.
CheckLapDetected ==
  /\ detected' = FALSE
  /\ laps' = IF detected /\ laps < 2 THEN laps + 1 ELSE laps
  /\ UNCHANGED <<car, driven, from, lapState, away, crossings>>

Next == Drive \/ MarkDrivingStarted \/ UpdateState \/ CheckLapDetected

\* The loop of the driver goes on.
Fairness == WF_vars(CheckLapDetected)

Spec == Init /\ [][Next]_vars /\ Fairness

-----------------------------------------------------------------------------
(* Properties.                                                             *)

TypeOK ==
  /\ car \in Track /\ from \in Track \cup {Unset}
  /\ {driven, detected, away} \subseteq BOOLEAN
  /\ lapState \in {"normal", "started", "done"} /\ laps \in 0 .. 2 /\ crossings \in 0 .. 2

\* However the listener's thread and the loop of the driver interleave, the driver is
\* never told of more laps than the car came back to its start, and the lap that the
\* listener has seen is told (lap_detector.py:229-235, 289-314).
LapIsToldOnce == [](laps <= crossings) /\ (lapState = "done" ~> laps >= 1)
=============================================================================
