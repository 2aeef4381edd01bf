---------------------------- MODULE MCB3rbVelocity ----------------------------
(* Speeds and positions at the thresholds of the code, for TLC.            *)
EXTENDS B3rbVelocity

S(a, m) == [arming |-> a, mode |-> m]

\* AUTO, and out of it.
LapStatuses     == {S("armed", "auto"), S("disarmed", "manual")}
\* AUTO and MANUAL, and disarmed in AUTO.
DrivingStatuses == {S("armed", "auto"), S("armed", "manual"), S("disarmed", "auto")}

\* Stopped, and fast.
TwoSpeeds  == {0, 50}
\* Faster than the range of the actuators.
OneSpeed   == {150}

\* The start, and far enough to start a lap.
ShortTrack == {0, 6}

\* Bound: a behaviour is followed until a topic drops something.
UntilLoss == ~lost
=============================================================================
