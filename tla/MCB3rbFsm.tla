------------------------------ MODULE MCB3rbFsm ------------------------------
(* Joystick messages and voltages for TLC.                                 *)
EXTENDS B3rbFsm

\* Arming and the modes apart, and three requests that one pass puts in order.
FewButtons == {{"arm"}, {"auto"}, {"arm", "disarm", "calibration"}}

\* What arms.
ArmButton == {{"arm"}}

\* The battery is critical until its first message.
NominalVoltage == {"nominal"}

\* Bound: a behaviour is followed until a topic drops something.
UntilLoss == ~lost
=============================================================================
