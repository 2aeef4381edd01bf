------------------------------- MODULE Deadlines -------------------------------
(***************************************************************************)
(* What must have happened after how many ticks, while no topic drops      *)
(* anything: in the chain from the safety switch to the motor              *)
(* (SafetyChain), and in the velocity thread (B3rbVelocity).  A behaviour  *)
(* is one of either; the other stands still.                               *)
(***************************************************************************)
EXTENDS SafetyChain

CONSTANTS NoStart, VelocityPollTicks, StaleTicks

ASSUME DeadlinesAssumption ==
  NoStart # 0 /\ VelocityPollTicks \in Nat /\ StaleTicks \in Nat

VARIABLES
  part,  \* the part this behaviour is of
  vPc, vStatus, vCmdVel, vManual, vOdom, vNews, vCtx, vLost, vMode, vPrevMode, vLap, vStart,
  vEver, vSilence, vSpeedRef, vActuators, vPolled, vDisarmed, vLeft

vVars == <<vPc, vStatus, vCmdVel, vManual, vOdom, vNews, vCtx, vLost, vMode, vPrevMode, vLap,
           vStart, vEver, vSilence, vSpeedRef, vActuators, vPolled, vDisarmed, vLeft>>

\* The modes that wait for other topics, and disarmed; faster than the actuators allow.
VelocityStatuses ==
  {[arming |-> "armed", mode |-> "manual"], [arming |-> "armed", mode |-> "cmd_vel"],
   [arming |-> "disarmed", mode |-> "auto"]}

V == INSTANCE B3rbVelocity WITH
       Statuses <- VelocityStatuses, Speeds <- {150}, Positions <- {0},
       PollTicks <- VelocityPollTicks,
       pc <- vPc, status <- vStatus, cmdVel <- vCmdVel, manual <- vManual, odom <- vOdom,
       news <- vNews, ctx <- vCtx, lost <- vLost, mode <- vMode, prevMode <- vPrevMode,
       lap <- vLap, start <- vStart, ever <- vEver, silence <- vSilence,
       speedRef <- vSpeedRef, actuators <- vActuators, polled <- vPolled,
       disarmed <- vDisarmed, left <- vLeft

DeadlinesInit ==
  /\ part \in {"chain", "velocity"}
  /\ Init /\ V!Init

DeadlinesNext ==
  /\ UNCHANGED part
  /\ \/ part = "chain" /\ Next /\ UNCHANGED vVars
     \/ part = "velocity" /\ V!Next /\ UNCHANGED vars

DeadlinesSpec == DeadlinesInit /\ [][DeadlinesNext]_<<part, vars, vVars>>

\* Bound: a behaviour is followed until a topic drops something.
UntilLoss == NothingLost /\ ~vLost

-----------------------------------------------------------------------------
(* Properties.                                                             *)

\* A disarmed status stops the motor within one poll (pwm/main.c:131-157).
MotorStopsInTime == P!MotorStopsInTime

\* A cmd_vel that falls silent counts as received for the limit and one poll of the
\* velocity thread at most (velocity.c:203-233, 245-253).
SilenceIsNoticed == V!SilenceIsNoticed
=============================================================================
