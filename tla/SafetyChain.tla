------------------------------ MODULE SafetyChain ------------------------------
(***************************************************************************)
(* The chain from the safety switch and the joystick to the motor: the     *)
(* supervisor (B3rbFsm) publishes the status, and the thread of the motors *)
(* (ActuatePwm) reads it together with the actuators.  The threads share a *)
(* topic and the clock, and interleave in every other way.  Between them   *)
(* stands the velocity thread (B3rbVelocity), of which nothing is assumed: *)
(* it publishes any actuators at any time, or none.                        *)
(***************************************************************************)
EXTENDS Integers

CONSTANTS SenseSafety, SensePower, Joys, Batteries, Speeds,
          PollTicks, JoyTicks, SeqModulus, MaxSpeed

ASSUME SafetyChainAssumption ==
  /\ SenseSafety \in BOOLEAN /\ SensePower \in BOOLEAN
  /\ Joys \subseteq SUBSET {"arm", "disarm", "manual", "auto", "cmd_vel", "calibration"}
  /\ Batteries \subseteq {"critical", "low", "nominal"}
  /\ PollTicks \in Nat /\ JoyTicks \in Nat /\ MaxSpeed \in Nat
  /\ SeqModulus \in Nat \ {0}
  /\ Speeds \subseteq Int

VARIABLES
  joy, battery, safety, statusTopic, actuators,                       \* the topics
  fPc, fNews, fCtx, fLost, fStatus, fPolled, joyGap, heard, denied,   \* the supervisor
  pPc, pNews, pCtx, pLost, timedOut, pulse, pPolled, disarmed,        \* the motors
  engaged  \* history: ticks the safety has not been unsafe, up to 2 * PollTicks + 1

inputVars == <<joy, battery, safety>>
fVars == <<fPc, fNews, fCtx, fLost, fStatus, fPolled, joyGap, heard, denied>>
pVars == <<pPc, pNews, pCtx, pLost, timedOut, pulse, pPolled>>
vars  == <<inputVars, statusTopic, actuators, fVars, pVars, disarmed, engaged>>

F == INSTANCE B3rbFsm WITH
       pc <- fPc, news <- fNews, ctx <- fCtx, lost <- fLost, status <- fStatus,
       topic <- statusTopic, polled <- fPolled
P == INSTANCE ActuatePwm WITH
       pc <- pPc, arming <- statusTopic.arming, news <- pNews, ctx <- pCtx, lost <- pLost,
       polled <- pPolled

Init ==
  /\ F!Init /\ P!Init
  /\ engaged = 0

\* Steps of the supervisor that publish nothing.
FsmStep ==
  /\ F!ReadNow \/ F!Poll \/ F!ReadBattery \/ F!ReadSafety \/ F!ReadJoy
  /\ UNCHANGED <<actuators, pVars, disarmed, engaged>>

\* The supervisor publishes the status to the motors.
FsmPublish ==
  /\ F!AutoArm \/ F!Update
  /\ \/ P!PublishStatus(statusTopic'.arming)
     \/ fLost' /\ UNCHANGED <<statusTopic, actuators, pVars, disarmed>>
  /\ UNCHANGED engaged

PwmStep ==
  /\ UNCHANGED <<inputVars, statusTopic, fVars, engaged>>
  /\ P!Loop

\* The velocity thread publishes.
Actuators ==
  /\ UNCHANGED <<inputVars, statusTopic, fVars, engaged>>
  /\ \E v \in Speeds : P!PublishActuators(v)

Input ==
  /\ F!Environment
  /\ engaged' = IF safety' = "unsafe" THEN 0 ELSE engaged
  /\ UNCHANGED <<actuators, pVars, disarmed>>

\* One clock for both; it stands still while a thread is not waiting.
Tick ==
  /\ F!Tick /\ P!Tick
  /\ engaged' = IF safety = "unsafe" THEN 0
                ELSE IF engaged > 2 * PollTicks THEN engaged ELSE engaged + 1

Next == FsmStep \/ FsmPublish \/ PwmStep \/ Actuators \/ Input \/ Tick

Spec == Init /\ [][Next]_vars

-----------------------------------------------------------------------------
(* Properties.                                                             *)

\* Also the bound of the run: a behaviour is followed until a topic drops something.
NothingLost == ~fLost /\ ~pLost

\* The safety switch stops the motor within two polls, whatever the velocity
\* thread and the joystick do: one poll until the supervisor looks at it, and
\* one until the motors look at the status (fsm.c:308-334, pwm/main.c:133-158).
SwitchStopsMotor ==
  NothingLost /\ SenseSafety /\ engaged > 2 * PollTicks => pulse = 0
=============================================================================
