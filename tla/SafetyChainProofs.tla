--------------------------- MODULE SafetyChainProofs ---------------------------
(***************************************************************************)
(* Proofs about SafetyChain and Deadlines: for any buttons, batteries,     *)
(* speeds and any length of the polls.  What each thread keeps is proved   *)
(* in B3rbFsmProofs, ActuatePwmProofs and B3rbVelocityProofs; here it is   *)
(* put together over the topic and the clock they share.                   *)
(***************************************************************************)
EXTENDS Deadlines, TLAPS

\* The two threads, with what is proved of them.
FP == INSTANCE B3rbFsmProofs WITH
       pc <- fPc, news <- fNews, ctx <- fCtx, lost <- fLost, status <- fStatus,
       topic <- statusTopic, polled <- fPolled
PP == INSTANCE ActuatePwmProofs WITH
       pc <- pPc, arming <- statusTopic.arming, news <- pNews, ctx <- pCtx, lost <- pLost,
       polled <- pPolled

-----------------------------------------------------------------------------
(* Every step of the chain is a step of each thread, or none.              *)

LEMMA FsmInit == Init => FP!Init
  BY DEF Init, F!Init, FP!Init

LEMMA FsmLoopSteps ==
  F!ReadNow \/ F!Poll \/ F!ReadBattery \/ F!ReadSafety \/ F!ReadJoy => FP!Next
<1>. USE DEF FP!Next, FP!Loop, F!inputVars, FP!inputVars, F!timeVars, FP!timeVars
<1>1. F!ReadNow => FP!ReadNow
  BY DEF F!ReadNow, FP!ReadNow, F!Saturate, FP!Saturate
<1>2. F!Poll => FP!Poll
  BY DEF F!Poll, FP!Poll
<1>3. F!ReadBattery => FP!ReadBattery
  BY DEF F!ReadBattery, FP!ReadBattery, F!Read, FP!Read
<1>4. F!ReadSafety => FP!ReadSafety
  BY DEF F!ReadSafety, FP!ReadSafety, F!Read, FP!Read
<1>5. F!ReadJoy => FP!ReadJoy
  BY DEF F!ReadJoy, FP!ReadJoy, F!Read, FP!Read
<1>. QED BY <1>1, <1>2, <1>3, <1>4, <1>5

LEMMA SameArming ==
  \A m, request, pre, post, guard :
    F!ArmingTransition(m, request, pre, post, guard) = FP!ArmingTransition(m, request, pre, post, guard)
  BY DEF F!ArmingTransition, F!Deny, F!Machine, F!NextSeq,
         FP!ArmingTransition, FP!Deny, FP!Machine, FP!NextSeq

LEMMA SameMode ==
  \A m, request, post, guard :
    F!ModeTransition(m, request, post, guard) = FP!ModeTransition(m, request, post, guard)
  BY DEF F!ModeTransition, F!Deny, F!Machine, F!NextSeq,
         FP!ModeTransition, FP!Deny, FP!Machine, FP!NextSeq

LEMMA SameArmingPass == \A m, c : F!ArmingPass(m, c) = FP!ArmingPass(m, c)
  BY SameArming DEF F!ArmingPass, F!Request, F!ArmGuard, F!FuelCritical, F!FuelLow, F!Safe,
         FP!ArmingPass, FP!Request, FP!ArmGuard, FP!FuelCritical, FP!FuelLow, FP!Safe

LEMMA SameModePass == \A m, c : F!ModePass(m, c) = FP!ModePass(m, c)
  BY SameMode DEF F!ModePass, F!Request, FP!ModePass, FP!Request

LEMMA SameUpdate == F!NewStatus(fStatus, fCtx) = FP!NewStatus(fStatus, fCtx)
  BY SameArmingPass, SameModePass
  DEF F!NewStatus, F!FsmUpdate, F!Machine, F!Fuel, F!SafetyStatus, F!FuelCritical, F!FuelLow,
      FP!NewStatus, FP!FsmUpdate, FP!Machine, FP!Fuel, FP!SafetyStatus, FP!FuelCritical,
      FP!FuelLow

LEMMA FsmPublications == F!AutoArm \/ F!Update => FP!Next
<1>. USE DEF FP!Next, FP!Loop, F!inputVars, FP!inputVars, F!timeVars, FP!timeVars,
             F!PublishStatus, FP!PublishStatus, F!Publish, FP!Publish
<1>1. F!AutoArm => FP!AutoArm
  BY DEF F!AutoArm, FP!AutoArm
<1>2. F!Update => FP!Update
  BY SameUpdate DEF F!Update, FP!Update
<1>. QED BY <1>1, <1>2

LEMMA FsmSurroundings == F!Environment \/ F!Tick => FP!Next
<1>1. F!Environment => FP!Environment
  BY DEF F!Environment, F!PublishJoy, F!PublishBattery, F!PublishSafety, F!Signal, F!timeVars,
         FP!Environment, FP!PublishJoy, FP!PublishBattery, FP!PublishSafety, FP!Signal,
         FP!timeVars
<1>2. F!Tick => FP!Tick
  BY DEF F!Tick, FP!Tick, F!inputVars, FP!inputVars, F!Saturate, FP!Saturate,
         F!HeardMax, FP!HeardMax
<1>. QED BY <1>1, <1>2 DEF FP!Next

LEMMA FsmSteps == [Next]_vars => [FP!Next]_FP!vars
<1>. USE DEF FP!vars
<1>1. FsmStep => FP!Next
  BY FsmLoopSteps DEF FsmStep
<1>2. FsmPublish => FP!Next
  BY FsmPublications DEF FsmPublish
<1>3. PwmStep \/ Actuators => UNCHANGED FP!vars
  BY DEF PwmStep, Actuators, inputVars, fVars
<1>4. Input \/ Tick => FP!Next
  BY FsmSurroundings DEF Input, Tick
<1>5. UNCHANGED vars => UNCHANGED FP!vars
  BY DEF vars, inputVars, fVars
<1>. QED BY <1>1, <1>2, <1>3, <1>4, <1>5 DEF Next

LEMMA PwmInit == Init => PP!Init
  BY DEF Init, P!Init, PP!Init, F!Init

LEMMA PwmLoopSteps == P!Loop => PP!Next
<1>. USE DEF PP!Next, PP!Loop
<1>1. P!Poll => PP!Poll
  BY DEF P!Poll, PP!Poll
<1>2. P!ReadStatus => PP!ReadStatus
  BY DEF P!ReadStatus, PP!ReadStatus, P!Read, PP!Read
<1>3. P!ReadActuators => PP!ReadActuators
  BY DEF P!ReadActuators, PP!ReadActuators, P!Read, PP!Read
<1>4. P!Update => PP!Update
  BY DEF P!Update, PP!Update, P!Pulse, PP!Pulse
<1>. QED BY <1>1, <1>2, <1>3, <1>4 DEF P!Loop

\* The topic has a status of the supervisor's type before the step and after it.
LEMMA PwmSteps == FP!TypeOK' /\ [Next]_vars => [PP!Next]_PP!vars
<1>. SUFFICES ASSUME FP!TypeOK', [Next]_vars PROVE [PP!Next]_PP!vars
  OBVIOUS
<1>0. statusTopic'.arming \in {"disarmed", "armed"}
  BY DEF FP!TypeOK, FP!Statuses
<1>1. CASE FsmStep
  <2>1. statusTopic' = statusTopic
    BY <1>1 DEF FsmStep, F!ReadNow, F!Poll, F!ReadBattery, F!ReadSafety, F!ReadJoy
  <2>. QED BY <1>1, <2>1 DEF FsmStep, pVars, PP!vars
<1>2. CASE FsmPublish
  <2>1. CASE P!PublishStatus(statusTopic'.arming)
    <3>1. PP!PublishStatus(statusTopic'.arming)
      BY <2>1 DEF P!PublishStatus, PP!PublishStatus, P!Signal, PP!Signal
    <3>. QED BY <1>0, <3>1 DEF PP!Next
  <2>2. CASE UNCHANGED <<statusTopic, actuators, pVars, disarmed>>
    BY <2>2 DEF pVars, PP!vars
  <2>. QED BY <1>2, <2>1, <2>2 DEF FsmPublish
<1>3. CASE PwmStep
  BY <1>3, PwmLoopSteps DEF PwmStep
<1>4. CASE Actuators
  BY <1>4 DEF Actuators, P!PublishActuators, P!Signal, PP!Next, PP!PublishActuators, PP!Signal
<1>5. CASE Input
  <2>1. statusTopic' = statusTopic
    BY <1>5 DEF Input, F!Environment, F!PublishJoy, F!PublishBattery, F!PublishSafety
  <2>. QED BY <1>5, <2>1 DEF Input, pVars, PP!vars
<1>6. CASE Tick
  BY <1>6 DEF Tick, P!Tick, PP!Tick, PP!Next
<1>7. CASE UNCHANGED vars
  BY <1>7 DEF vars, pVars, PP!vars
<1>. QED BY <1>1, <1>2, <1>3, <1>4, <1>5, <1>6, <1>7 DEF Next

-----------------------------------------------------------------------------
(* The time of the chain.                                                  *)

\* Until one poll is over, engaged is what the supervisor's denied counts.
EngagedInv ==
  /\ engaged \in 0 .. 2 * PollTicks + 1
  /\ engaged = denied \/ (denied = PollTicks + 1 /\ engaged > PollTicks)
  /\ safety = "unsafe" => engaged = 0 /\ denied = 0

\* A status that is disarmed was published one poll after the switch at the latest.
ChainInv ==
  NothingLost /\ SenseSafety /\ statusTopic.arming # "armed" =>
    engaged <= PollTicks + disarmed \/ disarmed > PollTicks

LEMMA Constants == PP!PwmConstants
  BY SafetyChainAssumption DEF PP!PwmConstants

LEMMA FsmKeeps ==
  /\ FP!Init => FP!TypeOK /\ FP!SafetyInv
  /\ FP!TypeOK /\ FP!SafetyInv /\ [FP!Next]_FP!vars => FP!TypeOK' /\ FP!SafetyInv'
  /\ [FP!Next]_FP!vars /\ fLost => fLost'
  BY FP!InitInv, FP!NextTypeOK, FP!NextSafetyInv, FP!LossStays, SafetyChainAssumption
  DEF FP!Buttons

LEMMA PwmKeeps ==
  /\ PP!Init => PP!TypeOK /\ PP!DisarmInv
  /\ PP!TypeOK /\ PP!DisarmInv /\ [PP!Next]_PP!vars => PP!TypeOK' /\ PP!DisarmInv'
  /\ [PP!Next]_PP!vars /\ pLost => pLost'
  BY PP!InitInv, PP!NextTypeOK, PP!NextDisarmInv, PP!LossStays, Constants

\* How the history variables move.
LEMMA CounterSteps ==
  ASSUME EngagedInv, [Next]_vars
  PROVE  \/ engaged' = 0 /\ denied' = 0 /\ UNCHANGED statusTopic
         \/ safety' # "unsafe" /\ UNCHANGED <<engaged, denied, statusTopic, disarmed>>
         \/ /\ UNCHANGED <<safety, engaged, denied>>
            /\ \/ disarmed' = IF statusTopic'.arming = "armed" THEN 0 ELSE disarmed
               \/ fLost'
         \/ /\ safety' # "unsafe"
            /\ engaged' = IF engaged > 2 * PollTicks THEN engaged ELSE engaged + 1
            /\ denied' = IF denied + 1 > PollTicks + 1 THEN PollTicks + 1 ELSE denied + 1
            /\ disarmed' = IF statusTopic.arming = "armed" THEN 0
                           ELSE IF disarmed > PollTicks THEN disarmed ELSE disarmed + 1
            /\ UNCHANGED statusTopic
<1>0. safety = "unsafe" => engaged = 0 /\ denied = 0
  BY DEF EngagedInv
<1>1. CASE FsmStep
  <2>1. UNCHANGED <<safety, engaged, denied, statusTopic, disarmed>>
    BY <1>1 DEF FsmStep, F!ReadNow, F!Poll, F!ReadBattery, F!ReadSafety, F!ReadJoy,
                F!timeVars, F!inputVars
  <2>. QED BY <1>0, <2>1
<1>2. CASE FsmPublish
  <2>1. UNCHANGED <<safety, engaged, denied>>
    BY <1>2 DEF FsmPublish, F!AutoArm, F!Update, F!timeVars, F!inputVars
  <2>. QED BY <1>2, <2>1 DEF FsmPublish, P!PublishStatus
<1>3. CASE PwmStep \/ Actuators
  <2>1. UNCHANGED <<safety, engaged, denied, statusTopic, disarmed>>
    BY <1>3 DEF PwmStep, Actuators, fVars, inputVars, P!Loop, P!Poll, P!ReadStatus,
                P!ReadActuators, P!Update, P!PublishActuators
  <2>. QED BY <1>0, <2>1
<1>4. CASE Input
  <2>1. UNCHANGED <<statusTopic, disarmed>>
    BY <1>4 DEF Input, F!Environment, F!PublishJoy, F!PublishBattery, F!PublishSafety
  <2>2. \/ UNCHANGED <<safety, denied>>
        \/ denied' = IF safety' = "unsafe" THEN 0 ELSE denied
    BY <1>4 DEF Input, F!Environment, F!PublishJoy, F!PublishBattery, F!PublishSafety, F!timeVars
  <2>3. engaged' = IF safety' = "unsafe" THEN 0 ELSE engaged
    BY <1>4 DEF Input
  <2>. QED BY <1>0, <2>1, <2>2, <2>3
<1>5. CASE Tick
  <2>1. UNCHANGED <<safety, statusTopic>>
    BY <1>5 DEF Tick, F!Tick, F!inputVars
  <2>2. denied' = IF safety = "unsafe" THEN 0
                  ELSE IF denied + 1 > PollTicks + 1 THEN PollTicks + 1 ELSE denied + 1
    BY <1>5 DEF Tick, F!Tick, F!Saturate
  <2>3. disarmed' = IF statusTopic.arming = "armed" THEN 0
                    ELSE IF disarmed > PollTicks THEN disarmed ELSE disarmed + 1
    BY <1>5 DEF Tick, P!Tick
  <2>4. engaged' = IF safety = "unsafe" THEN 0
                   ELSE IF engaged > 2 * PollTicks THEN engaged ELSE engaged + 1
    BY <1>5 DEF Tick
  <2>. QED BY <2>1, <2>2, <2>3, <2>4
<1>6. CASE UNCHANGED vars
  <2>1. UNCHANGED <<safety, engaged, denied, statusTopic, disarmed>>
    BY <1>6 DEF vars, fVars, inputVars
  <2>. QED BY <1>0, <2>1
<1>. QED BY <1>1, <1>2, <1>3, <1>4, <1>5, <1>6 DEF Next

LEMMA NextEngagedInv == ASSUME FP!TypeOK, EngagedInv, [Next]_vars PROVE EngagedInv'
<1>1. PollTicks \in Nat /\ denied \in 0 .. PollTicks + 1
  BY SafetyChainAssumption DEF FP!TypeOK
<1>. QED BY <1>1, CounterSteps DEF EngagedInv

\* While the status says ARMED, the switch has been off for less than a poll.
LEMMA ArmedIsRecent ==
  ASSUME FP!TypeOK, FP!SafetyInv, EngagedInv, ~fLost, SenseSafety, statusTopic.arming = "armed"
  PROVE  engaged <= PollTicks
<1>1. denied <= fPolled /\ fPolled <= PollTicks /\ PollTicks \in Nat /\ denied \in Nat
      /\ fPolled \in Nat
  BY SafetyChainAssumption DEF FP!TypeOK, FP!SafetyInv
<1>. QED BY <1>1 DEF EngagedInv

LEMMA NextChainInv ==
  ASSUME FP!TypeOK, FP!SafetyInv, PP!TypeOK, EngagedInv, ChainInv, [Next]_vars,
         PP!TypeOK', FP!TypeOK'
  PROVE  ChainInv'
<1>. SUFFICES ASSUME NothingLost', SenseSafety, statusTopic'.arming # "armed"
              PROVE  engaged' <= PollTicks + disarmed' \/ disarmed' > PollTicks
  BY DEF ChainInv
<1>1. NothingLost /\ ~fLost'
  BY FsmSteps, PwmSteps, FsmKeeps, PwmKeeps DEF NothingLost
<1>2. PollTicks \in Nat /\ disarmed \in Nat /\ disarmed' \in Nat /\ engaged \in Nat
  BY SafetyChainAssumption DEF PP!TypeOK, EngagedInv
<1>3. statusTopic.arming = "armed" => engaged <= PollTicks
  BY <1>1, ArmedIsRecent DEF NothingLost
<1>4. statusTopic.arming # "armed" => engaged <= PollTicks + disarmed \/ disarmed > PollTicks
  BY <1>1 DEF ChainInv
<1>. QED BY <1>1, <1>2, <1>3, <1>4, CounterSteps

-----------------------------------------------------------------------------
(* The theorem.                                                            *)

ChainKeeps ==
  FP!TypeOK /\ FP!SafetyInv /\ PP!TypeOK /\ PP!DisarmInv /\ EngagedInv /\ ChainInv

LEMMA InitKeeps == Init => ChainKeeps
<1>. SUFFICES ASSUME Init PROVE ChainKeeps
  OBVIOUS
<1>1. FP!TypeOK /\ FP!SafetyInv /\ PP!TypeOK /\ PP!DisarmInv
  BY FsmInit, PwmInit, FsmKeeps, PwmKeeps
<1>2. engaged = 0 /\ denied = 0 /\ disarmed = 0
  BY DEF Init, F!Init, P!Init
<1>. QED BY <1>1, <1>2, SafetyChainAssumption DEF ChainKeeps, EngagedInv, ChainInv

LEMMA NextKeeps == ChainKeeps /\ [Next]_vars => ChainKeeps'
<1>. SUFFICES ASSUME ChainKeeps, [Next]_vars PROVE ChainKeeps'
  OBVIOUS
<1>. USE DEF ChainKeeps
<1>1. FP!TypeOK' /\ FP!SafetyInv'
  BY FsmSteps, FsmKeeps
<1>2. PP!TypeOK' /\ PP!DisarmInv'
  BY <1>1, PwmSteps, PwmKeeps
<1>3. EngagedInv' /\ ChainInv'
  BY <1>1, <1>2, NextEngagedInv, NextChainInv
<1>. QED BY <1>1, <1>2, <1>3

LEMMA KeepsStops == ChainKeeps => SwitchStopsMotor
<1>. SUFFICES ASSUME ChainKeeps, NothingLost, SenseSafety, engaged > 2 * PollTicks
              PROVE  pulse = 0
  BY DEF SwitchStopsMotor
<1>. USE DEF ChainKeeps
<1>1. PollTicks \in Nat /\ engaged \in Nat /\ disarmed \in Nat /\ pPolled \in 0 .. PollTicks
  BY SafetyChainAssumption DEF EngagedInv, PP!TypeOK
<1>2. statusTopic.arming # "armed"
  BY <1>1, ArmedIsRecent DEF NothingLost
<1>3. disarmed > PollTicks
  BY <1>1, <1>2 DEF ChainInv
<1>4. pulse # 0 => disarmed <= pPolled
  BY DEF PP!DisarmInv, NothingLost
<1>. QED BY <1>1, <1>3, <1>4

\* For any length of the polls, any buttons, batteries and speeds: the safety switch
\* stops the motor within two polls, if nothing is dropped (fsm.c:308-334,
\* pwm/main.c:133-158).
THEOREM SwitchStops == Spec => []SwitchStopsMotor
  BY InitKeeps, NextKeeps, KeepsStops, PTL DEF Spec

-----------------------------------------------------------------------------
(* The velocity thread, as Deadlines has it.                               *)

VP == INSTANCE B3rbVelocityProofs WITH
        Statuses <- VelocityStatuses, Speeds <- {150}, Positions <- {0},
        PollTicks <- VelocityPollTicks,
        pc <- vPc, status <- vStatus, cmdVel <- vCmdVel, manual <- vManual, odom <- vOdom,
        news <- vNews, ctx <- vCtx, lost <- vLost, mode <- vMode, prevMode <- vPrevMode,
        lap <- vLap, start <- vStart, ever <- vEver, silence <- vSilence,
        speedRef <- vSpeedRef, actuators <- vActuators, polled <- vPolled,
        disarmed <- vDisarmed, left <- vLeft

LEMMA VelocityInit == V!Init => VP!Init
  BY DEF V!Init, VP!Init

LEMMA VelocityReads ==
  V!Top \/ V!Poll \/ V!ReadStatus \/ V!ReadCmdVel \/ V!CheckStale \/ V!ReadManual \/ V!ReadOdom
    => VP!Next
<1>. USE DEF VP!Next, VP!Loop, V!topicVars, VP!topicVars, V!lapVars, VP!lapVars,
             V!outVars, VP!outVars, V!Read, VP!Read, V!Awaited, VP!Awaited
<1>1. V!Top => VP!Top
  BY DEF V!Top, VP!Top
<1>2. V!Poll => VP!Poll
  BY DEF V!Poll, VP!Poll
<1>3. V!ReadStatus => VP!ReadStatus
  BY DEF V!ReadStatus, VP!ReadStatus
<1>4. V!ReadCmdVel => VP!ReadCmdVel
  BY DEF V!ReadCmdVel, VP!ReadCmdVel
<1>5. V!CheckStale => VP!CheckStale
  BY DEF V!CheckStale, VP!CheckStale
<1>6. V!ReadManual => VP!ReadManual
  BY DEF V!ReadManual, VP!ReadManual
<1>7. V!ReadOdom => VP!ReadOdom
  BY DEF V!ReadOdom, VP!ReadOdom
<1>. QED BY <1>1, <1>2, <1>3, <1>4, <1>5, <1>6, <1>7

LEMMA SameLap ==
  /\ \A s : V!StartAfter(s) = VP!StartAfter(s)
  /\ \A l, s : V!LapAfter(l, s) = VP!LapAfter(l, s)
<1>1. \A s : V!StartAfter(s) = VP!StartAfter(s)
  BY DEF V!StartAfter, VP!StartAfter, V!Abs, VP!Abs
<1>2. \A l, s : V!LapAfter(l, s) = VP!LapAfter(l, s)
  BY <1>1 DEF V!LapAfter, VP!LapAfter, V!Abs, VP!Abs
<1>. QED BY <1>1, <1>2

LEMMA SameSpeed ==
  /\ \A l : V!AutoSpeed(l) = VP!AutoSpeed(l)
  /\ \A f, target : V!Filtered(f, target) = VP!Filtered(f, target)
<1>1. \A l : V!AutoSpeed(l) = VP!AutoSpeed(l)
  BY DEF V!AutoSpeed, VP!AutoSpeed, V!Abs, VP!Abs, V!Cap, VP!Cap
<1>2. \A f, target : V!Filtered(f, target) = VP!Filtered(f, target)
  BY DEF V!Filtered, VP!Filtered, V!Cap, VP!Cap
<1>. QED BY <1>1, <1>2

LEMMA VelocityActs == V!Act => VP!Next
<1>. SUFFICES ASSUME V!Act PROVE VP!Act
  BY DEF VP!Next, VP!Loop
<1>. USE DEF V!PublishActuators, VP!PublishActuators, V!Publish, VP!Publish, V!Armed, VP!Armed
<1>1. V!Stop => VP!Stop
  BY DEF V!Stop, VP!Stop
<1>2. V!Manual => VP!Manual
  BY DEF V!Manual, VP!Manual
<1>3. V!FollowLine => VP!FollowLine
  BY SameLap, SameSpeed DEF V!FollowLine, VP!FollowLine
<1>4. V!FollowCmdVel => VP!FollowCmdVel
  BY SameSpeed DEF V!FollowCmdVel, VP!FollowCmdVel
<1>. QED BY <1>1, <1>2, <1>3, <1>4 DEF V!Act, VP!Act, V!topicVars, VP!topicVars

LEMMA VelocitySurroundings == V!Environment \/ V!Tick => VP!Next
<1>. USE DEF V!lapVars, VP!lapVars, V!outVars, VP!outVars
<1>1. V!Environment => VP!Environment
  BY DEF V!Environment, V!PublishStatus, V!PublishCmdVel, V!PublishManual, V!PublishOdom,
         V!Signal, V!threadVars, VP!Environment, VP!PublishStatus, VP!PublishCmdVel,
         VP!PublishManual, VP!PublishOdom, VP!Signal, VP!threadVars
<1>2. V!Tick => VP!Tick
  BY DEF V!Tick, VP!Tick, V!topicVars, VP!topicVars, V!Saturate, VP!Saturate,
         V!SilenceMax, VP!SilenceMax, V!Awaited, VP!Awaited
<1>. QED BY <1>1, <1>2 DEF VP!Next

LEMMA VelocityKeeps ==
  /\ VP!Init => VP!TypeOK /\ VP!SilenceInv
  /\ VP!TypeOK /\ VP!SilenceInv /\ [VP!Next]_VP!vars => VP!TypeOK' /\ VP!SilenceInv'
<1>1. /\ {150} \subseteq Int /\ {0} \subseteq Int /\ NoStart \notin {0} /\ 0 \in {0}
      /\ VelocityPollTicks \in Nat /\ StaleTicks \in Nat
      /\ VelocityStatuses \subseteq [arming : {"disarmed", "armed"}, mode : VP!Modes]
  BY DeadlinesAssumption DEF VelocityStatuses, VP!Modes
<1>. QED BY <1>1, VP!InitInv, VP!NextTypeOK, VP!NextSilenceInv DEF VP!Init, VP!SilenceInv

-----------------------------------------------------------------------------
(* The theorems about Deadlines: a step is one of the chain or of the      *)
(* velocity thread.                                                        *)

DeadlinesInv == ChainKeeps /\ VP!TypeOK /\ VP!SilenceInv

LEMMA NextDeadlinesInv ==
  DeadlinesInv /\ [DeadlinesNext]_<<part, vars, vVars>> => DeadlinesInv'
<1>. SUFFICES ASSUME DeadlinesInv, [DeadlinesNext]_<<part, vars, vVars>> PROVE DeadlinesInv'
  OBVIOUS
<1>1. [Next]_vars
  BY DEF DeadlinesNext
<1>2. V!Next \/ UNCHANGED vVars
  BY DEF DeadlinesNext
<1>3. [VP!Next]_VP!vars
  <2>1. UNCHANGED vVars => UNCHANGED VP!vars
    BY DEF vVars, VP!vars
  <2>. QED BY <1>2, <2>1, VelocityReads, VelocityActs, VelocitySurroundings DEF V!Next, V!Loop
<1>. QED BY <1>1, <1>3, NextKeeps, VelocityKeeps DEF DeadlinesInv

LEMMA DeadlinesInvariance == DeadlinesSpec => []DeadlinesInv
<1>1. DeadlinesInit => DeadlinesInv
  BY InitKeeps, VelocityInit, VelocityKeeps DEF DeadlinesInit, DeadlinesInv
<1>. QED BY <1>1, NextDeadlinesInv, PTL DEF DeadlinesSpec

\* For any speeds, any length of the poll and whatever the supervisor publishes: a
\* disarmed status stops the motor within one poll, if nothing is dropped
\* (pwm/main.c:131-157).
THEOREM MotorStops == DeadlinesSpec => []MotorStopsInTime
<1>1. DeadlinesInv => MotorStopsInTime
  BY SafetyChainAssumption
  DEF DeadlinesInv, ChainKeeps, PP!TypeOK, PP!DisarmInv, MotorStopsInTime, P!MotorStopsInTime
<1>. QED BY <1>1, DeadlinesInvariance, PTL

\* For any length of the poll and of the limit: a cmd_vel
\* that falls silent counts as received for the limit and one poll at most
\* (velocity.c:203-233, 245-253).
THEOREM SilenceNoticed == DeadlinesSpec => []SilenceIsNoticed
<1>1. DeadlinesInv => SilenceIsNoticed
  BY DeadlinesAssumption
  DEF DeadlinesInv, VP!TypeOK, VP!SilenceInv, SilenceIsNoticed, V!SilenceIsNoticed,
      VP!SilenceMax, V!SilenceMax
<1>. QED BY <1>1, DeadlinesInvariance, PTL
=============================================================================
