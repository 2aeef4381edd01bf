---------------------------- MODULE B3rbFsmProofs ----------------------------
(***************************************************************************)
(* Proofs about B3rbFsm: for both settings of each sensor, any messages    *)
(* of the joystick and the battery, any time bounds, and topics that drop  *)
(* any message.                                                            *)
(***************************************************************************)
EXTENDS B3rbFsm, TLAPS

Machines ==
  [arming : {"disarmed", "armed"}, mode : Modes,
   request_seq : 0 .. SeqModulus - 1, request_rejected : BOOLEAN]

DriveModes == {"manual", "auto", "cmd_vel"}

\* Armed only in a mode to drive in.
DriveModeOnly(m) == m.arming = "armed" => m.mode \in DriveModes

-----------------------------------------------------------------------------
(* The transitions.                                                        *)

LEMMA NextSeqType == \A m \in Machines : NextSeq(m) \in 0 .. SeqModulus - 1
  BY B3rbFsmAssumption DEF NextSeq, Machines

\* A transition of the arming leaves the mode alone, and the arming too unless
\* it is requested.
LEMMA ArmingTransitionFacts ==
  ASSUME NEW m \in Machines, NEW request \in BOOLEAN, NEW guard \in BOOLEAN,
         NEW pre \in {"disarmed", "armed"}, NEW post \in {"disarmed", "armed"}
  PROVE  LET r == ArmingTransition(m, request, pre, post, guard)
         IN  /\ r \in Machines
             /\ r.mode = m.mode
             /\ r.arming # m.arming =>
                  request /\ ~guard /\ m.arming = pre /\ r.arming = post
             /\ request /\ ~guard /\ m.arming = pre => r.arming = post
  BY NextSeqType DEF ArmingTransition, Deny, Machine, Machines

\* A transition that disarms has no guards.
LEMMA DisarmFacts ==
  ASSUME NEW m \in Machines, NEW request \in BOOLEAN
  PROVE  LET r == ArmingTransition(m, request, "armed", "disarmed", FALSE)
         IN  /\ r \in Machines
             /\ r.mode = m.mode
             /\ r.arming = "armed" => ~request /\ m.arming = "armed"
  BY NextSeqType DEF ArmingTransition, Deny, Machine, Machines

\* A transition of the mode leaves the arming alone.
LEMMA EnterFacts ==
  ASSUME NEW m \in Machines, NEW request \in BOOLEAN, NEW post \in Modes
  PROVE  LET r == ModeTransition(m, request, post, FALSE)
         IN  /\ r \in Machines
             /\ r.arming = m.arming
             /\ r.mode \in {m.mode, post}
  BY NextSeqType DEF ModeTransition, Deny, Machine, Machines

LEMMA CalibrationFacts ==
  ASSUME NEW m \in Machines, NEW request \in BOOLEAN
  PROVE  LET r == ModeTransition(m, request, "calibration", m.arming = "armed")
         IN  /\ r \in Machines
             /\ r.arming = m.arming
             /\ r.mode = m.mode \/ (r.mode = "calibration" /\ m.arming # "armed")
  BY NextSeqType DEF ModeTransition, Deny, Machine, Machines, Modes

\* What the four arming transitions of one pass amount to.
LEMMA ArmingPassFacts ==
  ASSUME NEW m \in Machines, NEW c \in Copies
  PROVE  LET r == ArmingPass(m, c)
         IN  /\ r \in Machines
             /\ r.mode = m.mode
             /\ r.arming = "armed" =>
                  ~Safe(c) /\ ~FuelCritical(c) /\ "disarm" \notin c.joy
             /\ r.arming = "armed" /\ m.arming = "disarmed" =>
                  "arm" \in c.joy /\ ~ArmGuard(m, c)
<1> DEFINE a1 == ArmingTransition(m, Request(c, "arm"), "disarmed", "armed", ArmGuard(m, c))
           a2 == ArmingTransition(a1, Request(c, "disarm"), "armed", "disarmed", FALSE)
           a3 == ArmingTransition(a2, FuelCritical(c), "armed", "disarmed", FALSE)
           a4 == ArmingTransition(a3, Safe(c), "armed", "disarmed", FALSE)
<1>1. /\ Request(c, "arm") \in BOOLEAN /\ Request(c, "disarm") \in BOOLEAN
      /\ FuelCritical(c) \in BOOLEAN /\ Safe(c) \in BOOLEAN /\ ArmGuard(m, c) \in BOOLEAN
  BY B3rbFsmAssumption DEF Request, FuelCritical, FuelLow, Safe, ArmGuard
<1>2. /\ a1 \in Machines
      /\ a1.mode = m.mode
      /\ a1.arming # m.arming => Request(c, "arm") /\ ~ArmGuard(m, c)
  BY <1>1, ArmingTransitionFacts
<1>3. /\ a2 \in Machines
      /\ a2.mode = m.mode
      /\ a2.arming = "armed" => ~Request(c, "disarm") /\ a1.arming = "armed"
  <2>. HIDE DEF a1
  <2>. QED BY <1>1, <1>2, DisarmFacts
<1>4. /\ a3 \in Machines
      /\ a3.mode = m.mode
      /\ a3.arming = "armed" => ~FuelCritical(c) /\ a2.arming = "armed"
  <2>. HIDE DEF a2
  <2>. QED BY <1>1, <1>3, DisarmFacts
<1>5. /\ a4 \in Machines
      /\ a4.mode = m.mode
      /\ a4.arming = "armed" => ~Safe(c) /\ a3.arming = "armed"
  <2>. HIDE DEF a3
  <2>. QED BY <1>1, <1>4, DisarmFacts
<1>6. ArmingPass(m, c) = a4
  BY DEF ArmingPass
<1>. HIDE DEF a1, a2, a3, a4
<1>. QED BY <1>2, <1>3, <1>4, <1>5, <1>6 DEF Request

\* The four mode transitions of one pass leave the arming alone, and reach the
\* calibration only when it is disarmed.
LEMMA ModePassFacts ==
  ASSUME NEW m \in Machines, NEW c \in Copies
  PROVE  LET r == ModePass(m, c)
         IN  /\ r \in Machines
             /\ r.arming = m.arming
             /\ DriveModeOnly(m) => DriveModeOnly(r)
<1> DEFINE m1 == ModeTransition(m, Request(c, "manual"), "manual", FALSE)
           m2 == ModeTransition(m1, Request(c, "cmd_vel"), "cmd_vel", FALSE)
           m3 == ModeTransition(m2, Request(c, "auto"), "auto", FALSE)
           m4 == ModeTransition(m3, Request(c, "calibration"), "calibration",
                                m3.arming = "armed")
<1>1. /\ Request(c, "manual") \in BOOLEAN /\ Request(c, "cmd_vel") \in BOOLEAN
      /\ Request(c, "auto") \in BOOLEAN /\ Request(c, "calibration") \in BOOLEAN
  BY DEF Request
<1>2. /\ m1 \in Machines
      /\ m1.arming = m.arming
      /\ m1.mode \in {m.mode, "manual"}
  <2>. "manual" \in Modes
    BY DEF Modes
  <2>. QED BY <1>1, EnterFacts
<1>3. /\ m2 \in Machines
      /\ m2.arming = m.arming
      /\ m2.mode \in {m1.mode, "cmd_vel"}
  <2>. HIDE DEF m1
  <2>. "cmd_vel" \in Modes
    BY DEF Modes
  <2>. QED BY <1>1, <1>2, EnterFacts
<1>4. /\ m3 \in Machines
      /\ m3.arming = m.arming
      /\ m3.mode \in {m2.mode, "auto"}
  <2>. HIDE DEF m2
  <2>. "auto" \in Modes
    BY DEF Modes
  <2>. QED BY <1>1, <1>3, EnterFacts
<1>5. /\ m4 \in Machines
      /\ m4.arming = m.arming
      /\ m4.mode = m3.mode \/ (m4.mode = "calibration" /\ m.arming # "armed")
  <2>. HIDE DEF m3
  <2>. QED BY <1>1, <1>4, CalibrationFacts, ZenonT(60)
<1>6. ModePass(m, c) = m4
  BY DEF ModePass
<1>. HIDE DEF m1, m2, m3, m4
<1>. QED BY <1>2, <1>3, <1>4, <1>5, <1>6 DEF DriveModeOnly, DriveModes

\* What the whole pass publishes.
LEMMA NewStatusFacts ==
  ASSUME NEW s \in Statuses, NEW c \in Copies
  PROVE  LET r == NewStatus(s, c)
         IN  /\ r \in Statuses
             /\ r.joy = s.joy
             /\ DriveModeOnly(s) => DriveModeOnly(r)
             /\ r.arming = "armed" =>
                  /\ ~Safe(c) /\ "disarm" \notin c.joy
                  /\ r.fuel # "critical" /\ r.safety = "unsafe"
             /\ r.arming = "armed" /\ s.arming = "disarmed" =>
                  /\ "arm" \in c.joy
                  /\ s.mode \notin {"unknown", "calibration"}
                  /\ r.fuel = "nominal"
<1> DEFINE m == Machine(s.arming, s.mode, s.request_seq, s.request_rejected)
           a == ArmingPass(m, c)
           r == ModePass(a, c)
<1>1. m \in Machines /\ m.arming = s.arming /\ m.mode = s.mode
  BY DEF Machine, Machines, Statuses
<1>2. /\ a \in Machines
      /\ a.mode = m.mode
      /\ a.arming = "armed" => ~Safe(c) /\ ~FuelCritical(c) /\ "disarm" \notin c.joy
      /\ a.arming = "armed" /\ m.arming = "disarmed" => "arm" \in c.joy /\ ~ArmGuard(m, c)
  <2>. HIDE DEF m
  <2>. QED BY <1>1, ArmingPassFacts
<1>3. /\ r \in Machines
      /\ r.arming = a.arming
      /\ DriveModeOnly(a) => DriveModeOnly(r)
  <2>. HIDE DEF a
  <2>. QED BY <1>2, ModePassFacts
<1>4. DriveModeOnly(s) => DriveModeOnly(a)
  <2>1. a.arming = "armed" /\ m.arming = "disarmed" => m.mode \notin {"unknown", "calibration"}
    BY <1>2 DEF ArmGuard
  <2>. HIDE DEF m, a
  <2>. QED BY <2>1, <1>1, <1>2 DEF DriveModeOnly, DriveModes, Machines, Modes
<1>5. NewStatus(s, c) =
        [arming |-> r.arming, mode |-> r.mode, joy |-> s.joy,
         fuel |-> Fuel(c), safety |-> SafetyStatus(c),
         request_seq |-> r.request_seq, request_rejected |-> r.request_rejected]
  BY DEF NewStatus, FsmUpdate
<1>6. /\ Fuel(c) \in Voltages
      /\ ~FuelCritical(c) => Fuel(c) # "critical"
      /\ ~FuelCritical(c) /\ ~FuelLow(c) => Fuel(c) = "nominal"
  BY DEF Fuel, Voltages
<1>7. /\ SafetyStatus(c) \in SafetyStates
      /\ ~Safe(c) => SafetyStatus(c) = "unsafe"
  BY B3rbFsmAssumption DEF SafetyStatus, SafetyStates, Safe, Copies
<1>8. ~ArmGuard(m, c) =>
        m.mode \notin {"unknown", "calibration"} /\ ~FuelCritical(c) /\ ~FuelLow(c)
  BY DEF ArmGuard
<1>. HIDE DEF m, a, r
<1>9. NewStatus(s, c) \in Statuses
  BY <1>3, <1>5, <1>6, <1>7 DEF Machines, Statuses
<1>. QED
  BY <1>1, <1>2, <1>3, <1>4, <1>5, <1>6, <1>7, <1>8, <1>9
     DEF DriveModeOnly

-----------------------------------------------------------------------------
(* The inductive invariant.                                                *)

\* Also of the copies the thread works on, not only of what it publishes.
DriveInv == DriveModeOnly(status) /\ DriveModeOnly(topic)

\* What a status that says ARMED says of the safety and the battery holds of
\* what is published, and of the thread's own message once it was completed.
PermitInv ==
  /\ pc = "boot" => status.fuel = "unknown"
  /\ \A s \in {status, topic} :
       s.arming = "armed" /\ s.fuel # "unknown" => s.fuel # "critical" /\ s.safety = "unsafe"

\* How long the safety has been denied bounds where the thread can be while it
\* is still armed.  A copy that says UNSAFE is as fresh as the last tick.
SafetyInv ==
  ~lost /\ SenseSafety =>
    /\ safety = "unsafe" => denied = 0
    /\ pc = "boot" => denied = 0
    /\ topic.arming = status.arming
    /\ "safety" \notin news => ctx.safety = safety
    /\ pc \in {"read_joy", "update"} /\ ctx.safety = "unsafe" => denied = 0
    /\ status.arming = "armed" =>
         /\ pc = "top" => denied = 0
         /\ denied <= polled

LEMMA InitInv == Init => TypeOK /\ DriveInv /\ PermitInv /\ SafetyInv
<1>. SUFFICES ASSUME Init PROVE TypeOK /\ DriveInv /\ PermitInv /\ SafetyInv
  OBVIOUS
<1>1. status \in Statuses /\ topic = status /\ ctx \in Copies
  BY B3rbFsmAssumption DEF Init, Statuses, Copies, Modes, Voltages, SafetyStates
<1>2. lost \in BOOLEAN
  BY DEF Init
<1>3. TypeOK
  <2>. HIDE DEF Statuses, Copies
  <2>1. /\ polled \in 0 .. PollTicks /\ joyGap \in 0 .. JoyTicks + 1
        /\ heard \in 0 .. HeardMax /\ denied \in 0 .. PollTicks + 1
    BY B3rbFsmAssumption DEF Init, HeardMax
  <2>. QED BY <1>1, <1>2, <2>1 DEF Init, TypeOK, Voltages, SafetyStates
<1>4. DriveInv /\ PermitInv /\ SafetyInv
  BY B3rbFsmAssumption DEF Init, DriveInv, DriveModeOnly, PermitInv, SafetyInv
<1>. QED BY <1>3, <1>4

LEMMA LossType == TypeOK /\ [Next]_vars => lost' \in BOOLEAN
<1>. SUFFICES ASSUME lost \in BOOLEAN, [Next]_vars PROVE lost' \in {TRUE, lost}
  BY DEF TypeOK
<1>1. CASE AutoArm \/ Update
  BY <1>1 DEF AutoArm, Update, PublishStatus, Publish
<1>2. CASE ReadBattery \/ ReadSafety \/ ReadJoy
  BY <1>2 DEF ReadBattery, ReadSafety, ReadJoy, Read
<1>3. CASE ReadNow \/ Poll \/ Tick
  BY <1>3 DEF ReadNow, Poll, Tick
<1>4. CASE Environment
  BY <1>4 DEF Environment, PublishJoy, PublishBattery, PublishSafety, Signal
<1>5. CASE UNCHANGED vars
  BY <1>5 DEF vars
<1>. QED BY <1>1, <1>2, <1>3, <1>4, <1>5 DEF Next, Loop

LEMMA NextTypeOK == TypeOK /\ [Next]_vars => TypeOK'
<1>. SUFFICES ASSUME TypeOK, [Next]_vars PROVE TypeOK'
  OBVIOUS
<1>. USE B3rbFsmAssumption
     DEF TypeOK, Statuses, Copies, SafetyStates, inputVars, timeVars
<1>0. lost' \in BOOLEAN
  BY LossType
<1>1. CASE AutoArm
  <2>1. status' \in Statuses
    BY <1>1 DEF AutoArm, Modes
  <2>2. topic' \in {status', topic}
    BY <1>1 DEF AutoArm, PublishStatus, Publish
  <2>. QED BY <1>0, <1>1, <2>1, <2>2 DEF AutoArm
<1>2. CASE ReadNow
  BY <1>2 DEF ReadNow, Saturate
<1>3. CASE Poll
  BY <1>3 DEF Poll
<1>4. CASE ReadBattery
  <2>1. ctx' \in Copies
    BY <1>4 DEF ReadBattery, Read
  <2>. QED BY <1>0, <1>4, <2>1 DEF ReadBattery, Read
<1>5. CASE ReadSafety
  <2>1. ctx' \in Copies
    BY <1>5 DEF ReadSafety, Read
  <2>. QED BY <1>0, <1>5, <2>1 DEF ReadSafety, Read
<1>6. CASE ReadJoy
  <2>1. ctx' \in Copies
    BY <1>6 DEF ReadJoy, Read
  <2>2. status' \in Statuses
    BY <1>6 DEF ReadJoy, Read
  <2>3. joyGap' \in 0 .. JoyTicks + 1 /\ heard' \in 0 .. HeardMax
    BY <1>6 DEF ReadJoy, Read, HeardMax
  <2>. QED BY <1>0, <1>6, <2>1, <2>2, <2>3 DEF ReadJoy, Read
<1>7. CASE Update
  <2>1. status' \in Statuses
    <3>1. status' = NewStatus(status, ctx) /\ status \in Statuses /\ ctx \in Copies
      BY <1>7 DEF Update
    <3>. QED BY <3>1, NewStatusFacts
  <2>2. topic' \in {status', topic}
    BY <1>7 DEF Update, PublishStatus, Publish
  <2>. QED BY <1>0, <1>7, <2>1, <2>2 DEF Update
<1>8. CASE Environment
  <2>1. joy' \in Joys \cup {{}} /\ battery' \in Voltages /\ safety' \in SafetyStates
    BY <1>8 DEF Environment, PublishJoy, PublishBattery, PublishSafety, Voltages
  <2>2. news' \subseteq {"joy", "battery", "safety"}
    BY <1>8 DEF Environment, PublishJoy, PublishBattery, PublishSafety, Signal
  <2>3. /\ UNCHANGED <<pc, ctx, status, topic, polled, joyGap, heard>>
        /\ denied' \in {denied, 0}
    BY <1>8 DEF Environment, PublishJoy, PublishBattery, PublishSafety
  <2>. HIDE DEF Statuses, Copies, SafetyStates
  <2>. QED BY <1>0, <2>1, <2>2, <2>3
<1>9. CASE Tick
  BY <1>9 DEF Tick, Saturate, HeardMax
<1>10. CASE UNCHANGED vars
  BY <1>10 DEF vars
<1>. QED BY <1>1, <1>2, <1>3, <1>4, <1>5, <1>6, <1>7, <1>8, <1>9, <1>10 DEF Next, Loop

\* The steps that write the status.
LEMMA StatusSteps ==
  ASSUME TypeOK, [Next]_vars
  PROVE  \/ AutoArm
         \/ Update
         \/ /\ status'.arming = status.arming /\ status'.mode = status.mode
            /\ status'.fuel = status.fuel /\ status'.safety = status.safety
            /\ UNCHANGED topic
<1>1. CASE ReadJoy
  BY <1>1 DEF ReadJoy, TypeOK, Statuses
<1>2. CASE UNCHANGED <<status, topic>>
  BY <1>2
<1>3. CASE ReadNow \/ Poll \/ ReadBattery \/ ReadSafety
  BY <1>2, <1>3 DEF ReadNow, Poll, ReadBattery, ReadSafety
<1>4. CASE Environment \/ Tick
  BY <1>2, <1>4 DEF Environment, PublishJoy, PublishBattery, PublishSafety, Tick
<1>5. CASE UNCHANGED vars
  BY <1>2, <1>5 DEF vars
<1>. QED BY <1>1, <1>3, <1>4, <1>5 DEF Next, Loop

LEMMA UpdateFacts ==
  ASSUME TypeOK, Update
  PROVE  /\ DriveModeOnly(status) => DriveModeOnly(status')
         /\ status'.arming = "armed" =>
              /\ ~Safe(ctx) /\ "disarm" \notin ctx.joy
              /\ status'.fuel # "critical" /\ status'.safety = "unsafe"
         /\ status'.arming = "armed" /\ status.arming = "disarmed" =>
              /\ "arm" \in ctx.joy
              /\ status.mode \notin {"unknown", "calibration"}
              /\ status'.fuel = "nominal"
<1>1. status' = NewStatus(status, ctx) /\ status \in Statuses /\ ctx \in Copies
  BY DEF Update, TypeOK
<1>. QED BY <1>1, NewStatusFacts

LEMMA NextDriveInv == TypeOK /\ DriveInv /\ [Next]_vars => DriveInv'
<1>. SUFFICES ASSUME TypeOK, DriveInv, [Next]_vars PROVE DriveInv'
  OBVIOUS
<1>1. CASE AutoArm
  BY <1>1 DEF AutoArm, PublishStatus, Publish, DriveInv, DriveModeOnly, DriveModes
<1>2. CASE Update
  <2>1. DriveModeOnly(status') /\ topic' \in {status', topic}
    BY <1>2, UpdateFacts DEF Update, PublishStatus, Publish, DriveInv
  <2>. QED BY <2>1 DEF DriveInv, DriveModeOnly
<1>3. CASE /\ status'.arming = status.arming /\ status'.mode = status.mode
           /\ UNCHANGED topic
  BY <1>3 DEF DriveInv, DriveModeOnly
<1>. QED BY <1>1, <1>2, <1>3, StatusSteps

LEMMA NextPermitInv == TypeOK /\ PermitInv /\ [Next]_vars => PermitInv'
<1>. SUFFICES ASSUME TypeOK, PermitInv, [Next]_vars PROVE PermitInv'
  OBVIOUS
<1>1. CASE AutoArm
  BY <1>1 DEF AutoArm, PublishStatus, Publish, PermitInv
<1>2. CASE Update
  <2>1. /\ status'.arming = "armed" => status'.fuel # "critical" /\ status'.safety = "unsafe"
        /\ topic' \in {status', topic}
        /\ pc' = "top"
    BY <1>2, UpdateFacts DEF Update, PublishStatus, Publish
  <2>. QED BY <2>1 DEF PermitInv
<1>3. CASE /\ status'.arming = status.arming /\ status'.fuel = status.fuel
           /\ status'.safety = status.safety /\ UNCHANGED topic
  <2>1. pc' = "boot" => pc = "boot"
    BY DEF Next, Loop, AutoArm, ReadNow, Poll, ReadBattery, ReadSafety, ReadJoy, Update,
           Environment, PublishJoy, PublishBattery, PublishSafety, Tick, vars
  <2>. QED BY <1>3, <2>1 DEF PermitInv
<1>. QED BY <1>1, <1>2, <1>3, StatusSteps

\* A loss is remembered.
LEMMA LossStays == [Next]_vars /\ lost => lost'
<1>. SUFFICES ASSUME [Next]_vars, lost PROVE lost'
  OBVIOUS
<1>1. CASE AutoArm \/ Update
  BY <1>1 DEF AutoArm, Update, PublishStatus, Publish
<1>2. CASE ReadBattery \/ ReadSafety \/ ReadJoy
  BY <1>2 DEF ReadBattery, ReadSafety, ReadJoy, Read
<1>3. CASE ReadNow \/ Poll \/ Tick
  BY <1>3 DEF ReadNow, Poll, Tick
<1>4. CASE Environment
  BY <1>4 DEF Environment, PublishJoy, PublishBattery, PublishSafety, Signal
<1>5. CASE UNCHANGED vars
  BY <1>5 DEF vars
<1>. QED BY <1>1, <1>2, <1>3, <1>4, <1>5 DEF Next, Loop

LEMMA NextSafetyInv == TypeOK /\ SafetyInv /\ [Next]_vars => SafetyInv'
<1>. SUFFICES ASSUME TypeOK, SafetyInv, [Next]_vars, ~lost', SenseSafety
              PROVE SafetyInv'
  BY DEF SafetyInv
<1>. ~lost
  BY LossStays
<1>. USE DEF SafetyInv, inputVars, timeVars
<1>0. polled \in Nat /\ denied \in Nat
  BY B3rbFsmAssumption DEF TypeOK
<1>1. CASE AutoArm
  BY <1>0, <1>1 DEF AutoArm, PublishStatus, Publish
<1>2. CASE ReadNow
  BY <1>0, <1>2 DEF ReadNow
<1>3. CASE Poll
  BY <1>3 DEF Poll
<1>4. CASE ReadBattery
  <2>1. ctx'.safety = ctx.safety
    BY <1>4 DEF ReadBattery, Read, TypeOK, Copies
  <2>. QED BY <1>4, <2>1 DEF ReadBattery, Read
<1>5. CASE ReadSafety
  <2>1. ctx'.safety = safety
    BY <1>5 DEF ReadSafety, Read, TypeOK, Copies
  <2>. QED BY <1>5, <2>1 DEF ReadSafety, Read
<1>6. CASE ReadJoy
  <2>1. ctx'.safety = ctx.safety /\ status'.arming = status.arming
    BY <1>6 DEF ReadJoy, Read, TypeOK, Copies, Statuses
  <2>. QED BY <1>6, <2>1 DEF ReadJoy, Read
<1>7. CASE Update
  <2>1. status'.arming = "armed" => ~Safe(ctx)
    BY <1>7, UpdateFacts
  <2>2. status'.arming = "armed" => denied = 0
    BY <1>7, <2>1 DEF Update, Safe
  <2>. QED BY <1>0, <1>7, <2>2 DEF Update, PublishStatus, Publish
<1>8. CASE Environment
  BY <1>0, <1>8 DEF Environment, PublishJoy, PublishBattery, PublishSafety, Signal
<1>9. CASE Tick
  BY <1>0, <1>9, B3rbFsmAssumption DEF Tick, Saturate
<1>10. CASE UNCHANGED vars
  BY <1>10 DEF vars
<1>. QED BY <1>1, <1>2, <1>3, <1>4, <1>5, <1>6, <1>7, <1>8, <1>9, <1>10 DEF Next, Loop

-----------------------------------------------------------------------------
(* The theorems.                                                           *)

\* Everything above holds in every reachable state.
LEMMA Invariance == Spec => [](TypeOK /\ DriveInv /\ PermitInv /\ SafetyInv)
<1>1. Init => TypeOK /\ DriveInv /\ PermitInv /\ SafetyInv
  BY InitInv
<1>2. TypeOK /\ DriveInv /\ PermitInv /\ SafetyInv /\ [Next]_vars
        => (TypeOK /\ DriveInv /\ PermitInv /\ SafetyInv)'
  BY NextTypeOK, NextDriveInv, NextPermitInv, NextSafetyInv
<1>. QED BY <1>1, <1>2, PTL DEF Spec

\* Every variable keeps its type; request_seq stays below its modulus.
THEOREM TypeCorrect == Spec => []TypeOK
  BY Invariance, PTL

\* For any combination of buttons in one message, the supervisor never arms a
\* vehicle in calibration or calibrates an armed one (fsm.c:178-183, 250-255).
THEOREM CalibratesDisarmed == Spec => []ArmedInDriveMode
<1>1. DriveInv => ArmedInDriveMode
  BY DEF DriveInv, DriveModeOnly, DriveModes, ArmedInDriveMode
<1>. QED BY <1>1, Invariance, PTL

\* After the automatic arming, a status that says ARMED says that the safety is
\* off and the battery is not critical (fsm.c:197-217).
THEOREM Permitted == Spec => []ArmedIsPermitted
<1>1. PermitInv => ArmedIsPermitted
  BY DEF PermitInv, ArmedIsPermitted
<1>. QED BY <1>1, Invariance, PTL

\* Whatever the joystick sends, after the boot only the button arms, and only
\* past every guard (fsm.c:168-183).
THEOREM OnlyOnRequest == Spec => ArmsOnlyOnRequest
<1> DEFINE Arms ==
      pc # "boot" /\ status.arming = "disarmed" /\ status'.arming = "armed" =>
        /\ "arm" \in ctx.joy /\ "disarm" \notin ctx.joy
        /\ status.mode \notin {"unknown", "calibration"}
        /\ status'.fuel = "nominal" /\ status'.safety = "unsafe"
<1>1. TypeOK /\ [Next]_vars => [Arms]_vars
  <2>. SUFFICES ASSUME TypeOK, [Next]_vars PROVE Arms
    OBVIOUS
  <2>1. CASE AutoArm
    BY <2>1 DEF AutoArm
  <2>2. CASE Update
    BY <2>2, UpdateFacts
  <2>3. CASE status'.arming = status.arming
    BY <2>3
  <2>. QED BY <2>1, <2>2, <2>3, StatusSteps
<1>. QED BY <1>1, Invariance, PTL DEF Spec, ArmsOnlyOnRequest

\* For every length of the poll, the safety switch disarms before it is over,
\* if no message is dropped (fsm.c:308-326, 332-334).
THEOREM SafetyInTime == Spec => []SafetyDisarmsInTime
<1>1. TypeOK /\ SafetyInv => SafetyDisarmsInTime
  BY B3rbFsmAssumption DEF TypeOK, Statuses, SafetyInv, SafetyDisarmsInTime
<1>. QED BY <1>1, Invariance, PTL

-----------------------------------------------------------------------------
(* The loss of the joystick.                                               *)

\* While the joystick counts as heard, joyGap and polled together are not behind the
\* time since it was; once joyGap is past its limit, the reading of this iteration ends it.
JoyInv ==
  status.joy = "nominal" =>
    /\ joyGap <= JoyTicks => heard <= joyGap + polled
    /\ joyGap > JoyTicks =>
         /\ pc \in {"poll", "read_battery", "read_safety", "read_joy"}
         /\ heard <= JoyTicks + PollTicks + polled

LEMMA NextJoyInv == TypeOK /\ JoyInv /\ [Next]_vars => JoyInv'
<1>. SUFFICES ASSUME TypeOK, JoyInv, [Next]_vars PROVE JoyInv'
  OBVIOUS
<1>. USE DEF JoyInv, inputVars, timeVars
<1>0. /\ polled \in 0 .. PollTicks /\ joyGap \in Nat /\ heard \in Nat
      /\ PollTicks \in Nat /\ JoyTicks \in Nat
  BY B3rbFsmAssumption DEF TypeOK, HeardMax
<1>1. CASE AutoArm
  <2>1. status'.joy = status.joy
    BY <1>1 DEF AutoArm
  <2>. QED BY <1>1, <2>1 DEF AutoArm
<1>2. CASE ReadNow
  BY <1>0, <1>2 DEF ReadNow, Saturate
<1>3. CASE Poll \/ ReadBattery \/ ReadSafety
  BY <1>3 DEF Poll, ReadBattery, ReadSafety
<1>4. CASE ReadJoy
  <2>1. CASE "joy" \in news
    BY <1>0, <1>4, <2>1 DEF ReadJoy
  <2>2. CASE "joy" \notin news
    <3>1. status'.joy = IF joyGap > JoyTicks THEN "loss" ELSE status.joy
      BY <1>4, <2>2 DEF ReadJoy, TypeOK, Statuses
    <3>. QED BY <1>0, <1>4, <2>2, <3>1 DEF ReadJoy
  <2>. QED BY <2>1, <2>2
<1>5. CASE Update
  <2>1. status'.joy = status.joy
    BY <1>5 DEF Update, NewStatus
  <2>. QED BY <1>5, <2>1 DEF Update
<1>6. CASE Environment
  BY <1>6 DEF Environment, PublishJoy, PublishBattery, PublishSafety
<1>7. CASE Tick
  <2>1. heard' <= heard + 1 /\ heard' \in Nat
    BY <1>0, <1>7, B3rbFsmAssumption DEF Tick, Saturate, HeardMax
  <2>. QED BY <1>0, <1>7, <2>1 DEF Tick
<1>8. CASE UNCHANGED vars
  BY <1>8 DEF vars
<1>. QED BY <1>1, <1>2, <1>3, <1>4, <1>5, <1>6, <1>7, <1>8 DEF Next, Loop

\* For any length of the poll and of the limit: the joystick is declared lost at most two
\* polls late, whatever else wakes the thread (fsm.c:313-350).
THEOREM JoyLoss == Spec => []JoyLossInTime
<1>1. Init => JoyInv
  BY DEF Init, JoyInv
<1>2. TypeOK /\ JoyInv => JoyLossInTime
  BY B3rbFsmAssumption DEF TypeOK, JoyInv, JoyLossInTime, HeardMax
<1>. QED BY <1>1, <1>2, NextJoyInv, Invariance, PTL DEF Spec
=============================================================================
