--------------------------- MODULE ActuatePwmProofs ---------------------------
(***************************************************************************)
(* Proofs about ActuatePwm: for any speeds, any length of the poll, and    *)
(* topics that drop any message.                                           *)
(***************************************************************************)
EXTENDS ActuatePwm, TLAPS

\* What the proofs need of the constants.
PwmConstants == PollTicks \in Nat /\ MaxSpeed \in Nat /\ Speeds \subseteq Int

\* How long a disarmed status can have been published while the motor still turns, by
\* the place of the thread; a copy that says ARMED, once read, is fresh.
DisarmInv ==
  ~lost =>
    /\ arming = "armed" => disarmed = 0
    /\ "status" \notin news => ctx.arming = arming
    /\ pc \in {"read_actuators", "update"} /\ ctx.arming = "armed" => disarmed = 0
    /\ pulse # 0 => disarmed <= polled

LEMMA InitInv == ASSUME PwmConstants, Init PROVE TypeOK /\ DisarmInv
<1>1. ctx \in [arming : {"disarmed", "armed"}, actuators : Speeds \cup {0}]
  BY DEF Init
<1>2. lost \in BOOLEAN /\ timedOut \in BOOLEAN
  BY DEF Init
<1>3. TypeOK
  BY <1>1, <1>2 DEF PwmConstants, Init, TypeOK
<1>4. DisarmInv
  <2>1. ctx.arming = arming
    BY DEF Init
  <2>. QED BY <2>1 DEF Init, DisarmInv
<1>. QED BY <1>3, <1>4

LEMMA PulseType ==
  ASSUME PwmConstants, NEW armed \in BOOLEAN, NEW v \in Speeds \cup {0}
  PROVE  Pulse(armed, v) \in -MaxSpeed .. MaxSpeed
  BY DEF PwmConstants, Pulse

LEMMA NextTypeOK == ASSUME PwmConstants, TypeOK, [Next]_vars PROVE TypeOK'
<1>. USE DEF TypeOK
<1>1. CASE Poll
  BY <1>1 DEF Poll
<1>2. CASE ReadStatus
  BY <1>2 DEF ReadStatus, Read
<1>3. CASE ReadActuators
  BY <1>3 DEF ReadActuators, Read
<1>4. CASE Update
  <2>1. pulse' \in -MaxSpeed .. MaxSpeed
    BY <1>4, PulseType DEF Update
  <2>2. polled' \in 0 .. PollTicks
    BY <1>4 DEF Update, PwmConstants
  <2>. QED BY <1>4, <2>1, <2>2 DEF Update
<1>5. CASE \E a \in {"disarmed", "armed"} : PublishStatus(a)
  <2>1. /\ arming' \in {"disarmed", "armed"} /\ disarmed' \in {0, disarmed}
        /\ news' \subseteq {"status", "actuators"}
        /\ UNCHANGED <<pc, actuators, ctx, timedOut, pulse, polled>>
    BY <1>5 DEF PublishStatus, Signal
  <2>2. lost' \in BOOLEAN
    BY <1>5 DEF PublishStatus, Signal
  <2>. QED BY <2>1, <2>2 DEF PwmConstants
<1>6. CASE \E v \in Speeds : PublishActuators(v)
  BY <1>6 DEF PublishActuators, Signal
<1>7. CASE Tick
  BY <1>7 DEF Tick, PwmConstants
<1>8. CASE UNCHANGED vars
  BY <1>8 DEF vars
<1>. QED BY <1>1, <1>2, <1>3, <1>4, <1>5, <1>6, <1>7, <1>8 DEF Next, Loop

\* A loss is remembered.
LEMMA LossStays == ASSUME [Next]_vars, lost PROVE lost'
<1>1. CASE Loop
  BY <1>1 DEF Loop, Poll, ReadStatus, ReadActuators, Update, Read
<1>2. CASE Tick \/ UNCHANGED vars
  BY <1>2 DEF Tick, vars
<1>3. CASE \/ \E a \in {"disarmed", "armed"} : PublishStatus(a)
           \/ \E v \in Speeds : PublishActuators(v)
  BY <1>3 DEF PublishStatus, PublishActuators, Signal
<1>. QED BY <1>1, <1>2, <1>3 DEF Next

LEMMA NextDisarmInv == ASSUME PwmConstants, TypeOK, DisarmInv, [Next]_vars PROVE DisarmInv'
<1>. SUFFICES ASSUME ~lost' PROVE DisarmInv'
  BY DEF DisarmInv
<1>. ~lost
  BY LossStays
<1>. USE DEF DisarmInv
<1>0. polled \in Nat /\ disarmed \in Nat /\ PollTicks \in Nat
  BY DEF TypeOK, PwmConstants
<1>1. CASE Poll
  BY <1>1 DEF Poll
<1>2. CASE ReadStatus
  <2>1. ctx'.arming = arming
    BY <1>2 DEF ReadStatus, Read, TypeOK
  <2>. QED BY <1>2, <2>1 DEF ReadStatus, Read
<1>3. CASE ReadActuators
  <2>1. ctx'.arming = ctx.arming
    BY <1>3 DEF ReadActuators, Read, TypeOK
  <2>. QED BY <1>3, <2>1 DEF ReadActuators, Read
<1>4. CASE Update
  <2>1. ctx.arming = "armed" \/ pulse' = 0
    BY <1>4 DEF Update, Pulse
  <2>. QED BY <1>0, <1>4, <2>1 DEF Update
<1>5. CASE \E a \in {"disarmed", "armed"} : PublishStatus(a)
  BY <1>0, <1>5 DEF PublishStatus, Signal
<1>6. CASE \E v \in Speeds : PublishActuators(v)
  BY <1>6 DEF PublishActuators, Signal
<1>7. CASE Tick
  BY <1>0, <1>7 DEF Tick
<1>8. CASE UNCHANGED vars
  BY <1>8 DEF vars
<1>. QED BY <1>1, <1>2, <1>3, <1>4, <1>5, <1>6, <1>7, <1>8 DEF Next, Loop

LEMMA StopsInTime == ASSUME PwmConstants, TypeOK, DisarmInv PROVE MotorStopsInTime
  BY DEF PwmConstants, TypeOK, DisarmInv, MotorStopsInTime

\* For any speeds asked for and any length of the poll: a disarmed status stops the
\* motor within one poll, if nothing is dropped (pwm/main.c:131-157).
THEOREM MotorStops == ASSUME PwmConstants PROVE Spec => []MotorStopsInTime
<1>1. Init => TypeOK /\ DisarmInv
  BY InitInv
<1>2. TypeOK /\ DisarmInv /\ [Next]_vars => (TypeOK /\ DisarmInv)'
  BY NextTypeOK, NextDisarmInv
<1>3. TypeOK /\ DisarmInv => MotorStopsInTime
  BY StopsInTime
<1>. QED BY <1>1, <1>2, <1>3, PTL DEF Spec
=============================================================================
