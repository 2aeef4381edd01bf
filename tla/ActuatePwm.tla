------------------------------ MODULE ActuatePwm ------------------------------
(***************************************************************************)
(* The thread that drives the motors (lib/actuate/pwm/main.c).  It waits   *)
(* for the actuators, reads the status and the actuators, and sets the     *)
(* pulses: those of the actuators if armed, those of a zero input if not.  *)
(* One motor stands for all; its pulse is the speed it makes, in cm/s.     *)
(* It is a client of its topics as ZrosClient says; time passes while it   *)
(* polls.                                                                  *)
(***************************************************************************)
EXTENDS Integers, ZrosClient

CONSTANTS
  Speeds,    \* the speeds the actuators ask for
  MaxSpeed,  \* the speed of the longest pulse
  PollTicks  \* ticks k_poll waits, one second

VARIABLES
  pc,        \* where the thread stands in its loop
  arming,    \* topic_status, its arming
  actuators, \* topic_actuators
  timedOut,  \* the poll of this loop ended with no message, and none came since
  pulse,     \* what the motor is told to do
  polled,    \* ticks this poll has waited
  disarmed   \* history: ticks the topic has said disarmed, up to PollTicks + 1

vars == <<pc, arming, actuators, news, ctx, lost, timedOut, pulse, polled, disarmed>>

Init ==
  /\ pc = "poll"
  /\ arming = "disarmed" /\ actuators = 0
  /\ news = {} /\ lost = FALSE
  /\ ctx = [arming |-> "disarmed", actuators |-> 0]
  /\ timedOut = FALSE
  /\ pulse = 0
  /\ polled = 0 /\ disarmed = 0

\* pwm_update: the pulse saturates, its direction is that of the input.
Pulse(armed, v) ==
  IF ~armed THEN 0
  ELSE IF v > MaxSpeed THEN MaxSpeed ELSE IF v < -MaxSpeed THEN -MaxSpeed ELSE v

\* A timeout logs that it disarms, and does nothing else.
Poll ==
  /\ pc = "poll"
  /\ "actuators" \in news \/ polled = PollTicks
  /\ timedOut' = ("actuators" \notin news)
  /\ pc' = "read_status"
  /\ UNCHANGED <<arming, actuators, news, ctx, lost, pulse, polled, disarmed>>

\* Mutant of ReadStatus: skipped when the poll timed out.
ReadStatusOnEvent ==
  /\ pc = "read_status"
  /\ IF ~timedOut
     THEN Read("status", [ctx EXCEPT !.arming = arming]) ELSE UNCHANGED <<news, ctx, lost>>
  /\ pc' = "read_actuators"
  /\ UNCHANGED <<arming, actuators, timedOut, pulse, polled, disarmed>>

ReadStatus ==
  /\ pc = "read_status"
  /\ Read("status", [ctx EXCEPT !.arming = arming])
  /\ pc' = "read_actuators"
  /\ UNCHANGED <<arming, actuators, timedOut, pulse, polled, disarmed>>

ReadActuators ==
  /\ pc = "read_actuators"
  /\ Read("actuators", [ctx EXCEPT !.actuators = actuators])
  /\ timedOut' = (timedOut /\ "actuators" \notin news)
  /\ pc' = "update"
  /\ UNCHANGED <<arming, actuators, pulse, polled, disarmed>>

Update ==
  /\ pc = "update"
  /\ pulse' = Pulse(ctx.arming = "armed", ctx.actuators)
  /\ polled' = 0
  /\ pc' = "poll"
  /\ UNCHANGED <<arming, actuators, news, ctx, lost, timedOut, disarmed>>

-----------------------------------------------------------------------------
(* What surrounds the thread.                                              *)

PublishStatus(a) ==
  /\ arming' = a
  /\ Signal("status")
  /\ disarmed' = IF a = "armed" THEN 0 ELSE disarmed
  /\ UNCHANGED <<pc, actuators, ctx, timedOut, pulse, polled>>

PublishActuators(v) ==
  /\ actuators' = v
  /\ Signal("actuators")
  /\ UNCHANGED <<pc, arming, ctx, timedOut, pulse, polled, disarmed>>

Tick ==
  /\ pc = "poll" /\ polled < PollTicks /\ "actuators" \notin news
  /\ polled' = polled + 1
  /\ disarmed' = IF arming = "armed" THEN 0
                 ELSE IF disarmed > PollTicks THEN disarmed ELSE disarmed + 1
  /\ UNCHANGED <<pc, arming, actuators, news, ctx, lost, timedOut, pulse>>

Loop == Poll \/ ReadStatus \/ ReadActuators \/ Update

Next ==
  \/ Loop
  \/ \E a \in {"disarmed", "armed"} : PublishStatus(a)
  \/ \E v \in Speeds : PublishActuators(v)
  \/ Tick

Spec == Init /\ [][Next]_vars

-----------------------------------------------------------------------------
(* Properties.                                                             *)

TypeOK ==
  /\ pc \in {"poll", "read_status", "read_actuators", "update"}
  /\ arming \in {"disarmed", "armed"} /\ actuators \in Speeds \cup {0}
  /\ news \subseteq {"status", "actuators"}
  /\ ctx \in [arming : {"disarmed", "armed"}, actuators : Speeds \cup {0}]
  /\ timedOut \in BOOLEAN /\ lost \in BOOLEAN
  /\ pulse \in -MaxSpeed .. MaxSpeed
  /\ polled \in 0 .. PollTicks /\ disarmed \in 0 .. PollTicks + 1

\* When nothing is dropped, a disarmed status stops the motor within one poll,
\* although the status does not wake the thread and the actuators may still ask
\* for speed (pwm/main.c:131-157).
MotorStopsInTime == ~lost /\ disarmed > PollTicks => pulse = 0

\* "put motors in disarmed state": an update after a poll with no actuator message
\* stops a motor that turns (pwm/main.c:140-146).
TimeoutStopsMotor == [][Update /\ timedOut /\ pulse # 0 => pulse' = 0]_vars
=============================================================================
