------------------------------- MODULE B3rbFsm -------------------------------
(***************************************************************************)
(* The supervisor thread of the vehicle (app/b3rb/src/fsm.c).  It arms     *)
(* itself after the boot, and then reads the joystick, the battery and the *)
(* safety switch, runs the arming and mode transitions over what it read   *)
(* and publishes the status.                                               *)
(*                                                                         *)
(* It is a client of the topics as ZrosClient says.                        *)
(*                                                                         *)
(* Time passes in ticks, and only while the thread polls: the body of the  *)
(* loop takes no time, and a poll ends when its time is up.                *)
(***************************************************************************)
EXTENDS Integers, ZrosClient

CONSTANTS
  SenseSafety, \* CONFIG_CEREBRI_SENSE_SAFETY
  SensePower,  \* CONFIG_CEREBRI_SENSE_POWER
  Joys,        \* the messages of the joystick: each a set of pressed buttons
  Batteries,   \* the voltages the battery reports
  PollTicks,   \* ticks k_poll waits, one second
  JoyTicks,    \* joy_loss_ticks, one second
  SeqModulus   \* bound: request_seq is counted modulo this

Buttons == {"arm", "disarm", "manual", "auto", "cmd_vel", "calibration"}

ASSUME B3rbFsmAssumption ==
  /\ SenseSafety \in BOOLEAN /\ SensePower \in BOOLEAN
  /\ Joys \subseteq SUBSET Buttons
  /\ Batteries \subseteq {"critical", "low", "nominal"}
  /\ PollTicks \in Nat /\ JoyTicks \in Nat
  /\ SeqModulus \in Nat \ {0}

VARIABLES
  pc,      \* where the thread stands in its loop
  joy,     \* topic_joy: the buttons pressed
  battery, \* topic_battery_state: the voltage against its two thresholds
  safety,  \* topic_safety
  status,  \* the thread's status message
  topic,   \* topic_status: what the thread published last
  polled,  \* ticks since now_ticks was read
  joyGap,  \* now_ticks - joy_last_ticks, counted up to JoyTicks + 1
  heard,   \* history: ticks since joy was copied, up to JoyTicks + 2 * PollTicks + 1
  denied   \* history: ticks safety has not been unsafe since the boot, up to PollTicks + 1

vars == <<pc, joy, battery, safety, news, ctx, lost, status, topic, polled, joyGap,
          heard, denied>>
inputVars == <<joy, battery, safety>>
timeVars  == <<polled, joyGap, heard, denied>>

HeardMax == JoyTicks + 2 * PollTicks + 1

\* A counter that stops at n.
Saturate(x, n) == IF x > n THEN n ELSE x

Voltages     == {"critical", "low", "nominal"}
SafetyStates == {"unknown", "safe", "unsafe"}
Modes        == {"unknown", "manual", "auto", "cmd_vel", "calibration"}

Init ==
  /\ pc = "boot"
  /\ joy = {} /\ battery = "critical" /\ safety = "unknown"
  /\ news = {} /\ lost = FALSE
  /\ ctx = [joy |-> {}, battery |-> "critical", safety |-> "unknown"]
  /\ status = [arming |-> "disarmed", mode |-> "unknown", joy |-> "unknown",
               fuel |-> "unknown", safety |-> "unknown",
               request_seq |-> 0, request_rejected |-> FALSE]
  /\ topic = status
  /\ polled = 0 /\ joyGap = 0 /\ heard = 0 /\ denied = 0

-----------------------------------------------------------------------------
(* The transitions.  Each takes the four fields they share and returns     *)
(* their new values.                                                       *)

Machine(arming, mode, seq, rejected) ==
  [arming |-> arming, mode |-> mode, request_seq |-> seq, request_rejected |-> rejected]

\* Mutant of NextSeq: never wraps.
NextSeqUnbounded(m) == m.request_seq + 1

NextSeq(m) == (m.request_seq + 1) % SeqModulus

\* A guard holds: the request is counted and refused.
Deny(m) == Machine(m.arming, m.mode, NextSeq(m), TRUE)

\* The request is ignored unless it would change the arming from pre to post.
ArmingTransition(m, request, pre, post, guard) ==
  IF ~request \/ m.arming = post \/ m.arming # pre THEN m
  ELSE IF guard THEN Deny(m)
  ELSE Machine(post, m.mode, NextSeq(m), FALSE)

\* A mode is entered from any other mode.
ModeTransition(m, request, post, guard) ==
  IF ~request \/ m.mode = post THEN m
  ELSE IF guard THEN Deny(m)
  ELSE Machine(m.arming, post, NextSeq(m), FALSE)

\* fsm_compute_input.
Safe(c)         == SenseSafety /\ c.safety # "unsafe"
FuelLow(c)      == SensePower /\ c.battery \in {"low", "critical"}
FuelCritical(c) == SensePower /\ c.battery = "critical"
Request(c, b)   == b \in c.joy

\* Mutant of ArmGuard: without the calibration.
ArmGuardInCalibration(m, c) ==
  m.mode = "unknown" \/ Safe(c) \/ FuelCritical(c) \/ FuelLow(c)

ArmGuard(m, c) ==
  m.mode \in {"unknown", "calibration"} \/ Safe(c) \/ FuelCritical(c) \/ FuelLow(c)

\* Mutants of ArmingPass: the safety does not disarm; disarmed before armed.
ArmingPassUnsafe(m, c) ==
  LET a1 == ArmingTransition(m, Request(c, "arm"), "disarmed", "armed", ArmGuard(m, c))
      a2 == ArmingTransition(a1, Request(c, "disarm"), "armed", "disarmed", FALSE)
  IN  ArmingTransition(a2, FuelCritical(c), "armed", "disarmed", FALSE)
ArmingPassSwapped(m, c) ==
  LET a1 == ArmingTransition(m, Request(c, "disarm"), "armed", "disarmed", FALSE)
      a2 == ArmingTransition(a1, FuelCritical(c), "armed", "disarmed", FALSE)
      a3 == ArmingTransition(a2, Safe(c), "armed", "disarmed", FALSE)
  IN  ArmingTransition(a3, Request(c, "arm"), "disarmed", "armed", ArmGuard(m, c))

\* fsm_update, the transitions of the arming: what it accepts it may take back
\* in the same pass.
ArmingPass(m, c) ==
  LET a1 == ArmingTransition(m, Request(c, "arm"), "disarmed", "armed", ArmGuard(m, c))
      a2 == ArmingTransition(a1, Request(c, "disarm"), "armed", "disarmed", FALSE)
      a3 == ArmingTransition(a2, FuelCritical(c), "armed", "disarmed", FALSE)
  IN  ArmingTransition(a3, Safe(c), "armed", "disarmed", FALSE)

\* fsm_update, the transitions of the mode: the last button in this order wins.
ModePass(m, c) ==
  LET m1 == ModeTransition(m, Request(c, "manual"), "manual", FALSE)
      m2 == ModeTransition(m1, Request(c, "cmd_vel"), "cmd_vel", FALSE)
      m3 == ModeTransition(m2, Request(c, "auto"), "auto", FALSE)
  IN  ModeTransition(m3, Request(c, "calibration"), "calibration", m3.arming = "armed")

FsmUpdate(m, c) == ModePass(ArmingPass(m, c), c)

\* status_add_extra_info.
Fuel(c) ==
  IF FuelCritical(c) THEN "critical" ELSE IF FuelLow(c) THEN "low" ELSE "nominal"
SafetyStatus(c) == IF SenseSafety THEN c.safety ELSE "unsafe"

\* The status the loop publishes, given the thread's status s and copies c.
NewStatus(s, c) ==
  LET m == FsmUpdate(Machine(s.arming, s.mode, s.request_seq, s.request_rejected), c)
  IN  [arming |-> m.arming, mode |-> m.mode, joy |-> s.joy,
       fuel |-> Fuel(c), safety |-> SafetyStatus(c),
       request_seq |-> m.request_seq, request_rejected |-> m.request_rejected]

-----------------------------------------------------------------------------
(* The thread.                                                             *)

\* zros_pub_update of the status.
PublishStatus == Publish(topic, topic' = status')

\* After three seconds: armed and in AUTO mode, whatever the inputs say.
AutoArm ==
  /\ pc = "boot"
  /\ status' = [arming |-> "armed", mode |-> "auto", joy |-> status.joy,
                fuel |-> status.fuel, safety |-> status.safety,
                request_seq |-> status.request_seq,
                request_rejected |-> status.request_rejected]
  /\ PublishStatus
  /\ pc' = "top"
  /\ UNCHANGED <<inputVars, news, ctx, timeVars>>

\* Mutant of ReadNow: joy_last_ticks is set in every iteration.
ReadNowForgetful ==
  /\ pc = "top"
  /\ joyGap' = polled
  /\ polled' = 0
  /\ pc' = "poll"
  /\ UNCHANGED <<inputVars, news, ctx, lost, status, topic, heard, denied>>

\* now_ticks is read before the poll.
ReadNow ==
  /\ pc = "top"
  /\ joyGap' = Saturate(joyGap + polled, JoyTicks + 1)
  /\ polled' = 0
  /\ pc' = "poll"
  /\ UNCHANGED <<inputVars, news, ctx, lost, status, topic, heard, denied>>

\* k_poll returns: safety is not among its events.
Poll ==
  /\ pc = "poll"
  /\ news \cap {"joy", "battery"} # {} \/ polled = PollTicks
  /\ pc' = "read_battery"
  /\ UNCHANGED <<inputVars, news, ctx, lost, status, topic, timeVars>>

ReadBattery ==
  /\ pc = "read_battery"
  /\ Read("battery", [ctx EXCEPT !.battery = battery])
  /\ pc' = "read_safety"
  /\ UNCHANGED <<inputVars, status, topic, timeVars>>

\* Mutant of ReadSafety: skipped when the poll timed out.
ReadSafetyOnEvent ==
  /\ pc = "read_safety"
  /\ IF "safety" \in news /\ polled < PollTicks
     THEN Read("safety", [ctx EXCEPT !.safety = safety])
     ELSE UNCHANGED <<ctx, news, lost>>
  /\ pc' = "read_joy"
  /\ UNCHANGED <<inputVars, status, topic, timeVars>>

ReadSafety ==
  /\ pc = "read_safety"
  /\ Read("safety", [ctx EXCEPT !.safety = safety])
  /\ pc' = "read_joy"
  /\ UNCHANGED <<inputVars, status, topic, timeVars>>

\* The signal alone makes the joystick NOMINAL, also when the copy failed; it
\* is dated back to the start of the poll.
ReadJoy ==
  /\ pc = "read_joy"
  /\ Read("joy", [ctx EXCEPT !.joy = joy])
  /\ IF "joy" \in news
     THEN /\ joyGap' = 0
          /\ heard' = 0
          /\ status' = [status EXCEPT !.joy = "nominal"]
     ELSE /\ status' = [status EXCEPT !.joy = IF joyGap > JoyTicks THEN "loss" ELSE @]
          /\ UNCHANGED <<joyGap, heard>>
  /\ pc' = "update"
  /\ UNCHANGED <<inputVars, topic, polled, denied>>

\* fsm_compute_input, fsm_update, status_add_extra_info and the publication.
Update ==
  /\ pc = "update"
  /\ status' = NewStatus(status, ctx)
  /\ PublishStatus
  /\ pc' = "top"
  /\ UNCHANGED <<inputVars, news, ctx, timeVars>>

-----------------------------------------------------------------------------
(* What surrounds the thread.                                              *)

PublishJoy(b) ==
  /\ joy' = b
  /\ Signal("joy")
  /\ UNCHANGED <<pc, battery, safety, ctx, status, topic, timeVars>>

PublishBattery(v) ==
  /\ battery' = v
  /\ Signal("battery")
  /\ UNCHANGED <<pc, joy, safety, ctx, status, topic, timeVars>>

PublishSafety(s) ==
  /\ safety' = s
  /\ Signal("safety")
  /\ denied' = IF s = "unsafe" THEN 0 ELSE denied
  /\ UNCHANGED <<pc, joy, battery, ctx, status, topic, polled, joyGap, heard>>

\* Time passes while the thread waits for an event.
Tick ==
  /\ pc = "poll"
  /\ polled < PollTicks
  /\ news \cap {"joy", "battery"} = {}
  /\ polled' = polled + 1
  /\ heard' = Saturate(heard + 1, HeardMax)
  /\ denied' = IF safety = "unsafe" THEN 0 ELSE Saturate(denied + 1, PollTicks + 1)
  /\ UNCHANGED <<pc, inputVars, news, ctx, lost, status, topic, joyGap>>

Loop == ReadNow \/ Poll \/ ReadBattery \/ ReadSafety \/ ReadJoy \/ Update

Environment ==
  \/ \E b \in Joys : PublishJoy(b)
  \/ \E v \in Batteries : PublishBattery(v)
  \/ \E s \in {"safe", "unsafe"} : PublishSafety(s)

Next == AutoArm \/ Loop \/ Environment \/ Tick

\* The thread is scheduled, and the clock runs.
Spec == Init /\ [][Next]_vars /\ WF_vars(AutoArm \/ Loop) /\ WF_vars(Tick)

-----------------------------------------------------------------------------
(* Properties.                                                             *)

Copies == [joy : Joys \cup {{}}, battery : Voltages, safety : SafetyStates]
Statuses ==
  [arming : {"disarmed", "armed"}, mode : Modes, joy : {"unknown", "nominal", "loss"},
   fuel : {"unknown"} \cup Voltages, safety : SafetyStates,
   request_seq : 0 .. SeqModulus - 1, request_rejected : BOOLEAN]

TypeOK ==
  /\ pc \in {"boot", "top", "poll", "read_battery", "read_safety", "read_joy", "update"}
  /\ joy \in Joys \cup {{}} /\ battery \in Voltages /\ safety \in SafetyStates
  /\ news \subseteq {"joy", "battery", "safety"} /\ lost \in BOOLEAN
  /\ ctx \in Copies
  /\ status \in Statuses /\ topic \in Statuses
  /\ polled \in 0 .. PollTicks /\ joyGap \in 0 .. JoyTicks + 1
  /\ heard \in 0 .. HeardMax /\ denied \in 0 .. PollTicks + 1

\* The vehicle is never armed while it is calibrated or has no mode, whatever
\* buttons are pressed together: the guards of the two machines read a state
\* that the same pass is changing (fsm.c:178-183, 250-255).
ArmedInDriveMode ==
  \A s \in {status, topic} : s.arming = "armed" => s.mode \in {"manual", "auto", "cmd_vel"}

\* A published status that says ARMED also says that the safety is off and the
\* battery is not critical; only the status of the automatic arming does not
\* know, and says so (fsm.c:207-227 before 265-289).
ArmedIsPermitted ==
  topic.arming = "armed" /\ topic.fuel # "unknown" =>
    topic.fuel # "critical" /\ topic.safety = "unsafe"

\* After the boot the status goes from disarmed to armed only by the button,
\* in a mode that was set before, with the battery above its lower threshold
\* (fsm.c:168-183).
ArmsOnlyOnRequest ==
  [][pc # "boot" /\ status.arming = "disarmed" /\ status'.arming = "armed" =>
       /\ "arm" \in ctx.joy /\ "disarm" \notin ctx.joy
       /\ status.mode \notin {"unknown", "calibration"}
       /\ status'.fuel = "nominal" /\ status'.safety = "unsafe"]_vars

\* The safety switch disarms within one poll although it does not wake the
\* thread, when no signal or message is dropped (fsm.c:308-311, 332-334).
SafetyDisarmsInTime ==
  ~lost /\ SenseSafety /\ denied > PollTicks => topic.arming = "disarmed"

\* The joystick is declared lost at most two polls after joy_loss_ticks of
\* silence, whatever else wakes the thread (fsm.c:313-350).
JoyLossInTime ==
  heard = HeardMax => status.joy # "nominal"

\* A press of the disarm button that was signalled ends in a status that is
\* disarmed, whatever else is pressed with it, unless a later message of the
\* joystick overwrites the press before the thread reads it (fsm.c:186-195).
DisarmIsHonoured ==
  (pc # "boot" /\ "disarm" \in joy /\ "joy" \in news)
    ~> (topic.arming = "disarmed" \/ "disarm" \notin joy \/ lost)

\* The joystick is declared lost only when nothing was heard of it for the time
\* joy_loss_ticks, "check for joy loss" (fsm.c:314, 345-350).
JoyLossIsReal ==
  [][status.joy # "loss" /\ status'.joy = "loss" => heard >= JoyTicks]_vars
=============================================================================
