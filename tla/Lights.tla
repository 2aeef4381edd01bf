-------------------------------- MODULE Lights --------------------------------
(***************************************************************************)
(* The lights: a work item of the application (app/b3rb/src/lighting.c)    *)
(* turns what the topics show into colours thirty times a second and       *)
(* publishes them, and a thread of actuate/led_array writes them to the    *)
(* strip.  Every update and publication may miss its lock.  The colour of  *)
(* a light depends on topics of its own, so a behaviour follows one light, *)
(* whichever, and its topics.  The pulse of the brightness is left out.    *)
(***************************************************************************)

CONSTANTS Modes, Armings, Safeties, Batteries, Joys  \* what the topics may show

VARIABLES
  light,    \* the light this behaviour follows: mode_leds, arm_leds, safety_leds or the headlights
  shown,    \* the topics status, safety, battery_state and joy
  seen,     \* the work item's copies of them
  lightsOn, \* ctx->lights_on
  lit,      \* the work item waits in the low priority queue
  leds,     \* topic_led_array: the colour of the light
  ledsNew,  \* the signal of the strip's subscription
  strip     \* the colour the light has on the strip, as of the thread's copy of the topic

vars == <<light, shown, seen, lightsOn, lit, leds, ledsNew, strip>>

ModeColor(mode) ==
  CASE mode = "manual" -> "green" [] mode = "cmd_vel" -> "blue" [] mode = "auto" -> "red"
    [] mode = "calibration" -> "yellow" [] OTHER -> "grey"
ArmColor(arming, battery) ==
  CASE battery = "critical" -> "orange"
    [] battery # "critical" /\ arming = "disarmed" -> "green"
    [] battery # "critical" /\ arming = "armed" -> "red"
    [] OTHER -> "grey"
SafetyColor(safety) ==
  CASE safety = "safe" -> "green" [] safety = "unsafe" -> "red" [] OTHER -> "grey"

Color(s, on) ==
  CASE light = "mode"   -> ModeColor(s.mode)
    [] light = "arm"    -> ArmColor(s.arming, s.battery)
    [] light = "safety" -> SafetyColor(s.safety)
    [] light = "head"   -> IF on THEN "white" ELSE "off"

\* Topics begin with zeros: nothing is known, and a battery without voltage is critical.
Init ==
  /\ light \in {"mode", "arm", "safety", "head"}
  /\ shown = [mode |-> "unknown", arming |-> "unknown", safety |-> "unknown",
              battery |-> "critical", joy |-> {}]
  /\ seen = shown /\ lightsOn = FALSE /\ lit = FALSE
  /\ leds = "off" /\ strip = "off" /\ ledsNew = FALSE

\* lighting_timer_handler.
LightingTimer ==
  /\ lit' = TRUE
  /\ UNCHANGED <<light, shown, seen, lightsOn, leds, ledsNew, strip>>

\* The button switches the lights on, or else off; what is not pressed leaves them.
Headlights(joy) == IF "on" \in joy THEN TRUE ELSE IF "off" \in joy THEN FALSE ELSE lightsOn

Publish(color) ==
  \/ leds' = color /\ ledsNew' = TRUE
  \/ UNCHANGED <<leds, ledsNew>>

\* Mutant of LightingWork: the headlights are toggled.
LightingWorkToggles(missed) ==
  /\ lit /\ lit' = FALSE
  /\ seen' = [f \in DOMAIN shown |-> IF f \in missed THEN seen[f] ELSE shown[f]]
  /\ lightsOn' = IF "on" \in seen'.joy THEN ~lightsOn ELSE Headlights(seen'.joy)
  /\ Publish(Color(seen', lightsOn'))
  /\ UNCHANGED <<light, shown, strip>>

\* lighting_work_handler; missed are the fields whose update has missed the lock.
LightingWork(missed) ==
  /\ lit /\ lit' = FALSE
  /\ seen' = [f \in DOMAIN shown |-> IF f \in missed THEN seen[f] ELSE shown[f]]
  /\ lightsOn' = Headlights(seen'.joy)
  /\ Publish(Color(seen', lightsOn'))
  /\ UNCHANGED <<light, shown, strip>>

\* status carries both the mode and the arming.
Missed == {UNION groups :
  groups \in SUBSET {{"mode", "arming"}, {"safety"}, {"battery"}, {"joy"}}}

\* The strip's thread, woken by the topic or by its second's timeout: it writes the
\* strip in either case.
WriteStrip ==
  /\ ledsNew' = FALSE
  /\ strip' \in IF ledsNew THEN {leds, strip} ELSE {strip}
  /\ UNCHANGED <<light, shown, seen, lightsOn, lit, leds>>

\* The topics the light depends on change.
ShowMode(m)    == light = "mode" /\ shown' = [shown EXCEPT !.mode = m]
ShowArming(a)  == light = "arm" /\ shown' = [shown EXCEPT !.arming = a]
ShowBattery(b) == light = "arm" /\ shown' = [shown EXCEPT !.battery = b]
ShowSafety(s)  == light = "safety" /\ shown' = [shown EXCEPT !.safety = s]
ShowJoy(j)     == light = "head" /\ shown' = [shown EXCEPT !.joy = j]

Show ==
  /\ \/ \E m \in Modes : ShowMode(m)
     \/ \E a \in Armings : ShowArming(a)
     \/ \E b \in Batteries : ShowBattery(b)
     \/ \E s \in Safeties : ShowSafety(s)
     \/ \E j \in Joys : ShowJoy(j)
  /\ UNCHANGED <<light, seen, lightsOn, lit, leds, ledsNew, strip>>

Next ==
  \/ LightingTimer \/ (\E m \in Missed : LightingWork(m)) \/ WriteStrip
  \/ Show

\* The work that finds every lock and publishes, and the write that reads the topic.
Lit     == LightingWork({}) /\ leds' = Color(seen', lightsOn') /\ ledsNew'
Written == ledsNew /\ WriteStrip /\ strip' = leds

\* The timer and the threads go on, and no lock is missed for ever.
Fairness == WF_vars(LightingTimer) /\ SF_vars(Lit) /\ SF_vars(Written)

Spec == Init /\ [][Next]_vars /\ Fairness

-----------------------------------------------------------------------------
(* Properties.                                                             *)

ColorNames == {"green", "blue", "red", "yellow", "grey", "orange", "white", "off"}

TypeOK ==
  /\ light \in {"mode", "arm", "safety", "head"}
  /\ \A s \in {shown, seen} :
       /\ s.mode \in Modes \cup {"unknown"} /\ s.arming \in Armings \cup {"unknown"}
       /\ s.safety \in Safeties \cup {"unknown"} /\ s.battery \in Batteries \cup {"critical"}
  /\ {lightsOn, lit, ledsNew} \subseteq BOOLEAN
  /\ {leds, strip} \subseteq ColorNames

\* What the topics ask of the light; while no button is held nothing is asked of the
\* headlights.
Asked ==
  IF light # "head" THEN Color(shown, FALSE)
  ELSE IF "on" \in shown.joy THEN "white" ELSE IF "off" \in shown.joy THEN "off" ELSE "any"

\* When the topics go on asking for the same colour, the light comes to have it and keeps
\* it: the lights of mode, arming and safety, and the headlights as long as a button is
\* held, whatever locks were missed before (lighting.c:81-206, led_array/main.c:71-94).
StripFollowsStatus ==
  <>[][Asked' = Asked]_vars => <>[](Asked # "any" => strip = Asked)
=============================================================================
