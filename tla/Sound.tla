-------------------------------- MODULE Sound --------------------------------
(***************************************************************************)
(* The buzzer (actuate/sound): a thread reads the status and plays a tone  *)
(* for what has changed since it last looked, one after the other.  It     *)
(* reads nothing while it plays, and a status that comes and goes in that  *)
(* time is never told.  The alarms of fuel, joystick and rejected requests *)
(* only take time.                                                         *)
(***************************************************************************)

CONSTANTS Modes, Safeties  \* the modes, and the states of the switch

VARIABLES
  buzz,    \* where the thread stands
  last,    \* status_last_mode, status_last_arming, status_last_safety
  heard,   \* ctx->status
  status,  \* topic_status
  started, \* ctx->started
  tone     \* the last tone that told the arming

vars == <<buzz, last, heard, status, started, tone>>

Unknown == [mode |-> "unknown", arming |-> "unknown", safety |-> "unknown"]
Status  == [mode : Modes, arming : {"armed", "disarmed"}, safety : Safeties]

Init ==
  /\ buzz = "poll" /\ started = FALSE /\ tone = "none"
  /\ last = Unknown /\ heard = Unknown /\ status = Unknown

Then(from, to) == buzz = from /\ buzz' = to

\* The status is read if it was published within the second, and the copy stays if its
\* update misses the lock.
ReadStatus(s) ==
  /\ Then("poll", "mode")
  /\ heard' = s
  /\ UNCHANGED <<last, status, started, tone>>

\* A tone for a new mode.
TellMode ==
  /\ Then("mode", "arming")
  /\ last' = [last EXCEPT !.mode = heard.mode]
  /\ UNCHANGED <<heard, status, started, tone>>

\* Mutant of TellArming: the disarmed tone does not remember that it was played.
TellArmingForgets ==
  /\ Then("arming", "safety")
  /\ last' = [last EXCEPT !.arming = IF @ = "armed" THEN @ ELSE heard.arming]
  /\ tone' = IF last.arming # "unknown" /\ heard.arming # last.arming THEN heard.arming ELSE tone
  /\ UNCHANGED <<heard, status, started>>

\* A tone for armed and one for disarmed; what is known first is not told.
TellArming ==
  /\ Then("arming", "safety")
  /\ last' = [last EXCEPT !.arming = heard.arming]
  /\ tone' = IF last.arming # "unknown" /\ heard.arming # last.arming THEN heard.arming ELSE tone
  /\ UNCHANGED <<heard, status, started>>

\* A tone for a change of the switch; the first one for safe is the melody of the start.
TellSafety ==
  /\ Then("safety", "alarms")
  /\ last' = [last EXCEPT !.safety = heard.safety]
  /\ started' = (started \/ (heard.safety # last.safety /\ heard.safety = "safe"))
  /\ UNCHANGED <<heard, status, tone>>

\* The alarms of fuel low, fuel critical and joystick loss, and the rejected request.
Alarms ==
  /\ Then("alarms", "poll")
  /\ UNCHANGED <<last, heard, status, started, tone>>

\* The supervisor publishes.
PublishStatus(s) ==
  /\ status' = s
  /\ UNCHANGED <<buzz, last, heard, started, tone>>

Next ==
  \/ (\E s \in {status, heard} : ReadStatus(s))
  \/ TellMode \/ TellArming \/ TellSafety \/ Alarms
  \/ \E s \in Status : PublishStatus(s)

\* Tones end, the supervisor publishes again and again, and no lock is missed for ever.
Fairness ==
  /\ WF_vars(TellMode \/ TellArming \/ TellSafety \/ Alarms)
  /\ SF_vars(ReadStatus(status))

Spec == Init /\ [][Next]_vars /\ Fairness

-----------------------------------------------------------------------------
(* Properties.                                                             *)

TypeOK ==
  /\ buzz \in {"poll", "mode", "arming", "safety", "alarms"}
  /\ last.arming \in {"unknown", "armed", "disarmed"}
  /\ heard \in Status \cup {Unknown} /\ status \in Status \cup {Unknown}
  /\ started \in BOOLEAN /\ tone \in {"none", "armed", "disarmed"}

\* The buzzer does not leave the driver with a wrong tone: if the last one said that the
\* car is disarmed and it is armed, or the other way round, the right one follows unless
\* the status changes before, however long the other tones take (sound/main.c:93-174).
ArmingIsTold == \A a \in {"armed", "disarmed"} :
  status.arming = a /\ tone \notin {"none", a} ~> status.arming # a \/ tone = a
=============================================================================
