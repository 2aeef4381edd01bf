------------------------------- MODULE TcpBridge -------------------------------
(***************************************************************************)
(* The TCP bridge (synapse/ethernet/synapse_ethernet.c): one thread that   *)
(* accepts a client, sends it what is new and the uptime, and then waits   *)
(* for its data.  It learns that the client has gone from its sends only.  *)
(***************************************************************************)
EXTENDS Naturals

CONSTANT MaxErrors  \* errors that are tolerated, 100

VARIABLES
  at,         \* where the thread stands
  reconnect,  \* ctx->reconnect
  errorCount, \* ctx->error_count, up to MaxErrors + 1: more tell no difference
  unsent,     \* topics with an update that is not sent yet
  peer,       \* the client: none, connected, closed (sends may still succeed), or reset
  arrived     \* data of the client waits

vars == <<at, reconnect, errorCount, unsent, peer, arrived>>

\* What is sent, in this order.
Topics == {"nav_sat_fix", "status", "odometry"}
After  == [nav_sat_fix |-> "status", status |-> "odometry", odometry |-> "uptime"]

Init ==
  /\ at = "accept"
  /\ reconnect = FALSE /\ errorCount = 0
  /\ unsent = {}
  /\ peer = "none" /\ arrived = FALSE

Move(from, to) == at = from /\ at' = to

\* zsock_accept; when it fails the thread sleeps for a second and tries again.
Accept ==
  /\ peer # "none" /\ Move("accept", "poll")
  /\ reconnect' = FALSE
  /\ UNCHANGED <<errorCount, unsent, peer, arrived>>

\* The head of the loop, and k_poll for at most a second.  The old connection is never
\* closed, only forgotten.
Poll ==
  /\ IF reconnect
     THEN Move("poll", "accept") /\ peer' = "none" /\ arrived' = FALSE
     ELSE Move("poll", "nav_sat_fix") /\ UNCHANGED <<peer, arrived>>
  /\ UNCHANGED <<reconnect, errorCount, unsent>>

\* write_ethernet: zsock_send succeeds or fails, and the errors in a row are counted.
Write ==
  \/ reconnect /\ UNCHANGED <<errorCount, reconnect>>
  \/ ~reconnect /\ peer # "reset" /\ errorCount' = 0 /\ UNCHANGED reconnect
  \/ /\ ~reconnect /\ peer # "connected"
     /\ errorCount' = IF errorCount > MaxErrors THEN errorCount ELSE errorCount + 1
     /\ reconnect' = (errorCount > MaxErrors)

\* A topic is sent if it has an update.
SendTopic(t) ==
  /\ Move(t, After[t])
  /\ IF t \in unsent THEN Write ELSE UNCHANGED <<errorCount, reconnect>>
  /\ unsent' = unsent \ {t}
  /\ UNCHANGED <<peer, arrived>>

\* Mutant of SendUptime: nothing is sent.
SendUptimeNever ==
  /\ Move("uptime", "receive")
  /\ UNCHANGED <<errorCount, reconnect, unsent, peer, arrived>>

\* send_uptime, in every pass: also what notices that the client has gone.
SendUptime ==
  /\ Move("uptime", "receive")
  /\ Write
  /\ UNCHANGED <<unsent, peer, arrived>>

\* zsock_recv waits for data or for the end of the connection, which it returns as 0, or
\* as -1 after a reset.  TF_Accept takes the length as it is: of -1 it makes a length
\* beyond the buffer, and what follows is undefined ("overrun").
Receive ==
  /\ \/ peer = "connected" /\ arrived /\ Move("receive", "poll")
     \/ peer \in {"closed", "reset"} /\ Move("receive", "poll")
     \/ peer = "reset" /\ Move("receive", "overrun")
  /\ arrived' = FALSE
  /\ UNCHANGED <<reconnect, errorCount, unsent, peer>>

Connect ==
  /\ peer = "none" /\ peer' = "connected"
  /\ UNCHANGED <<at, reconnect, errorCount, unsent, arrived>>
Data ==
  /\ peer = "connected" /\ arrived' = TRUE
  /\ UNCHANGED <<at, reconnect, errorCount, unsent, peer>>
Close ==
  /\ peer = "connected" /\ peer' = "closed"
  /\ UNCHANGED <<at, reconnect, errorCount, unsent, arrived>>
Reset ==
  /\ peer = "closed" /\ peer' = "reset"
  /\ UNCHANGED <<at, reconnect, errorCount, unsent, arrived>>
Update(t) ==
  /\ unsent' = unsent \cup {t}
  /\ UNCHANGED <<at, reconnect, errorCount, peer, arrived>>

\* The thread; a socket that it cannot set up ends the program.
Thread == Accept \/ Poll \/ (\E t \in Topics : SendTopic(t)) \/ SendUptime \/ Receive
World  == Connect \/ Data \/ Close \/ Reset \/ \E t \in Topics : Update(t)

Next == Thread \/ World

\* The thread goes on; a client that has closed refuses what it is sent in the end.
Fairness == WF_vars(Thread) /\ WF_vars(Reset)

Spec == Init /\ [][Next]_vars /\ Fairness

-----------------------------------------------------------------------------
(* Properties.                                                             *)

TypeOK ==
  /\ at \in {"accept", "poll", "uptime", "receive", "overrun"} \cup Topics
  /\ reconnect \in BOOLEAN /\ errorCount \in 0 .. MaxErrors + 1
  /\ unsent \subseteq Topics /\ arrived \in BOOLEAN
  /\ peer \in {"none", "connected", "closed", "reset"}

\* A client that has closed the connection is noticed, and the thread accepts another
\* one, although recv says nothing of it: the uptime is sent in every pass, and the
\* sends fail in the end (synapse_ethernet.c:107-133, 298-363).
ClosedIsNoticed == peer = "closed" ~> at \in {"accept", "overrun"}
=============================================================================
