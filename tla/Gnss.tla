--------------------------------- MODULE Gnss ---------------------------------
(***************************************************************************)
(* The receiver of satellite positions (sense/ubx_gnss/main.c): a thread   *)
(* opens the device and watches it, and the library's task calls back with *)
(* a position, a timeout or an error.  The two share two flags without a   *)
(* lock.                                                                   *)
(***************************************************************************)

VARIABLES
  gAt,      \* where the thread stands
  going,    \* ctx->running
  isAlive,  \* ctx->isAlive
  device    \* the module: closed, started, or dead (it calls back no more)

vars == <<gAt, going, isAlive, device>>

Init ==
  /\ gAt = "open" /\ device = "closed"
  /\ going = FALSE /\ isAlive = FALSE

Go(from, to) == gAt = from /\ gAt' = to

\* The device is opened and brought up, and calls back from then on; or one of the two
\* fails and is tried again, after a second if it was the first.
Open ==
  /\ Go("open", "started") /\ device' = "started"
  /\ UNCHANGED <<going, isAlive>>

Started ==
  /\ Go("started", "check") /\ going' = TRUE
  /\ UNCHANGED <<isAlive, device>>

\* The head of the loop, and a second's sleep.
Check ==
  /\ Go("check", IF going THEN "watch" ELSE "stop")
  /\ UNCHANGED <<going, isAlive, device>>

\* Mutant of Watch: the flag is not reset.
WatchOnce ==
  /\ Go("watch", IF isAlive THEN "check" ELSE "stop")
  /\ UNCHANGED <<going, isAlive, device>>

\* Was there a callback since the last look?  If so the flag is reset.
Watch ==
  /\ Go("watch", IF isAlive THEN "check" ELSE "stop")
  /\ isAlive' = FALSE
  /\ UNCHANGED <<going, device>>

Stop ==
  /\ Go("stop", "open") /\ device' = "closed"
  /\ UNCHANGED <<going, isAlive>>

\* publish_gnss_data: a position, or a timeout; ...
Callback ==
  /\ device = "started" /\ isAlive' = TRUE
  /\ UNCHANGED <<gAt, going, device>>

\* ... or an error, which ends the watch, unless the thread has still to say that it
\* goes on.
Error ==
  /\ device = "started" /\ isAlive' = TRUE /\ going' = FALSE
  /\ UNCHANGED <<gAt, device>>

\* The module falls silent, until it is opened again.
Die ==
  /\ device = "started" /\ device' = "dead"
  /\ UNCHANGED <<gAt, going, isAlive>>

Thread == Open \/ Started \/ Check \/ Watch \/ Stop

Next == Thread \/ Callback \/ Error \/ Die

\* The thread goes on, and in the end the device can be opened.
Fairness == WF_vars(Thread)

Spec == Init /\ [][Next]_vars /\ Fairness

-----------------------------------------------------------------------------
(* Properties.                                                             *)

TypeOK ==
  /\ gAt \in {"open", "started", "check", "watch", "stop"}
  /\ going \in BOOLEAN /\ isAlive \in BOOLEAN
  /\ device \in {"closed", "started", "dead"}

\* A module that falls silent is closed and opened again, also when it had called back
\* just before, and when an error was lost because it came before the thread set
\* running (ubx_gnss/main.c:65-90, 124-148).
SilenceReopens == device = "dead" ~> device = "closed"
=============================================================================
