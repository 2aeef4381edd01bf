------------------------------- MODULE SilBridge -------------------------------
(***************************************************************************)
(* The simulation in the loop (dream/sil): a thread of the host receives   *)
(* the simulated sensors, stores each message in a structure of its own    *)
(* and puts the topic into a ring buffer; a thread of Zephyr publishes     *)
(* what is in the structure of each topic it takes out.  Nothing is locked.*)
(***************************************************************************)
EXTENDS Naturals, Sequences

CONSTANTS
  Topics,   \* the simulated sensors
  Values,   \* their messages, 0 among them
  RingSize  \* topics the ring buffer holds, 1024

VARIABLES
  host,      \* where the host's thread stands
  stored,    \* the message structures of g_ctx
  ring,      \* g_msg_updates
  clock,     \* clock_initialized
  offset,    \* clock_offset: whether it is set
  zephyr,    \* where the Zephyr thread stands
  published, \* the message published last on each topic
  told,      \* the offset was published: unset, or set
  shutdown,  \* the process was told to end
  dropped    \* history: the ring buffer was full once, or a lock was missed

hostVars == <<host, stored, clock, offset>>
zVars    == <<zephyr, published, told>>
vars     == <<hostVars, zVars, ring, shutdown, dropped>>

Init ==
  /\ host = "accept" /\ zephyr = "wait"
  /\ stored = [t \in Topics |-> 0] /\ published = [t \in Topics |-> 0]
  /\ ring = <<>> /\ dropped = FALSE
  /\ clock = FALSE /\ offset = "unset" /\ told = "no"
  /\ shutdown = FALSE

-----------------------------------------------------------------------------
(* The host's thread.                                                      *)

HostTo(from, to) == host = from /\ host' = to

\* The socket does not block: without a client the thread sleeps and tries again.  It
\* never goes back to accept.
Accept ==
  /\ ~shutdown /\ HostTo("accept", "receive")
  /\ UNCHANGED <<stored, clock, offset, zVars, ring, shutdown, dropped>>

\* The listener of a sensor: the message is stored, ...
Store(t, v) ==
  /\ ~shutdown /\ HostTo("receive", t)
  /\ stored' = [stored EXCEPT ![t] = v]
  /\ UNCHANGED <<clock, offset, zVars, ring, shutdown, dropped>>

\* ... and ring_buf_put called; whether there was room is not asked.
Put(t) ==
  /\ HostTo(t, "receive")
  /\ IF Len(ring) < RingSize
     THEN ring' = Append(ring, t) /\ UNCHANGED dropped
     ELSE dropped' = TRUE /\ UNCHANGED ring
  /\ UNCHANGED <<stored, clock, offset, zVars, shutdown>>

\* The listener of the clock says that the offset is there, and then sets it.
Clock ==
  /\ ~shutdown /\ HostTo("receive", IF clock THEN "receive" ELSE "clock")
  /\ clock' = TRUE
  /\ UNCHANGED <<stored, offset, zVars, ring, shutdown, dropped>>
ClockOffset ==
  /\ HostTo("clock", "receive")
  /\ offset' = "set"
  /\ UNCHANGED <<stored, clock, zVars, ring, shutdown, dropped>>

-----------------------------------------------------------------------------
(* The Zephyr thread.                                                      *)

ZephyrTo(from, to) == zephyr = from /\ zephyr' = to

\* Once a second it asks for the clock, and publishes its offset; or it is told to end.
WaitClock ==
  /\ \/ clock /\ ZephyrTo("wait", "drain") /\ told' = offset
     \/ shutdown /\ ZephyrTo("wait", "done") /\ UNCHANGED told
  /\ UNCHANGED <<hostVars, published, ring, shutdown, dropped>>

\* Mutant of Take: the buffer is emptied with the first topic.
TakeAll ==
  /\ ring # <<>> /\ ZephyrTo("drain", Head(ring))
  /\ ring' = <<>>
  /\ UNCHANGED <<hostVars, published, told, shutdown, dropped>>

\* ring_buf_get takes a topic, ...
Take ==
  /\ ring # <<>> /\ ZephyrTo("drain", Head(ring))
  /\ ring' = Tail(ring)
  /\ UNCHANGED <<hostVars, published, told, shutdown, dropped>>

\* ... and what is stored for it is published, unless the topic's lock is missed.
PublishTopic(t) ==
  /\ ZephyrTo(t, "drain")
  /\ \/ published' = [published EXCEPT ![t] = stored[t]] /\ UNCHANGED dropped
     \/ dropped' = TRUE /\ UNCHANGED published
  /\ UNCHANGED <<hostVars, told, ring, shutdown>>

\* The buffer is empty: the actuators are sent to the simulation, and it sleeps.
SendActuators ==
  /\ ring = <<>> /\ ZephyrTo("drain", IF shutdown THEN "done" ELSE "drain")
  /\ UNCHANGED <<hostVars, published, told, ring, shutdown, dropped>>

-----------------------------------------------------------------------------

\* term, the handler of SIGINT.
Term ==
  /\ shutdown' = TRUE
  /\ UNCHANGED <<hostVars, zVars, ring, dropped>>

\* The host's thread; a socket that it cannot set up ends the process.
Host   == Accept \/ (\E t \in Topics : (\E v \in Values : Store(t, v)) \/ Put(t)) \/ Clock \/ ClockOffset
Zephyr == WaitClock \/ Take \/ (\E t \in Topics : PublishTopic(t)) \/ SendActuators

Next == Host \/ Zephyr \/ Term

\* A listener that has begun ends, and the Zephyr thread goes on.
Fairness ==
  /\ WF_vars((\E t \in Topics : Put(t)) \/ ClockOffset)
  /\ WF_vars(WaitClock \/ Take \/ \E t \in Topics : PublishTopic(t))

Spec == Init /\ [][Next]_vars /\ Fairness

-----------------------------------------------------------------------------
(* Properties.                                                             *)

TypeOK ==
  /\ host \in {"accept", "receive", "clock"} \cup Topics
  /\ zephyr \in {"wait", "drain", "done"} \cup Topics
  /\ stored \in [Topics -> Values] /\ published \in [Topics -> Values]
  /\ ring \in Seq(Topics) /\ Len(ring) <= RingSize
  /\ clock \in BOOLEAN /\ offset \in {"unset", "set"} /\ told \in {"no", "unset", "set"}
  /\ shutdown \in BOOLEAN /\ dropped \in BOOLEAN

\* What the simulation sent last is published once the clock is there, also when the
\* structure is overwritten between the put and the publication, unless the buffer was
\* full, a lock was missed or the program ends (native_main.c:87-170, zephyr_main.c:66-84).
LatestIsPublished ==
  \A t \in Topics : clock /\ published[t] # stored[t] ~>
    published[t] = stored[t] \/ dropped \/ shutdown
=============================================================================
