------------------------------ MODULE EthService ------------------------------
(***************************************************************************)
(* The ethernet receiver (synapse/eth_rx) and transmitter (synapse/eth_tx) *)
(* as services that shell commands start and stop.  Each adds its node to  *)
(* the broker whenever it starts (Broker).                                 *)
(*                                                                         *)
(* A service has one thread structure and one stack: creating its thread   *)
(* again before it has ended is undefined, and the service is then no      *)
(* longer followed ("corrupt").  What is received is published elsewhere.  *)
(***************************************************************************)
EXTENDS Naturals

CONSTANT MaxSockets  \* bound: a service opens no socket beyond these

Services == {"rx", "tx"}

VARIABLES
  thread,   \* where the thread of each service stands
  running,  \* ctx->running
  socket,   \* open sockets of each service
  inbox,    \* what waits at the receiver's socket
  updates,  \* an update waits for the transmitter
  asked     \* history: a stop was accepted and must take effect

svcVars  == <<thread, running, socket, asked>>
dataVars == <<inbox, updates>>
vars     == <<svcVars, dataVars>>

Init ==
  /\ thread = [s \in Services |-> "created"]
  /\ running = [s \in Services |-> FALSE]
  /\ socket = [s \in Services |-> 0]
  /\ inbox = "none" /\ updates = FALSE
  /\ asked = [s \in Services |-> FALSE]

-----------------------------------------------------------------------------
(* The threads.                                                            *)

To(s, from, to) == thread[s] = from /\ thread' = [thread EXCEPT ![s] = to]
Open(s) == socket[s] < MaxSockets /\ socket' = [socket EXCEPT ![s] = @ + 1]
SetRunning(s, b) == running' = [running EXCEPT ![s] = b]

\* Mutant of TxRun: the flag is set first, as the receiver does.
TxRunFlagFirst ==
  /\ To("tx", "created", "init") /\ SetRunning("tx", TRUE)
  /\ UNCHANGED <<socket, asked, dataVars>>

\* run of the transmitter, up to its init, ...
TxRun ==
  /\ To("tx", "created", "init")
  /\ UNCHANGED <<running, socket, asked, dataVars>>

\* ... which sets the flag last.  A subscription or a socket that fails ends the thread
\* and leaves the subscriptions.
TxInit ==
  /\ \/ To("tx", "init", "loop") /\ SetRunning("tx", TRUE) /\ Open("tx")
     \/ To("tx", "init", "none") /\ UNCHANGED <<running, socket>>
  /\ UNCHANGED <<asked, dataVars>>

\* run of the receiver sets the flag, ...
RxRun ==
  /\ To("rx", "created", "init") /\ SetRunning("rx", TRUE)
  /\ UNCHANGED <<socket, asked, dataVars>>

\* ... and its init sets it again.  What fails ends the thread with the flag set, and
\* with the socket open if it could not be bound.
RxInit ==
  /\ \/ To("rx", "init", "loop") /\ SetRunning("rx", TRUE) /\ Open("rx")
     \/ To("rx", "init", "none") /\ (Open("rx") \/ UNCHANGED socket) /\ UNCHANGED running
  /\ UNCHANGED <<asked, dataVars>>

\* udp_rx_receive: a frame is published by its listener, junk is dropped; it waits at
\* most a second for either.
Receive == inbox' = "none"

\* While the flag is set, the loop receives ...
RxLoop ==
  /\ To("rx", "loop", IF running["rx"] THEN "loop" ELSE "closing")
  /\ Receive
  /\ UNCHANGED <<running, socket, asked, updates>>

\* ... or sends what is new, after at most a second.
TxLoop ==
  /\ To("tx", "loop", IF running["tx"] THEN "loop" ELSE "closing")
  /\ updates' = FALSE
  /\ UNCHANGED <<running, socket, asked, inbox>>

\* fini: the socket is closed, the subscriptions are removed; the node stays.
Fini(s) ==
  /\ To(s, "closing", "none")
  /\ socket' = [socket EXCEPT ![s] = @ - 1]
  /\ asked' = [asked EXCEPT ![s] = FALSE]
  /\ UNCHANGED <<running, dataVars>>

-----------------------------------------------------------------------------
(* The shell's commands.                                                   *)

\* cmd_start and start.
Start(s) ==
  /\ ~running[s]
  /\ thread' = [thread EXCEPT ![s] = IF @ = "none" THEN "created" ELSE "corrupt"]
  /\ asked' = [asked EXCEPT ![s] = FALSE]
  /\ UNCHANGED <<running, socket, dataVars>>

\* cmd_stop.  The receiver's init undoes a stop that comes before its end.
Stop(s) ==
  /\ running[s] /\ SetRunning(s, FALSE)
  /\ asked' = [asked EXCEPT ![s] = thread[s] = "loop" \/ s = "tx"]
  /\ UNCHANGED <<thread, socket, dataVars>>

\* A datagram comes; a topic the transmitter has subscribed to is published.
Arrive(d) == inbox' = d /\ UNCHANGED <<updates, svcVars>>
Update    == updates' = TRUE /\ UNCHANGED <<inbox, svcVars>>

\* The threads, each from its constructor over its loop to its destructor, and the
\* commands for it.
RxThread == RxRun \/ RxInit \/ RxLoop \/ Fini("rx")
TxThread == TxRun \/ TxInit \/ TxLoop \/ Fini("tx")
RxShell  == Start("rx") \/ Stop("rx")
TxShell  == Start("tx") \/ Stop("tx")

Next ==
  \/ RxThread \/ TxThread \/ RxShell \/ TxShell
  \/ Arrive("frame") \/ Arrive("junk") \/ Update

\* The threads go on.
Fairness == WF_vars(RxThread) /\ WF_vars(TxThread)

Spec == Init /\ [][Next]_vars /\ Fairness

-----------------------------------------------------------------------------
(* Properties.                                                             *)

TypeOK ==
  /\ thread \in [Services -> {"none", "created", "init", "loop", "closing", "corrupt"}]
  /\ running \in [Services -> BOOLEAN] /\ asked \in [Services -> BOOLEAN]
  /\ socket \in [Services -> 0 .. MaxSockets]
  /\ inbox \in {"none", "frame", "junk"} /\ updates \in BOOLEAN

\* A stop the shell accepts ends the thread unless a start comes first, whatever comes
\* to the socket: the transmitter's also during its init, the receiver's once it is in
\* its loop (eth_rx/main.c:190-251, eth_tx/main.c:143-261).
StopEnds == \A s \in Services : asked[s] ~> ~asked[s]
=============================================================================
