----------------------------- MODULE ServicesProofs -----------------------------
(***************************************************************************)
(* Proofs about Services: for any values of its constants.                 *)
(***************************************************************************)
EXTENDS Services, TLAPS

-----------------------------------------------------------------------------
(* The broker's list of nodes.                                             *)

\* What a walk comes to is closed, and is in every closed set.
LEMMA WalkClosed ==
  ASSUME NEW f \in [Nodes!Nodes -> Nodes!Nodes \cup {"null"}]
  PROVE  /\ Nodes!Walk(f) \subseteq Nodes!Nodes \cup {"null"}
         /\ "boot" \in Nodes!Walk(f)
         /\ \A n \in Nodes!Walk(f) \ {"null"} : f[n] \in Nodes!Walk(f)
<1>1. "boot" \in Nodes!Nodes
  BY DEF Nodes!Nodes
<1>2. ASSUME NEW n \in Nodes!Walk(f) \ {"null"} PROVE f[n] \in Nodes!Walk(f)
  <2>1. n \in Nodes!Nodes
    BY <1>2 DEF Nodes!Walk, Nodes!Null
  <2>2. f[n] \in Nodes!Nodes \cup {"null"}
    BY <2>1
  <2>. QED BY <1>2, <2>2 DEF Nodes!Walk, Nodes!Null
<1>. QED BY <1>1, <1>2 DEF Nodes!Walk, Nodes!Null

LEMMA WalkLeast ==
  ASSUME NEW f, NEW S \in SUBSET (Nodes!Nodes \cup {"null"}),
         "boot" \in S, \A n \in S \ {"null"} : f[n] \in S
  PROVE  Nodes!Walk(f) \subseteq S
  BY DEF Nodes!Walk, Nodes!Null

\* The node of a command of the shell that runs is reached once at most, and no other is
\* reached; pointers to it that were left in nodes cut off from the list do no harm,
\* since such a node is reset before it comes back.
ShellNodeInv ==
  /\ "shell" \in Nodes!Reached => shell \in {"hz", "echo"} /\ next["shell"] # "shell"
  /\ \A m, n \in Nodes!Reached \ {"null"} :
       next[m] = "shell" /\ next[n] = "shell" => m = n

NodesInv ==
  /\ Nodes!TypeOK
  /\ shell = "list" => cursor # "null"
  /\ ~kept => ShellNodeInv

LEMMA NodeInitFacts ==
  ASSUME Nodes!TypeOK, NEW n \in Nodes!Nodes, Nodes!NodeInit(n)
  PROVE  /\ next' \in [Nodes!Nodes -> Nodes!Nodes \cup {"null"}] /\ tail' \in Nodes!Nodes
         /\ next'[n] = "null" \/ (next'[n] = n /\ tail = n)
         /\ \A m \in Nodes!Nodes : m # n => next'[m] = next[m] \/ (m = tail /\ next'[m] = n)
         /\ Nodes!Reached' \subseteq Nodes!Reached \cup {n, "null"}
<1>. USE DEF Nodes!TypeOK, Nodes!Null
<1>1. /\ next' \in [Nodes!Nodes -> Nodes!Nodes \cup {"null"}] /\ tail' \in Nodes!Nodes
      /\ next'[n] = "null" \/ (next'[n] = n /\ tail = n)
      /\ \A m \in Nodes!Nodes : m # n => next'[m] = next[m] \/ (m = tail /\ next'[m] = n)
  BY DEF Nodes!NodeInit
<1> DEFINE S == Nodes!Walk(next) \cup {n, "null"}
<1>2. S \in SUBSET (Nodes!Nodes \cup {"null"}) /\ "boot" \in S
  BY WalkClosed
<1>3. ASSUME NEW m \in S \ {"null"} PROVE next'[m] \in S
  <2>1. m \in Nodes!Nodes
    BY <1>2, <1>3
  <2>2. m # n => next[m] \in Nodes!Walk(next)
    BY <1>3, WalkClosed
  <2>. QED BY <1>1, <2>1, <2>2
<1>. HIDE DEF S
<1>4. Nodes!Walk(next') \subseteq S
  BY <1>2, <1>3, WalkLeast
<1>. QED BY <1>1, <1>4 DEF Nodes!Reached, S

LEMMA ReachedFacts ==
  ASSUME Nodes!TypeOK
  PROVE  /\ Nodes!Reached \subseteq Nodes!Nodes \cup {"null"} /\ "boot" \in Nodes!Reached
         /\ \A n \in Nodes!Reached \ {"null"} : next[n] \in Nodes!Reached
  BY WalkClosed DEF Nodes!TypeOK, Nodes!Null, Nodes!Reached

\* The shell's node is added while it is not reached.
LEMMA SampleKeeps ==
  ASSUME NodesInv, NEW c \in {"hz", "echo"}, Nodes!Sample(c) PROVE NodesInv'
<1>. USE DEF NodesInv
<1>1. /\ shell = "idle" /\ shell' = c /\ UNCHANGED <<cursor, kept>> /\ Nodes!NodeInit("shell")
  BY DEF Nodes!Sample
<1>2. "shell" \in Nodes!Nodes
  BY DEF Nodes!Nodes
<1>3. Nodes!TypeOK'
  BY <1>1, <1>2, NodeInitFacts DEF Nodes!TypeOK, Nodes!Null
<1>4. ASSUME ~kept PROVE ShellNodeInv'
  <2>1. "shell" \notin Nodes!Reached
    BY <1>1, <1>4 DEF ShellNodeInv
  <2>2. CASE tail = "shell"
    <3> DEFINE S == Nodes!Walk(next)
    <3>1. S \in SUBSET (Nodes!Nodes \cup {"null"}) /\ "boot" \in S /\ "shell" \notin S
      BY <2>1, ReachedFacts DEF Nodes!Reached
    <3>2. ASSUME NEW m \in S \ {"null"} PROVE next'[m] \in S
      <4>1. m \in Nodes!Nodes /\ m # "shell" /\ next[m] \in S
        BY <3>1, <3>2, ReachedFacts DEF Nodes!Reached
      <4>. QED BY <1>1, <1>2, <2>2, <4>1, NodeInitFacts
    <3>. HIDE DEF S
    <3>3. Nodes!Walk(next') \subseteq S
      BY <3>1, <3>2, WalkLeast
    <3>. QED BY <3>1, <3>2, <3>3 DEF ShellNodeInv, Nodes!Reached
  <2>3. CASE tail # "shell"
    <3>1. next'["shell"] = "null"
      BY <1>1, <1>2, <2>3, NodeInitFacts
    <3>2. ASSUME NEW m \in Nodes!Reached' \ {"null"}, next'[m] = "shell" PROVE m = tail
      <4>1. m \in Nodes!Reached /\ m # "shell" /\ m \in Nodes!Nodes
        BY <1>1, <1>2, <3>1, <3>2, NodeInitFacts, ReachedFacts
      <4>2. next[m] # "shell"
        BY <2>1, <3>2, <4>1, ReachedFacts
      <4>. QED BY <1>1, <1>2, <3>2, <4>1, <4>2, NodeInitFacts
    <3>. QED BY <1>1, <3>1, <3>2 DEF ShellNodeInv
  <2>. QED BY <2>2, <2>3
<1>. QED BY <1>1, <1>3, <1>4

\* A service that starts again cuts off what follows its node; only the node itself is new.
LEMMA ServiceInitKeeps ==
  ASSUME NodesInv, NEW s \in {"rx", "tx"}, Nodes!ServiceInit(s) PROVE NodesInv'
<1>. USE DEF NodesInv
<1>1. UNCHANGED <<shell, cursor, kept>> /\ Nodes!NodeInit(s)
  BY DEF Nodes!ServiceInit
<1>2. s \in Nodes!Nodes /\ "shell" \in Nodes!Nodes /\ s \notin {"shell", "null"}
  BY DEF Nodes!Nodes
<1>3. Nodes!TypeOK'
  BY <1>1, <1>2, NodeInitFacts DEF Nodes!TypeOK, Nodes!Null
<1>4. ASSUME ~kept PROVE ShellNodeInv'
  <2>1. "shell" \in Nodes!Reached' => "shell" \in Nodes!Reached /\ next'["shell"] # "shell"
    <3>1. "shell" \in Nodes!Reached' => "shell" \in Nodes!Reached
      BY <1>1, <1>2, NodeInitFacts
    <3>. QED BY <1>1, <1>2, <1>4, <3>1, NodeInitFacts DEF ShellNodeInv
  <2>2. ASSUME NEW m \in Nodes!Reached' \ {"null"}, next'[m] = "shell"
        PROVE  m \in Nodes!Reached \ {"null"} /\ next[m] = "shell"
    <3>1. m # s
      BY <1>1, <1>2, <2>2, NodeInitFacts
    <3>2. m \in Nodes!Reached /\ m \in Nodes!Nodes
      BY <1>1, <1>2, <2>2, <3>1, NodeInitFacts, ReachedFacts
    <3>. QED BY <1>1, <1>2, <2>2, <3>1, <3>2, NodeInitFacts
  <2>. QED BY <1>1, <1>4, <2>1, <2>2 DEF ShellNodeInv
<1>. QED BY <1>1, <1>3, <1>4

\* The node before the shell's is the only one that points to it: with it bent the shell's
\* node is in no walk.
LEMMA NodeFiniKeeps ==
  ASSUME NodesInv, Nodes!NodeFini("shell"), cursor' = cursor, shell' = "idle" PROVE NodesInv'
<1>. USE DEF NodesInv
<1>1. "shell" \in Nodes!Nodes
  BY DEF Nodes!Nodes
<1>2. CASE /\ "shell" \in Nodes!Reached /\ kept' = kept
           /\ \E before \in {m \in Nodes!Reached \ {"null"} : next[m] = "shell"} :
                /\ next' = [next EXCEPT ![before] = next["shell"]]
                /\ tail' = IF tail = "shell" THEN before ELSE tail
  <2>1. PICK before \in {m \in Nodes!Reached \ {"null"} : next[m] = "shell"} :
          /\ next' = [next EXCEPT ![before] = next["shell"]]
          /\ tail' = IF tail = "shell" THEN before ELSE tail
    BY <1>2
  <2>2. before \in Nodes!Nodes
    BY <2>1, ReachedFacts
  <2>3. Nodes!TypeOK'
    BY <1>1, <1>2, <2>1, <2>2 DEF Nodes!TypeOK, Nodes!Null
  <2>4. ASSUME ~kept PROVE ShellNodeInv'
    <3> DEFINE S == Nodes!Reached \ {"shell"}
    <3>1. S \in SUBSET (Nodes!Nodes \cup {"null"}) /\ "boot" \in S
      BY ReachedFacts
    <3>2. ASSUME NEW m \in S \ {"null"} PROVE next'[m] \in S
      <4>1. CASE m = before
        <5>1. next'[m] = next["shell"]
          BY <2>1, <2>2, <4>1 DEF Nodes!TypeOK
        <5>. QED BY <1>2, <2>4, <5>1, ReachedFacts DEF ShellNodeInv
      <4>2. CASE m # before
        <5>1. next'[m] = next[m] /\ next[m] \in Nodes!Reached
          BY <2>1, <2>2, <3>1, <4>2, ReachedFacts DEF Nodes!TypeOK
        <5>2. next[m] # "shell"
          BY <2>1, <2>4, <4>2 DEF ShellNodeInv
        <5>. QED BY <5>1, <5>2
      <4>. QED BY <4>1, <4>2
    <3>3. "shell" \notin S
      OBVIOUS
    <3>. HIDE DEF S
    <3>4. Nodes!Reached' \subseteq S
      BY <3>1, <3>2, WalkLeast DEF Nodes!Reached
    <3>. QED BY <3>2, <3>3, <3>4 DEF ShellNodeInv
  <2>. QED BY <1>2, <2>3, <2>4
<1>3. CASE "shell" \notin Nodes!Reached /\ UNCHANGED <<next, tail, kept>>
  BY <1>3 DEF ShellNodeInv, Nodes!TypeOK, Nodes!Reached
<1>4. CASE UNCHANGED <<next, tail>> /\ kept' = TRUE
  BY <1>4 DEF Nodes!TypeOK
<1>. QED BY <1>2, <1>3, <1>4 DEF Nodes!NodeFini, Nodes!listVars, Nodes!Null

LEMMA NextNodes == NodesInv /\ (Nodes!Next \/ UNCHANGED nodesVars) => NodesInv'
<1>. SUFFICES ASSUME NodesInv, Nodes!Next \/ UNCHANGED nodesVars PROVE NodesInv'
  OBVIOUS
<1>1. CASE \E s \in {"rx", "tx"} : Nodes!ServiceInit(s)
  BY <1>1, ServiceInitKeeps
<1>2. CASE Nodes!Sample("hz") \/ Nodes!Sample("echo")
  BY <1>2, SampleKeeps
<1>3. CASE Nodes!HzEnd
  BY <1>3, NodeFiniKeeps DEF Nodes!HzEnd
<1>4. CASE Nodes!EchoEnd
  <2>1. CASE Nodes!NodeFini("shell")
    BY <1>4, <2>1, NodeFiniKeeps DEF Nodes!EchoEnd
  <2>2. CASE UNCHANGED <<next, tail>> /\ kept' = TRUE
    BY <1>4, <2>2 DEF Nodes!EchoEnd, NodesInv, Nodes!TypeOK
  <2>. QED BY <1>4, <2>1, <2>2 DEF Nodes!EchoEnd, Nodes!listVars
<1>5. CASE Nodes!List \/ Nodes!ListStep
  <2>1. Nodes!TypeOK' /\ (shell' = "list" => cursor' # "null")
    BY <1>5 DEF Nodes!List, Nodes!ListStep, NodesInv, Nodes!TypeOK, Nodes!Nodes, Nodes!Null,
                Nodes!listVars
  <2>2. UNCHANGED <<next, tail, kept>> /\ shell \notin {"hz", "echo"}
    BY <1>5 DEF Nodes!List, Nodes!ListStep, Nodes!listVars
  <2>. QED BY <2>1, <2>2 DEF NodesInv, ShellNodeInv, Nodes!Reached
<1>6. CASE UNCHANGED nodesVars
  BY <1>6 DEF nodesVars, NodesInv, ShellNodeInv, Nodes!TypeOK, Nodes!Reached
<1>. QED BY <1>1, <1>2, <1>3, <1>4, <1>5, <1>6 DEF Nodes!Next

LEMMA InitNodes == Nodes!Init => NodesInv
<1>. SUFFICES ASSUME Nodes!Init PROVE NodesInv
  OBVIOUS
<1>1. Nodes!TypeOK
  BY DEF Nodes!Init, Nodes!TypeOK, Nodes!Nodes, Nodes!Null
<1> DEFINE S == {"boot", "null"}
<1>2. S \in SUBSET (Nodes!Nodes \cup {"null"}) /\ \A n \in S \ {"null"} : next[n] \in S
  BY DEF Nodes!Init, Nodes!Nodes, Nodes!Null
<1>3. Nodes!Reached \subseteq S
  BY <1>2, WalkLeast DEF Nodes!Reached
<1>. QED BY <1>1, <1>2, <1>3 DEF NodesInv, ShellNodeInv, Nodes!Init, Nodes!Nodes

-----------------------------------------------------------------------------
(* The work queues.                                                        *)

LEMMA SubmitType ==
  ASSUME Work!TypeOK, NEW q \in Work!Queues, NEW item \in Work!Items, Work!Submit(q, item)
  PROVE  Work!TypeOK'
<1>1. queue' \in [Work!Queues -> Seq(Work!Items)]
  <2>1. Append(queue[q], item) \in Seq(Work!Items)
    BY DEF Work!TypeOK
  <2>. QED BY <2>1 DEF Work!Submit, Work!TypeOK
<1>. QED BY <1>1 DEF Work!Submit, Work!TypeOK

LEMMA StartType ==
  ASSUME Work!TypeOK, NEW item, Work!Start(item)
  PROVE  queue' \in [Work!Queues -> Seq(Work!Items)]
<1>1. PICK q \in Work!Queues : queue[q] # <<>> /\ queue' = [queue EXCEPT ![q] = Tail(@)]
  BY DEF Work!Start
<1>2. Tail(queue[q]) \in Seq(Work!Items)
  BY <1>1 DEF Work!TypeOK
<1>. QED BY <1>1, <1>2 DEF Work!TypeOK

LEMMA NextWork == Work!TypeOK /\ (Work!Next \/ UNCHANGED workVars) => Work!TypeOK'
<1>. SUFFICES ASSUME Work!TypeOK, Work!Next \/ UNCHANGED workVars PROVE Work!TypeOK'
  OBVIOUS
<1>0. Samples \in Nat
  BY ServicesAssumption
<1>1. CASE Work!Timers \/ Work!Press
  BY <1>1, SubmitType
  DEF Work!Timers, Work!Press, Work!ImuTimer, Work!MagTimer, Work!WheelOdometryTimer,
      Work!PowerTimer, Work!SafetyTimer, Work!Queues, Work!Items
<1>2. CASE \E m \in {mode, imu.mode} : Work!ImuHandler(m)
  <2>1. PICK m \in {mode, imu.mode} : Work!ImuHandler(m)
    BY <1>2
  <2>2. queue' \in [Work!Queues -> Seq(Work!Items)] /\ UNCHANGED <<mode, switch>>
    BY <2>1, StartType DEF Work!ImuHandler
  <2>3. m \in WorkModes \cup {"unknown"}
    BY <2>1 DEF Work!TypeOK
  <2> DEFINE c == imu.calibrated /\ ~(m = "calibration" /\ imu.last # "calibration")
  <2>4. imu' = [mode |-> m, last |-> m, calibrated |-> c]
    BY <2>1 DEF Work!ImuHandler
  <2>5. c \in BOOLEAN
    OBVIOUS
  <2>6. /\ sampling' \in 0 .. Samples
        /\ request' \in {"none", "open", "begun", "done"}
    BY <1>0, <2>1 DEF Work!ImuHandler, Work!TypeOK
  <2>. HIDE DEF c
  <2>. QED BY <2>2, <2>3, <2>4, <2>5, <2>6 DEF Work!TypeOK
<1>3. CASE \/ Work!MagHandler \/ Work!WheelOdometryHandler \/ Work!PowerHandler
           \/ Work!Toggle \/ Work!SafetyTimerHandler
  <2>1. /\ queue' \in [Work!Queues -> Seq(Work!Items)]
        /\ UNCHANGED <<sampling, mode, imu, request>>
    BY <1>3, StartType
    DEF Work!MagHandler, Work!WheelOdometryHandler, Work!PowerHandler, Work!Toggle,
        Work!SafetyTimerHandler
  <2>2. switch' \in [data : {"safe", "unsafe"}, topic : {"safe", "unsafe"}]
    BY <1>3
    DEF Work!MagHandler, Work!WheelOdometryHandler, Work!PowerHandler, Work!Toggle,
        Work!SafetyTimerHandler, Work!PublishSwitch, Work!TypeOK
  <2>. QED BY <2>1, <2>2 DEF Work!TypeOK
<1>4. CASE Work!Sample
  <2>1. UNCHANGED <<queue, mode, switch>> /\ sampling' \in 0 .. Samples
    BY <1>0, <1>4 DEF Work!Sample, Work!TypeOK
  <2>2. imu' = [imu EXCEPT !.calibrated = (sampling = 1)] /\ (sampling = 1) \in BOOLEAN
    BY <1>4 DEF Work!Sample
  <2>3. request' \in {"none", "open", "begun", "done"}
    BY <1>4 DEF Work!Sample, Work!TypeOK
  <2>. QED BY <2>1, <2>2, <2>3 DEF Work!TypeOK
<1>5. CASE \E m \in WorkModes : Work!SetMode(m)
  BY <1>5 DEF Work!SetMode, Work!TypeOK
<1>6. CASE UNCHANGED workVars
  BY <1>6 DEF workVars, Work!TypeOK
<1>. QED BY <1>1, <1>2, <1>3, <1>4, <1>5, <1>6 DEF Work!Next, Work!HighQueue, Work!LowQueue

LEMMA InitWork == Work!Init => Work!TypeOK
<1>. SUFFICES ASSUME Work!Init PROVE Work!TypeOK
  OBVIOUS
<1>1. <<>> \in Seq(Work!Items)
  OBVIOUS
<1>2. queue \in [Work!Queues -> Seq(Work!Items)]
  BY <1>1 DEF Work!Init
<1>3. imu \in [mode : WorkModes \cup {"unknown"}, last : WorkModes \cup {"unknown"},
               calibrated : BOOLEAN]
  BY DEF Work!Init
<1>. QED BY <1>2, <1>3, ServicesAssumption DEF Work!Init, Work!TypeOK

-----------------------------------------------------------------------------
(* The ethernet services.                                                  *)

\* A thread that is in its loop, or leaves it, has a socket to close.
EthInv ==
  /\ Eth!TypeOK
  /\ \A s \in {"rx", "tx"} : thread[s] \in {"loop", "closing"} => socket[s] > 0

LEMMA NextEth == EthInv /\ (Eth!Next \/ UNCHANGED ethVars) => EthInv'
<1>. SUFFICES ASSUME EthInv, Eth!Next \/ UNCHANGED ethVars PROVE EthInv'
  OBVIOUS
<1>0. MaxSockets \in Nat
  BY ServicesAssumption
<1>. USE DEF EthInv, Eth!TypeOK, Eth!Services, Eth!dataVars
<1>1. CASE Eth!TxRun \/ Eth!RxRun
  BY <1>1 DEF Eth!TxRun, Eth!RxRun, Eth!To, Eth!SetRunning
<1>2. CASE Eth!TxInit \/ Eth!RxInit
  <2>1. PICK s \in {"rx", "tx"}, to \in {"loop", "none"} :
          /\ Eth!To(s, "init", to) /\ UNCHANGED <<asked, inbox, updates>>
          /\ Eth!SetRunning(s, TRUE) \/ UNCHANGED running
          /\ Eth!Open(s) \/ (to = "none" /\ UNCHANGED socket)
    BY <1>2 DEF Eth!TxInit, Eth!RxInit
  <2>2. /\ thread' \in [{"rx", "tx"} -> {"none", "created", "init", "loop", "closing", "corrupt"}]
        /\ thread' = [thread EXCEPT ![s] = to]
    BY <2>1 DEF Eth!To
  <2>3. running' \in [{"rx", "tx"} -> BOOLEAN]
    BY <2>1 DEF Eth!SetRunning
  <2>4. /\ socket' \in [{"rx", "tx"} -> 0 .. MaxSockets]
        /\ \A x \in {"rx", "tx"} : socket'[x] >= socket[x] /\ (x = s /\ to = "loop" => socket'[x] > 0)
    BY <1>0, <2>1 DEF Eth!Open
  <2>5. ASSUME NEW x \in {"rx", "tx"}, thread'[x] \in {"loop", "closing"} PROVE socket'[x] > 0
    BY <1>0, <2>2, <2>4, <2>5
  <2>. QED BY <2>1, <2>2, <2>3, <2>4, <2>5
<1>3. CASE Eth!RxLoop \/ Eth!TxLoop
  BY <1>3 DEF Eth!RxLoop, Eth!TxLoop, Eth!To, Eth!Receive
<1>4. CASE Eth!Fini("rx") \/ Eth!Fini("tx")
  <2>1. PICK s \in {"rx", "tx"} :
          /\ thread[s] = "closing" /\ thread' = [thread EXCEPT ![s] = "none"]
          /\ socket' = [socket EXCEPT ![s] = @ - 1]
          /\ asked' = [asked EXCEPT ![s] = FALSE]
          /\ UNCHANGED <<running, inbox, updates>>
    BY <1>4 DEF Eth!Fini, Eth!To
  <2>2. socket[s] \in 1 .. MaxSockets
    BY <1>0, <2>1
  <2>3. socket' \in [{"rx", "tx"} -> 0 .. MaxSockets]
    BY <1>0, <2>1, <2>2
  <2>. QED BY <1>0, <2>1, <2>3
<1>5. CASE Eth!Start("rx") \/ Eth!Start("tx")
  BY <1>5 DEF Eth!Start
<1>6. CASE Eth!Stop("rx") \/ Eth!Stop("tx")
  <2>1. PICK s \in {"rx", "tx"} : Eth!Stop(s)
    BY <1>6
  <2>2. /\ running' \in [{"rx", "tx"} -> BOOLEAN]
        /\ UNCHANGED <<thread, socket, inbox, updates>>
    BY <2>1 DEF Eth!Stop, Eth!SetRunning
  <2>3. asked' \in [{"rx", "tx"} -> BOOLEAN]
    <3>1. (thread[s] = "loop" \/ s = "tx") \in BOOLEAN
      OBVIOUS
    <3>. QED BY <2>1, <3>1 DEF Eth!Stop
  <2>. QED BY <2>2, <2>3
<1>7. CASE Eth!Arrive("frame") \/ Eth!Arrive("junk") \/ Eth!Update
  BY <1>7 DEF Eth!Arrive, Eth!Update, Eth!svcVars
<1>8. CASE UNCHANGED ethVars
  BY <1>8 DEF ethVars
<1>. QED BY <1>1, <1>2, <1>3, <1>4, <1>5, <1>6, <1>7, <1>8
         DEF Eth!Next, Eth!RxThread, Eth!TxThread, Eth!RxShell, Eth!TxShell

LEMMA InitEth == Eth!Init => EthInv
<1>. SUFFICES ASSUME Eth!Init PROVE EthInv
  OBVIOUS
<1>1. /\ running \in [{"rx", "tx"} -> BOOLEAN] /\ asked \in [{"rx", "tx"} -> BOOLEAN]
      /\ updates \in BOOLEAN
  BY DEF Eth!Init, Eth!Services
<1>2. MaxSockets \in Nat
  BY ServicesAssumption
<1>. QED BY <1>1, <1>2 DEF Eth!Init, Eth!Services, EthInv, Eth!TypeOK

-----------------------------------------------------------------------------
(* The bridges and the receiver of satellite positions.                    *)

LEMMA NextTcp == Tcp!TypeOK /\ (Tcp!Next \/ UNCHANGED tcpVars) => Tcp!TypeOK'
<1>. SUFFICES ASSUME Tcp!TypeOK, Tcp!Next \/ UNCHANGED tcpVars PROVE Tcp!TypeOK'
  OBVIOUS
<1>0. MaxErrors \in Nat
  BY ServicesAssumption
<1>. USE DEF Tcp!TypeOK, Tcp!Topics, Tcp!Move
<1>1. CASE Tcp!Accept \/ Tcp!Poll \/ Tcp!Receive
  BY <1>1 DEF Tcp!Accept, Tcp!Poll, Tcp!Receive
<1>2. Tcp!Write => reconnect' \in BOOLEAN /\ errorCount' \in 0 .. MaxErrors + 1
  <2>1. Tcp!Write => errorCount' \in 0 .. MaxErrors + 1
    BY <1>0 DEF Tcp!Write
  <2>2. (errorCount > MaxErrors) \in BOOLEAN
    OBVIOUS
  <2>3. Tcp!Write => reconnect' \in BOOLEAN
    BY <2>2, Zenon DEF Tcp!Write
  <2>. QED BY <2>1, <2>3
<1>3. CASE \E t \in Tcp!Topics : Tcp!SendTopic(t)
  <2>1. reconnect' \in BOOLEAN /\ errorCount' \in 0 .. MaxErrors + 1
    BY <1>2, <1>3 DEF Tcp!SendTopic
  <2>. QED BY <1>3, <2>1 DEF Tcp!SendTopic, Tcp!After
<1>4. CASE Tcp!SendUptime
  BY <1>2, <1>4 DEF Tcp!SendUptime
<1>5. CASE Tcp!World
  BY <1>5 DEF Tcp!World, Tcp!Connect, Tcp!Data, Tcp!Close, Tcp!Reset, Tcp!Update
<1>6. CASE UNCHANGED tcpVars
  BY <1>6 DEF tcpVars
<1>. QED BY <1>1, <1>3, <1>4, <1>5, <1>6 DEF Tcp!Next, Tcp!Thread

LEMMA InitTcp == Tcp!Init => Tcp!TypeOK
<1>. SUFFICES ASSUME Tcp!Init PROVE Tcp!TypeOK
  OBVIOUS
<1>1. reconnect \in BOOLEAN /\ arrived \in BOOLEAN
  BY DEF Tcp!Init
<1>. QED BY <1>1, ServicesAssumption DEF Tcp!Init, Tcp!TypeOK

LEMMA NextSil == Sil!TypeOK /\ (Sil!Next \/ UNCHANGED silVars) => Sil!TypeOK'
<1>. SUFFICES ASSUME Sil!TypeOK, Sil!Next \/ UNCHANGED silVars PROVE Sil!TypeOK'
  OBVIOUS
<1>0. RingSize \in Nat
  BY ServicesAssumption
<1>. USE DEF Sil!TypeOK, Sil!HostTo, Sil!ZephyrTo, Sil!hostVars, Sil!zVars
<1>1. CASE Sil!Accept \/ Sil!Clock \/ Sil!ClockOffset
  BY <1>1 DEF Sil!Accept, Sil!Clock, Sil!ClockOffset
<1>2. CASE \E t \in Sensors, v \in Values : Sil!Store(t, v)
  BY <1>2 DEF Sil!Store
<1>3. CASE \E t \in Sensors : Sil!Put(t)
  <2>1. ring' \in Seq(Sensors) /\ Len(ring') <= RingSize
    BY <1>0, <1>3 DEF Sil!Put
  <2>2. dropped' \in BOOLEAN
    BY <1>3 DEF Sil!Put
  <2>. QED BY <1>3, <2>1, <2>2 DEF Sil!Put
<1>4. CASE Sil!WaitClock \/ Sil!SendActuators \/ Sil!Term
  BY <1>4 DEF Sil!WaitClock, Sil!SendActuators, Sil!Term
<1>5. CASE Sil!Take
  <2>1. ring' \in Seq(Sensors) /\ Len(ring') <= RingSize /\ Head(ring) \in Sensors
    BY <1>0, <1>5 DEF Sil!Take
  <2>. QED BY <1>5, <2>1 DEF Sil!Take
<1>6. CASE \E t \in Sensors : Sil!PublishTopic(t)
  <2>1. published' \in [Sensors -> Values]
    BY <1>6 DEF Sil!PublishTopic
  <2>2. dropped' \in BOOLEAN
    BY <1>6 DEF Sil!PublishTopic
  <2>. QED BY <1>6, <2>1, <2>2 DEF Sil!PublishTopic
<1>7. CASE UNCHANGED silVars
  BY <1>7 DEF silVars
<1>. QED BY <1>1, <1>2, <1>3, <1>4, <1>5, <1>6, <1>7 DEF Sil!Next, Sil!Host, Sil!Zephyr

LEMMA InitSil == Sil!Init => Sil!TypeOK
<1>. SUFFICES ASSUME Sil!Init PROVE Sil!TypeOK
  OBVIOUS
<1>1. stored \in [Sensors -> Values] /\ published \in [Sensors -> Values]
  BY ServicesAssumption DEF Sil!Init
<1>2. clock \in BOOLEAN /\ shutdown \in BOOLEAN /\ dropped \in BOOLEAN
  BY DEF Sil!Init
<1>3. ring \in Seq(Sensors) /\ Len(ring) <= RingSize
  BY ServicesAssumption DEF Sil!Init
<1>. QED BY <1>1, <1>2, <1>3 DEF Sil!Init, Sil!TypeOK

LEMMA NextReceiver ==
  Receiver!TypeOK /\ (Receiver!Next \/ UNCHANGED receiverVars) => Receiver!TypeOK'
  BY DEF Receiver!TypeOK, Receiver!Next, receiverVars, Receiver!Thread, Receiver!Open,
         Receiver!Started, Receiver!Check, Receiver!Watch, Receiver!Stop, Receiver!Callback,
         Receiver!Error, Receiver!Die, Receiver!Go

LEMMA InitReceiver == Receiver!Init => Receiver!TypeOK
  BY DEF Receiver!Init, Receiver!TypeOK

-----------------------------------------------------------------------------
(* The lights and the buzzer.                                              *)

Seen == [mode : LightModes \cup {"unknown"}, arming : Armings \cup {"unknown"},
         safety : LightSafeties \cup {"unknown"}, battery : Batteries \cup {"critical"},
         joy : Joys \cup {{}}]

LampsInv ==
  /\ light \in {"mode", "arm", "safety", "head"}
  /\ shown \in Seen /\ seen \in Seen
  /\ lightsOn \in BOOLEAN /\ lit \in BOOLEAN /\ ledsNew \in BOOLEAN
  /\ leds \in Lamps!ColorNames /\ strip \in Lamps!ColorNames

LEMMA ColorType ==
  ASSUME light \in {"mode", "arm", "safety", "head"}, NEW s, NEW on \in BOOLEAN
  PROVE  Lamps!Color(s, on) \in Lamps!ColorNames
<1>1. \A m : Lamps!ModeColor(m) \in Lamps!ColorNames
  BY DEF Lamps!ModeColor, Lamps!ColorNames
<1>2. \A a, b : Lamps!ArmColor(a, b) \in Lamps!ColorNames
  BY DEF Lamps!ArmColor, Lamps!ColorNames
<1>3. \A x : Lamps!SafetyColor(x) \in Lamps!ColorNames
  BY DEF Lamps!SafetyColor, Lamps!ColorNames
<1>4. "white" \in Lamps!ColorNames /\ "off" \in Lamps!ColorNames
  BY DEF Lamps!ColorNames
<1>. QED BY <1>1, <1>2, <1>3, <1>4 DEF Lamps!Color

LEMMA NextLamps == LampsInv /\ (Lamps!Next \/ UNCHANGED lampsVars) => LampsInv'
<1>. SUFFICES ASSUME LampsInv, Lamps!Next \/ UNCHANGED lampsVars PROVE LampsInv'
  OBVIOUS
<1>. USE DEF LampsInv
<1>1. CASE Lamps!LightingTimer \/ Lamps!WriteStrip
  BY <1>1 DEF Lamps!LightingTimer, Lamps!WriteStrip
<1>2. CASE \E m \in Lamps!Missed : Lamps!LightingWork(m)
  <2>1. PICK m \in Lamps!Missed : Lamps!LightingWork(m)
    BY <1>2
  <2>2. seen' = [f \in DOMAIN shown |-> IF f \in m THEN seen[f] ELSE shown[f]]
    BY <2>1 DEF Lamps!LightingWork
  <2>3. seen' \in Seen
    BY <2>2 DEF Seen
  <2>4. lightsOn' \in BOOLEAN /\ light' = light
    BY <2>1 DEF Lamps!LightingWork, Lamps!Headlights
  <2>5. Lamps!Color(seen', lightsOn') \in Lamps!ColorNames
    BY <2>4, ColorType
  <2>6. leds' \in Lamps!ColorNames /\ ledsNew' \in BOOLEAN
    BY <2>1, <2>5 DEF Lamps!LightingWork, Lamps!Publish
  <2>. QED BY <2>1, <2>3, <2>4, <2>6 DEF Lamps!LightingWork
<1>3. CASE Lamps!Show
  <2>1. shown' \in Seen
    BY <1>3 DEF Lamps!Show, Lamps!ShowMode, Lamps!ShowArming, Lamps!ShowBattery,
                Lamps!ShowSafety, Lamps!ShowJoy, Seen
  <2>. QED BY <1>3, <2>1 DEF Lamps!Show
<1>4. CASE UNCHANGED lampsVars
  BY <1>4 DEF lampsVars
<1>. QED BY <1>1, <1>2, <1>3, <1>4 DEF Lamps!Next

LEMMA InitLamps == Lamps!Init => LampsInv
<1>. SUFFICES ASSUME Lamps!Init PROVE LampsInv
  OBVIOUS
<1>1. shown \in Seen
  BY DEF Lamps!Init, Seen
<1>2. leds \in Lamps!ColorNames
  BY DEF Lamps!Init, Lamps!ColorNames
<1>. QED BY <1>1, <1>2 DEF Lamps!Init, LampsInv

LEMMA LampsType == LampsInv => Lamps!TypeOK
  BY DEF LampsInv, Lamps!TypeOK, Seen

\* An arming that was told was heard, and one that was heard was published: the supervisor
\* does not forget.
BuzzerInv ==
  /\ Buzzer!TypeOK
  /\ DOMAIN last = {"mode", "arming", "safety"}
  /\ last.arming # "unknown" => heard.arming # "unknown"
  /\ heard.arming # "unknown" => status.arming # "unknown"

LEMMA NextBuzzer == BuzzerInv /\ (Buzzer!Next \/ UNCHANGED buzzerVars) => BuzzerInv'
<1>. SUFFICES ASSUME BuzzerInv, Buzzer!Next \/ UNCHANGED buzzerVars PROVE BuzzerInv'
  OBVIOUS
<1>. USE DEF BuzzerInv, Buzzer!TypeOK, Buzzer!Then
<1>0. heard.arming # "unknown" => heard \in Buzzer!Status
  BY DEF Buzzer!Unknown
<1>1. CASE \E s \in {status, heard} : Buzzer!ReadStatus(s)
  BY <1>1 DEF Buzzer!ReadStatus
<1>2. CASE Buzzer!TellMode \/ Buzzer!TellArming \/ Buzzer!Alarms
  <2>1. heard.arming \in {"unknown", "armed", "disarmed"}
    BY DEF Buzzer!Status, Buzzer!Unknown
  <2>. QED BY <1>2, <2>1 DEF Buzzer!TellMode, Buzzer!TellArming, Buzzer!Alarms
<1>3. CASE Buzzer!TellSafety
  <2>1. started' \in BOOLEAN
    BY <1>3 DEF Buzzer!TellSafety
  <2>. QED BY <1>3, <2>1 DEF Buzzer!TellSafety
<1>4. CASE (\E s \in Buzzer!Status : Buzzer!PublishStatus(s)) \/ UNCHANGED buzzerVars
  BY <1>4 DEF Buzzer!PublishStatus, Buzzer!Status, buzzerVars
<1>. QED BY <1>1, <1>2, <1>3, <1>4 DEF Buzzer!Next

LEMMA InitBuzzer == Buzzer!Init => BuzzerInv
<1>. SUFFICES ASSUME Buzzer!Init PROVE BuzzerInv
  OBVIOUS
<1>1. started \in BOOLEAN
  BY DEF Buzzer!Init
<1>. QED BY <1>1 DEF Buzzer!Init, BuzzerInv, Buzzer!TypeOK, Buzzer!Unknown

-----------------------------------------------------------------------------
(* The estimator, the lap detector and the companion's driver.             *)

LEMMA NextPose == Pose!TypeOK /\ (Pose!Next \/ UNCHANGED poseVars) => Pose!TypeOK'
<1>. SUFFICES ASSUME Pose!TypeOK, Pose!Next \/ UNCHANGED poseVars PROVE Pose!TypeOK'
  OBVIOUS
<1>. USE DEF Pose!TypeOK, Pose!GoTo
<1>1. CASE Pose!WaitImu
  BY <1>1 DEF Pose!WaitImu
<1>2. CASE Pose!WaitWheel \/ Pose!Poll
  BY <1>2 DEF Pose!WaitWheel, Pose!Poll, Pose!ReadWheel
<1>3. ASSUME NEW finite \in BOOLEAN, Pose!Predict(finite) PROVE Pose!TypeOK'
  <2>1. lost' \in BOOLEAN
    BY <1>3 DEF Pose!Predict, Pose!HandleUpdate
  <2>2. moved' \in Int
    BY <1>3, ServicesAssumption DEF Pose!Predict, Pose!HandleUpdate
  <2>. QED BY <1>3, <2>1, <2>2 DEF Pose!Predict, Pose!HandleUpdate
<1>4. CASE Pose!Slow \/ Pose!PublishImu \/ UNCHANGED poseVars
  BY <1>4 DEF Pose!Slow, Pose!PublishImu, poseVars
<1>5. CASE \E r \in Rotations : Pose!PublishWheel(r)
  BY <1>5 DEF Pose!PublishWheel
<1>. QED BY <1>1, <1>2, <1>3, <1>4, <1>5 DEF Pose!Next

LEMMA InitPose == Pose!Init => Pose!TypeOK
<1>. SUFFICES ASSUME Pose!Init PROVE Pose!TypeOK
  OBVIOUS
<1>1. {imuNew, wheelNew, lost} \subseteq BOOLEAN
  BY DEF Pose!Init
<1>. QED BY <1>1, ServicesAssumption DEF Pose!Init, Pose!TypeOK

\* The lap is told after it was done, and what was told is forgotten; it is done after
\* the car came back.
LapInv ==
  /\ Laps!TypeOK
  /\ lapState # "done" => ~detected /\ laps = 0
  /\ detected => laps = 0
  /\ laps < 2
  /\ lapState = "started" => from # Laps!Unset /\ (away \/ crossings >= 1)
  /\ lapState = "done" => crossings >= 1
  /\ from = Laps!Unset => ~away
  /\ from # Laps!Unset =>
       /\ Laps!Dist(car, from) > Depart => away
       /\ Laps!Dist(car, from) < Return => ~away

LEMMA NextLaps == LapInv /\ (Laps!Next \/ UNCHANGED lapVars) => LapInv'
<1>. SUFFICES ASSUME LapInv, Laps!Next \/ UNCHANGED lapVars PROVE LapInv'
  OBVIOUS
<1>0. /\ Track \subseteq Nat /\ Depart \in Nat /\ Return \in Nat /\ Return <= Depart
      /\ Laps!Unset = -1 /\ \A x, y \in Nat : Laps!Dist(x, y) \in Nat
  BY ServicesAssumption DEF Laps!Unset, Laps!Dist
<1>. USE DEF LapInv, Laps!TypeOK
<1>1. CASE Laps!Drive
  <2> DEFINE out  == from # Laps!Unset /\ Laps!Dist(car', from) > Depart
             back == away /\ Laps!Dist(car', from) < Return
  <2>1. /\ car' \in Track /\ UNCHANGED <<driven, from, lapState, detected, laps>>
        /\ away' = (out \/ (away /\ ~back))
        /\ crossings' = IF back /\ crossings < 2 THEN crossings + 1 ELSE crossings
    BY <1>1 DEF Laps!Drive
  <2>2. from # Laps!Unset => Laps!Dist(car', from) \in Nat
    BY <1>0, <2>1
  <2>3. away' \in BOOLEAN
    BY <2>1
  <2>4. crossings' \in 0 .. 2 /\ crossings' >= crossings /\ (back => crossings' >= 1)
    BY <2>1
  <2>5. from = Laps!Unset => ~away'
    BY <2>1
  <2>6. from # Laps!Unset => /\ Laps!Dist(car', from) > Depart => away'
                             /\ Laps!Dist(car', from) < Return => ~away'
    <3>1. from # Laps!Unset =>
            ~(Laps!Dist(car', from) > Depart /\ Laps!Dist(car', from) < Return)
      BY <1>0, <2>2
    <3>. QED BY <2>1, <3>1, Zenon
  <2>7. away => away' \/ crossings' >= 1
    BY <2>1, <2>4
  <2>. HIDE DEF out, back
  <2>8. lapState' = "started" => from' # Laps!Unset /\ (away' \/ crossings' >= 1)
    BY <2>1, <2>4, <2>7
  <2>9. lapState' = "done" => crossings' >= 1
    BY <2>1, <2>4
  <2>10. Laps!TypeOK'
    BY <2>1, <2>3, <2>4
  <2>. QED BY <2>1, <2>5, <2>6, <2>8, <2>9, <2>10 DEF Laps!Dist
<1>2. CASE Laps!MarkDrivingStarted
  BY <1>2 DEF Laps!MarkDrivingStarted, Laps!Dist
<1>3. CASE Laps!UpdateState
  <2>1. CASE from = Laps!Unset
    <3>1. /\ from' = car /\ car \in Nat
          /\ UNCHANGED <<car, driven, lapState, detected, laps, away, crossings>>
      BY <1>0, <1>3, <2>1 DEF Laps!UpdateState
    <3>2. Laps!Dist(car, car) = 0 /\ from' # Laps!Unset
      BY <1>0, <3>1 DEF Laps!Dist
    <3>. QED BY <1>0, <2>1, <3>1, <3>2 DEF Laps!Dist
  <2>2. CASE from # Laps!Unset
    <3> DEFINE gone == Laps!Dist(car, from) > Depart
               back == Laps!Dist(car, from) < Return
    <3>1. /\ lapState' = CASE lapState = "normal" /\ gone -> "started"
                           [] lapState = "started" /\ back -> "done"
                           [] OTHER -> lapState
          /\ detected' = (detected \/ (lapState = "started" /\ lapState' = "done"))
      BY <1>3, <2>2 DEF Laps!UpdateState
    <3>5. UNCHANGED <<car, driven, from, laps, away, crossings>>
      BY <1>3, <2>2 DEF Laps!UpdateState
    <3>6. (gone => away) /\ (back => ~away)
      BY <2>2
    <3>. HIDE DEF gone, back
    <3>2. /\ lapState' \in {"normal", "started", "done"}
          /\ lapState = "done" => lapState' = "done"
          /\ lapState = "normal" => lapState' # "done"
      BY <3>1
    <3>3. detected' \in BOOLEAN
      BY <3>1
    <3>4. /\ lapState' # "done" => ~detected' /\ laps = 0
          /\ detected' => laps = 0
      BY <3>1, <3>2
    <3>7. lapState' = "started" => away \/ crossings >= 1
      BY <3>1, <3>6
    <3>8. lapState' = "done" => crossings >= 1
      BY <3>1, <3>6
    <3>. QED BY <2>2, <3>2, <3>3, <3>4, <3>5, <3>7, <3>8 DEF Laps!Dist
  <2>. QED BY <2>1, <2>2
<1>4. CASE Laps!CheckLapDetected
  <2>1. detected' = FALSE /\ {driven', detected', away'} \subseteq BOOLEAN
    BY <1>4 DEF Laps!CheckLapDetected
  <2>2. laps' \in 0 .. 1 /\ (lapState # "done" => laps' = 0)
    <3>1. CASE detected
      BY <1>4, <3>1 DEF Laps!CheckLapDetected
    <3>2. CASE ~detected
      BY <1>4, <3>2 DEF Laps!CheckLapDetected
    <3>. QED BY <3>1, <3>2
  <2>3. UNCHANGED <<car, driven, from, lapState, away, crossings>>
    BY <1>4 DEF Laps!CheckLapDetected
  <2>. QED BY <2>1, <2>2, <2>3 DEF Laps!Dist
<1>5. CASE UNCHANGED lapVars
  BY <1>5 DEF lapVars, Laps!Dist
<1>. QED BY <1>1, <1>2, <1>3, <1>4, <1>5 DEF Laps!Next

LEMMA InitLaps == Laps!Init => LapInv
<1>. SUFFICES ASSUME Laps!Init PROVE LapInv
  OBVIOUS
<1>1. {driven, detected, away} \subseteq BOOLEAN
  BY DEF Laps!Init
<1>. QED BY <1>1, ServicesAssumption DEF Laps!Init, LapInv, Laps!TypeOK, Laps!Unset

\* On the way out, only full self-driving relies on the stop that was sent before; a
\* driver that has not begun has sent nothing.
StopInv ==
  /\ driver \in {"start", "choose"} => command = "stop"
  /\ driver = "finally" /\ driveMode = "fsd" /\ ~missed /\ ~hasty /\ ~failed
       => command = "stop"
  /\ Drive!StoppedAtEnd

LEMMA StopSent == Drive!SendStop /\ ~missed' => command' = "stop"
  BY DEF Drive!SendStop, Drive!Send

LEMMA NextStopInv == StopInv /\ (Drive!Next \/ UNCHANGED driveVars) => StopInv'
<1>. SUFFICES ASSUME StopInv, Drive!Next \/ UNCHANGED driveVars PROVE StopInv'
  OBVIOUS
<1>. USE DEF StopInv, Drive!StoppedAtEnd, Drive!netVars, Drive!Turn, Drive!Gone
<1>1. CASE Drive!Start \/ \E m \in {"auto", "manual", "fsd"} : Drive!Choose(m)
  BY <1>1 DEF Drive!Start, Drive!Choose
<1>2. CASE Drive!Pass
  BY <1>2 DEF Drive!Pass, Drive!Frame, Drive!Brake, Drive!SendSpeed, Drive!Keys
<1>3. CASE Drive!Quit
  BY <1>3, StopSent DEF Drive!Quit
<1>4. CASE Drive!Fail
  BY <1>4 DEF Drive!Fail
<1>5. CASE Drive!Interrupt
  BY <1>5 DEF Drive!Interrupt, Drive!Looping
<1>6. CASE Drive!Handler
  BY <1>6, StopSent DEF Drive!Handler
<1>7. CASE Drive!Finally
  BY <1>7, StopSent DEF Drive!Finally
<1>8. CASE Drive!Packet \/ Drive!Surroundings \/ UNCHANGED driveVars
  BY <1>8 DEF Drive!Packet, Drive!Surroundings, Drive!driveVars, driveVars
<1>. QED BY <1>1, <1>2, <1>3, <1>4, <1>5, <1>6, <1>7, <1>8 DEF Drive!Next

\* No packet is of a sector the sweep does not have.
LEMMA NextDrive == Drive!TypeOK /\ (Drive!Next \/ UNCHANGED driveVars) => Drive!TypeOK'
<1>. SUFFICES ASSUME Drive!TypeOK, Drive!Next \/ UNCHANGED driveVars PROVE Drive!TypeOK'
  OBVIOUS
<1>. USE DEF Drive!TypeOK, Drive!netVars, Drive!envVars, Drive!driveVars, Drive!lidarVars,
             Drive!Turn
<1>0. 0 \in 0 .. Sectors - 1 /\ (sector + 1) % Sectors \in 0 .. Sectors - 1
  BY ServicesAssumption
<1>1. CASE Drive!Start
  BY <1>0, <1>1 DEF Drive!Start, Drive!Gone
<1>2. CASE \E m \in {"auto", "manual", "fsd"} : Drive!Choose(m)
  <2>1. PICK m \in {"auto", "manual", "fsd"} : Drive!Choose(m)
    BY <1>2
  <2>2. driveSpeed' \in {"stop", "go"}
    BY <2>1 DEF Drive!Choose
  <2>. QED BY <2>1, <2>2 DEF Drive!Choose
<1>3. CASE Drive!Frame \/ Drive!Brake \/ Drive!Keys
  BY <1>3 DEF Drive!Frame, Drive!Brake, Drive!Keys
<1>4. ASSUME NEW delivered \in BOOLEAN, Drive!SendSpeed(delivered) PROVE Drive!TypeOK'
  BY <1>4 DEF Drive!SendSpeed, Drive!Send
<1>5. ASSUME Drive!SendStop PROVE command' \in {"stop", "go"} /\ missed' \in BOOLEAN
  BY <1>5 DEF Drive!SendStop, Drive!Send
<1>6. CASE Drive!Quit \/ Drive!Handler
  <2>1. command' \in {"stop", "go"} /\ missed' \in BOOLEAN
    BY <1>5, <1>6 DEF Drive!Quit, Drive!Handler
  <2>2. {braking', hasty', failed'} \subseteq BOOLEAN
    BY <1>6 DEF Drive!Quit, Drive!Handler, Drive!Leave
  <2>. QED BY <1>6, <2>1, <2>2 DEF Drive!Quit, Drive!Handler, Drive!Leave
<1>7. CASE Drive!Finally
  <2>1. command' \in {"stop", "go"} /\ missed' \in BOOLEAN
    BY <1>5, <1>7 DEF Drive!Finally
  <2>2. {sweepNear', frontNear'} \subseteq BOOLEAN
    BY <1>7 DEF Drive!Finally, Drive!Gone
  <2>. QED BY <1>0, <1>7, <2>1, <2>2 DEF Drive!Finally, Drive!Gone
<1>8. CASE Drive!Fail
  <2>1. {braking', failed'} \subseteq BOOLEAN
    BY <1>8 DEF Drive!Fail, Drive!Leave
  <2>. QED BY <1>8, <2>1 DEF Drive!Fail, Drive!Leave
<1>9. CASE Drive!Interrupt
  <2>1. {braking', hasty', sweepNear', frontNear'} \subseteq BOOLEAN
    BY <1>9 DEF Drive!Interrupt, Drive!Leave, Drive!Gone
  <2>. QED BY <1>0, <1>9, <2>1 DEF Drive!Interrupt, Drive!Leave, Drive!Gone
<1>10. CASE Drive!Packet
  <2>1. {sweepNear', frontNear'} \subseteq BOOLEAN
    BY <1>10 DEF Drive!Packet, Drive!Sweep
  <2>. QED BY <1>0, <1>10, <2>1 DEF Drive!Packet
<1>11. CASE Drive!Surroundings
  <2>1. {obstacle', clear'} \subseteq BOOLEAN
    BY <1>11 DEF Drive!Surroundings
  <2>. QED BY <1>11, <2>1 DEF Drive!Surroundings
<1>12. CASE UNCHANGED driveVars
  BY <1>12 DEF driveVars
<1>. QED BY <1>1, <1>2, <1>3, <1>4, <1>6, <1>7, <1>8, <1>9, <1>10, <1>11, <1>12
         DEF Drive!Next, Drive!Pass

LEMMA InitDrive == Drive!Init => Drive!TypeOK /\ StopInv
<1>. SUFFICES ASSUME Drive!Init PROVE Drive!TypeOK /\ StopInv
  OBVIOUS
<1>1. {braking, hasty, failed, missed, sweepNear, frontNear, obstacle, clear} \subseteq BOOLEAN
  BY DEF Drive!Init
<1>2. 0 \in 0 .. Sectors - 1
  BY ServicesAssumption
<1>. QED BY <1>1, <1>2 DEF Drive!Init, Drive!TypeOK, StopInv, Drive!StoppedAtEnd

-----------------------------------------------------------------------------
(* Manual driving and the position controller have proofs of their own;    *)
(* a step of theirs here is a step there.                                  *)

MP == INSTANCE ManualProofs
PP == INSTANCE PositionProofs

LEMMA DrivingConstants == MP!ManualConstants
  BY ServicesAssumption DEF MP!ManualConstants

LEMMA SameFilter ==
  /\ Driving!Needed = MP!Needed
  /\ \A ticks : Driving!HeldFor(ticks) = MP!HeldFor(ticks)
  /\ \A ticks : Driving!MsCeil(ticks) = MP!MsCeil(ticks)
  /\ \A f : Driving!Clamp(f) = MP!Clamp(f)
  /\ \A f, ref, dt : Driving!FilterRef(f, ref, dt) = MP!FilterRef(f, ref, dt)
  /\ \A f, ref : Driving!Between(f, ref) = MP!Between(f, ref)
<1>1. Driving!Needed = MP!Needed
  BY DEF Driving!Needed, MP!Needed
<1>2. \A ticks : Driving!HeldFor(ticks) = MP!HeldFor(ticks)
  BY <1>1 DEF Driving!HeldFor, MP!HeldFor
<1>3. \A ticks : Driving!MsCeil(ticks) = MP!MsCeil(ticks)
  BY DEF Driving!MsCeil, MP!MsCeil
<1>4. \A f : Driving!Clamp(f) = MP!Clamp(f)
  BY DEF Driving!Clamp, MP!Clamp
<1>5. \A f, ref : Driving!Rate(f, ref) = MP!Rate(f, ref)
  BY DEF Driving!Rate, MP!Rate
<1>6. \A f, ref, dt : Driving!FilterRef(f, ref, dt) = MP!FilterRef(f, ref, dt)
  BY <1>4, <1>5 DEF Driving!FilterRef, MP!FilterRef
<1>7. \A f, ref : Driving!Between(f, ref) = MP!Between(f, ref)
  BY <1>4 DEF Driving!Between, MP!Between
<1>. QED BY <1>1, <1>2, <1>3, <1>4, <1>6, <1>7

LEMMA DrivingActs == Driving!Next \/ UNCHANGED drivingVars => [MP!Next]_(MP!vars)
<1>. SUFFICES ASSUME Driving!Next \/ UNCHANGED drivingVars PROVE [MP!Next]_(MP!vars)
  OBVIOUS
<1>1. CASE Driving!Poll \/ Driving!Tick \/ Driving!Read \/ Driving!Publish
  BY <1>1, SameFilter DEF MP!Next, Driving!Poll, MP!Poll, Driving!Tick, MP!Tick,
     Driving!Read, MP!Read, Driving!Publish, MP!Publish
<1>2. CASE Driving!Filter
  BY <1>2, SameFilter DEF MP!Next, Driving!Filter, MP!Filter
<1>3. CASE \E v \in Thrusts : Driving!PublishJoy(v)
  BY <1>3 DEF MP!Next, Driving!PublishJoy, MP!PublishJoy
<1>4. CASE UNCHANGED drivingVars
  BY <1>4 DEF drivingVars, MP!vars
<1>. QED BY <1>1, <1>2, <1>3, <1>4 DEF Driving!Next

LEMMA DrivingInit == Driving!Init => MP!Init
  BY DEF Driving!Init, MP!Init

LEMMA PathConstants == PP!PositionConstants
  BY ServicesAssumption DEF PP!PositionConstants

LEMMA SameTrajectories == Path!Trajectories = PP!Trajectories
  BY DEF Path!Trajectories, PP!Trajectories, Path!BoundedSeq, PP!BoundedSeq,
     Path!SeqOf, PP!SeqOf

LEMMA SameFollow == \A tr, now : Path!Follow(tr, now) = PP!Follow(tr, now)
<1>1. \A tr : Path!Stops(tr) = PP!Stops(tr)
  BY DEF Path!Stops, PP!Stops
<1>2. \A I : Path!Min(I) = PP!Min(I)
  BY DEF Path!Min, PP!Min
<1>3. \A tr, now : Path!Current(tr, now) = PP!Current(tr, now)
  BY <1>1, <1>2 DEF Path!Current, PP!Current, Path!SelectInSeq, PP!SelectInSeq
<1>4. \A tr, k : Path!Begin(tr, k) = PP!Begin(tr, k)
  BY DEF Path!Begin, PP!Begin
<1>. QED BY <1>1, <1>3, <1>4 DEF Path!Follow, PP!Follow, Path!Halt, PP!Halt

LEMMA PathActs == Path!Next \/ UNCHANGED pathVars => [PP!Next]_(PP!vars)
<1>. SUFFICES ASSUME Path!Next \/ UNCHANGED pathVars PROVE [PP!Next]_(PP!vars)
  OBVIOUS
<1>1. CASE Path!Poll \/ Path!PublishPose
  BY <1>1 DEF PP!Next, Path!Poll, PP!Poll, Path!PublishPose, PP!PublishPose
<1>2. CASE \E tr \in Path!Trajectories, auto \in BOOLEAN : Path!Read(tr, auto)
  <2>1. \A tr, auto : Path!Read(tr, auto) => PP!Read(tr, auto)
    BY DEF Path!Read, PP!Read
  <2>. QED BY <1>2, <2>1, SameTrajectories DEF PP!Next
<1>3. CASE \E now \in Times : Path!AutoMode(now)
  <2>1. \A now : Path!AutoMode(now) => PP!AutoMode(now)
    BY SameFollow DEF Path!AutoMode, PP!AutoMode
  <2>. QED BY <1>3, <2>1 DEF PP!Next
<1>4. CASE UNCHANGED pathVars
  BY <1>4 DEF pathVars, PP!vars
<1>. QED BY <1>1, <1>2, <1>3, <1>4 DEF Path!Next

LEMMA PathInit == Path!Init => PP!Init
  BY DEF Path!Init, PP!Init, Path!Halt, PP!Halt

LEMMA NextPath == Path!TypeOK /\ (Path!Next \/ UNCHANGED pathVars) => Path!TypeOK'
<1>. SUFFICES ASSUME Path!TypeOK, Path!Next \/ UNCHANGED pathVars PROVE Path!TypeOK'
  OBVIOUS
<1>. USE DEF Path!TypeOK
<1>1. CASE Path!Poll \/ Path!PublishPose \/ UNCHANGED pathVars
  BY <1>1 DEF Path!Poll, Path!PublishPose, pathVars
<1>2. CASE \E tr \in Path!Trajectories, auto \in BOOLEAN : Path!Read(tr, auto)
  BY <1>2 DEF Path!Read
<1>3. CASE \E now \in Times : Path!AutoMode(now)
  <2>1. PICK now \in Times : Path!AutoMode(now)
    BY <1>3
  <2>2. \A tr : DOMAIN Path!Follow(tr, now) = {"curve", "t", "T"}
    BY DEF Path!Follow, Path!Halt
  <2>3. DOMAIN cmdVel' = {"curve", "t", "T"}
    BY <2>1, <2>2 DEF Path!AutoMode
  <2>. QED BY <2>1, <2>3 DEF Path!AutoMode
<1>. QED BY <1>1, <1>2, <1>3 DEF Path!Next

LEMMA InitPath == Path!Init => Path!TypeOK
<1>. SUFFICES ASSUME Path!Init PROVE Path!TypeOK
  OBVIOUS
<1>1. {pose, isAuto} \subseteq BOOLEAN
  BY DEF Path!Init
<1>2. trajectory \in Path!Trajectories
  BY PathConstants, PathInit, SameTrajectories, PP!InitTrajectory
<1>3. DOMAIN Path!Halt = {"curve", "t", "T"}
  BY DEF Path!Halt
<1>. QED BY <1>1, <1>2, <1>3 DEF Path!Init, Path!TypeOK

-----------------------------------------------------------------------------
(* The theorems.                                                           *)

ServicesInv ==
  /\ part \in Parts
  /\ Work!TypeOK /\ EthInv /\ NodesInv /\ Tcp!TypeOK /\ Sil!TypeOK
  /\ Receiver!TypeOK /\ LampsInv /\ BuzzerInv /\ Path!TypeOK /\ Pose!TypeOK
  /\ Drive!TypeOK /\ StopInv /\ LapInv

LEMMA NextServices == ServicesInv /\ [Next]_vars => ServicesInv'
<1>. SUFFICES ASSUME ServicesInv, [Next]_vars PROVE ServicesInv'
  OBVIOUS
<1>1. /\ UNCHANGED part
      /\ Work!Next \/ UNCHANGED workVars
      /\ Eth!Next \/ UNCHANGED ethVars
      /\ Nodes!Next \/ UNCHANGED nodesVars
      /\ Tcp!Next \/ UNCHANGED tcpVars
      /\ Sil!Next \/ UNCHANGED silVars
      /\ Receiver!Next \/ UNCHANGED receiverVars
      /\ Lamps!Next \/ UNCHANGED lampsVars
      /\ Buzzer!Next \/ UNCHANGED buzzerVars
      /\ Path!Next \/ UNCHANGED pathVars
      /\ Pose!Next \/ UNCHANGED poseVars
      /\ Drive!Next \/ UNCHANGED driveVars
      /\ Laps!Next \/ UNCHANGED lapVars
  BY DEF Next, vars
<1>. QED BY <1>1, NextWork, NextEth, NextNodes, NextTcp, NextSil, NextReceiver, NextLamps,
            NextBuzzer, NextPath, NextPose, NextDrive, NextStopInv, NextLaps
         DEF ServicesInv

LEMMA InitServices == Init => ServicesInv
  BY InitWork, InitEth, InitNodes, InitTcp, InitSil, InitReceiver, InitLamps, InitBuzzer,
     InitPath, InitPose, InitDrive, InitLaps
  DEF Init, ServicesInv

LEMMA Invariance == Spec => []ServicesInv
  BY InitServices, NextServices, PTL DEF Spec

\* Driving here is a behaviour of Manual, and the controller one of Position.
LEMMA DrivesManually == Spec => MP!Spec
<1>1. Init => MP!Init
  BY DrivingInit DEF Init
<1>2. [Next]_vars => [MP!Next]_(MP!vars)
  BY DrivingActs DEF Next, vars
<1>. QED BY <1>1, <1>2, PTL DEF Spec, MP!Spec

LEMMA FollowsPath == Spec => PP!Spec
<1>1. Init => PP!Init
  BY PathInit DEF Init
<1>2. [Next]_vars => [PP!Next]_(PP!vars)
  BY PathActs DEF Next, vars
<1>. QED BY <1>1, <1>2, PTL DEF Spec, PP!Spec

\* For any values of the constants, the state of every part has its type: the ring of the
\* simulation holds no more than it has room for, a calibration takes no more samples than
\* it counts, the reader of the lidar measures a sector the sweep has, and the strip shows
\* colours of the code only.
THEOREM TypesOfServices == Spec => []TypeOK
<1>1. Spec => [](MP!TypeOK /\ MP!AgeInv /\ MP!ProgressInv)
  BY DrivesManually, DrivingConstants, MP!Invariance, PTL
<1>2. MP!TypeOK => Driving!TypeOK
  BY SameFilter DEF MP!TypeOK, Driving!TypeOK
<1>3. ServicesInv /\ Driving!TypeOK => TypeOK
  BY LampsType DEF ServicesInv, TypeOK, EthInv, NodesInv, BuzzerInv, LapInv
<1>. QED BY <1>1, <1>2, <1>3, Invariance, PTL

\* Whatever the order in which services and commands come and go: a node the list can
\* still reach is one of a thread that runs, unless a command could not take its node out
\* (zros_broker.c:58-105, synapse_topic.c:119-157).
THEOREM ReachedNodesLive == Spec => []NodesAreAlive
<1>1. NodesInv => NodesAreAlive
  BY DEF NodesInv, ShellNodeInv, NodesAreAlive, Nodes!NodesAreAlive
<1>2. ServicesInv => NodesAreAlive
  BY <1>1 DEF ServicesInv
<1>. QED BY <1>2, Invariance, PTL

\* For any rates and any tick of the clock: a thrust that stays is reached in time
\* (mixing.c:8-19, manual.c:66-95).
THEOREM DrivingReaches == Spec => []ThrustIsReached
<1>1. MP!ThrustIsReached => ThrustIsReached
  BY SameFilter DEF MP!ThrustIsReached, ThrustIsReached, Driving!ThrustIsReached
<1>. QED BY <1>1, DrivesManually, DrivingConstants, MP!Reaches, PTL

\* For any rates: the speed stays on the way from where it was to the limited thrust
\* (mixing.c:20-65).
THEOREM DrivingStaysBetween == Spec => FilterStaysBetween
<1>1. [speed' \in MP!Between(speed, thrust)]_(MP!vars)
        => [speed' \in Driving!Between(speed, thrust)]_(Driving!vars)
  BY SameFilter DEF MP!vars, Driving!vars
<1>. QED BY <1>1, DrivesManually, DrivingConstants, MP!StaysBetween, PTL
         DEF MP!FilterStaysBetween, FilterStaysBetween, Driving!FilterStaysBetween

\* For any times a trajectory carries: the car follows a curve the trajectory has, at a
\* time inside it (position.c:84-126).
THEOREM PathInsideCurve == Spec => TimeInsideCurve
<1>1. PP!TimeInsideCurve => TimeInsideCurve
  BY PTL DEF PP!TimeInsideCurve, TimeInsideCurve, Path!TimeInsideCurve, PP!vars, Path!vars
<1>. QED BY <1>1, FollowsPath, PathConstants, PP!InsideCurve, PTL

\* For any lidar, and whether a key, an interrupt at any time or an exception ends the
\* driver: it leaves the controller with a stop, but for the three cases the property names
\* (main.py:162-172, 257-258, 366-371, 461-468).
THEOREM EndsStopped == Spec => []StoppedAtEnd
<1>1. ServicesInv => StoppedAtEnd
  BY DEF ServicesInv, StopInv, StoppedAtEnd
<1>. QED BY <1>1, Invariance, PTL

\* For any track and any thresholds, the one to return at within the one to depart at:
\* the driver is never told of more laps than the car came back to its start, however the
\* listener's thread and its loop interleave (lap_detector.py:229-235, 289-314).
THEOREM ToldAtMostOnce == Spec => [](laps <= crossings)
<1>1. ServicesInv => laps <= crossings
  BY DEF ServicesInv, LapInv, Laps!TypeOK
<1>. QED BY <1>1, Invariance, PTL
===============================================================================
