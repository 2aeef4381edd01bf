-------------------------------- MODULE Broker --------------------------------
(***************************************************************************)
(* The broker's list of nodes (zros/zros_broker.c, zros/zros_node.c): a    *)
(* list linked through the nodes themselves, guarded by a mutex that       *)
(* everybody waits for at most a millisecond.  The ethernet services add   *)
(* their node whenever they are started (EthService); the commands of the  *)
(* shell (topic/synapse_topic.c) add one that lives on the stack, or walk  *)
(* the list.                                                               *)
(***************************************************************************)
CONSTANT Services  \* the services that can be started again

\* "boot" stands for the nodes of the threads that start once.
Nodes == {"boot", "shell"} \cup Services
Null  == "null"

VARIABLES
  next,   \* _broker_list_node.next of each node
  tail,   \* the last node; the first is "boot"
  shell,  \* what the shell does
  cursor, \* the node its walk has come to; the broker is locked unless it is Null
  kept    \* history: a lock timed out, or an echo gave up: the shell's node may stay

listVars == <<next, tail>>
vars     == <<listVars, shell, cursor, kept>>

Init ==
  /\ next = [n \in Nodes |-> Null] /\ tail = "boot"
  /\ shell = "idle" /\ cursor = Null
  /\ kept = FALSE

\* zros_node_init and zros_broker_add_node: the pointer is reset before the lock is
\* taken, and nothing tests whether the node is in the list already.
NodeInit(n) ==
  LET reset == [next EXCEPT ![n] = Null]
  IN  \/ cursor = Null /\ next' = [reset EXCEPT ![tail] = n] /\ tail' = n
      \/ next' = reset /\ UNCHANGED tail

\* The nodes a walk along the pointers comes to: those in every set that has the first
\* one and, with each node, the next.
Walk(pointers) ==
  LET closed == {S \in SUBSET (Nodes \cup {Null}) :
                   "boot" \in S /\ \A n \in S \ {Null} : pointers[n] \in S}
  IN  {n \in Nodes \cup {Null} : \A S \in closed : n \in S}

Reached == Walk(next)

\* zros_node_fini and zros_broker_remove_node: the walk to the node does not end if the
\* list does not; without the lock nothing is removed.
NodeFini(n) ==
  \/ /\ cursor = Null
     /\ IF n \in Reached
        THEN \E before \in {m \in Reached \ {Null} : next[m] = n} :
               /\ next' = [next EXCEPT ![before] = next[n]]
               /\ tail' = IF tail = n THEN before ELSE tail
        ELSE Null \in Reached /\ UNCHANGED listVars
     /\ UNCHANGED kept
  \/ UNCHANGED listVars /\ kept' = TRUE

-----------------------------------------------------------------------------

\* A service starts, for the first time or again.
ServiceInit(s) == NodeInit(s) /\ UNCHANGED <<shell, cursor, kept>>

\* topic_count_hz and topic_echo: a node and a subscription on the stack, ...
Sample(command) ==
  /\ shell = "idle" /\ shell' = command
  /\ NodeInit("shell")
  /\ UNCHANGED <<cursor, kept>>

\* Mutant of HzEnd: the node stays.
HzEndKeepsNode ==
  /\ shell = "hz" /\ shell' = "idle"
  /\ UNCHANGED <<listVars, cursor, kept>>

\* ... which hz removes after five seconds or eleven messages, ...
HzEnd ==
  /\ shell = "hz" /\ shell' = "idle"
  /\ NodeFini("shell")
  /\ UNCHANGED cursor

\* ... and echo if a message came within two.
EchoEnd ==
  /\ shell = "echo" /\ shell' = "idle"
  /\ \/ NodeFini("shell")
     \/ UNCHANGED listVars /\ kept' = TRUE
  /\ UNCHANGED cursor

\* zros node list: zros_broker_iterate_nodes takes the lock ...
List ==
  /\ shell = "idle" /\ shell' = "list"
  /\ cursor' = "boot"
  /\ UNCHANGED <<listVars, kept>>

\* ... and goes from node to node.
ListStep ==
  /\ shell = "list"
  /\ cursor' = next[cursor]
  /\ shell' = IF next[cursor] = Null THEN "idle" ELSE "list"
  /\ UNCHANGED <<listVars, kept>>

Next ==
  \/ \E s \in Services : ServiceInit(s)
  \/ Sample("hz") \/ Sample("echo") \/ HzEnd \/ EchoEnd \/ List \/ ListStep

\* A walk goes on.
Spec == Init /\ [][Next]_vars /\ WF_vars(ListStep)

-----------------------------------------------------------------------------
(* Properties.                                                             *)

TypeOK ==
  /\ next \in [Nodes -> Nodes \cup {Null}] /\ tail \in Nodes
  /\ shell \in {"idle", "hz", "echo", "list"} /\ cursor \in Nodes \cup {Null}
  /\ kept \in BOOLEAN

\* A node on the stack of a command that has ended is not in the list, however the
\* services were started in between, unless a lock timed out or an echo gave up
\* without removing it (synapse_topic.c:119-120, 144-157).
NodesAreAlive == "shell" \in Reached /\ ~kept => shell \in {"hz", "echo"}

\* "List nodes.": the command comes to an end (synapse_topic.c:304).
ListReturns == shell = "list" ~> shell = "idle"
=============================================================================
