------------------------------ MODULE ZrosClient ------------------------------
(***************************************************************************)
(* A thread as a client of the zros topics it subscribes to.  A topic is   *)
(* its latest message, the atomic register that ZrosTopic implements, and  *)
(* a signal per subscription.  The rate limit of a subscription may        *)
(* swallow a signal, and the one millisecond timeout of a lock may lose a  *)
(* read or a publication; nobody looks at the results, and lost remembers  *)
(* that it happened.                                                       *)
(***************************************************************************)

VARIABLES
  news, \* the topics whose signal is raised for the thread
  ctx,  \* the thread's copies of the messages
  lost  \* history: a signal, a read or a publication was dropped

\* zros_topic_publish, as the subscriber of topic t sees it.
Signal(t) ==
  \/ news' = news \cup {t} /\ UNCHANGED lost
  \/ lost' = TRUE /\ UNCHANGED news

\* zros_sub_update_available, and zros_sub_update if the signal was raised: the
\* copies become updated.
Read(t, updated) ==
  /\ news' = news \ {t}
  /\ \/ t \in news /\ ctx' = updated /\ UNCHANGED lost
     \/ t \in news /\ lost' = TRUE /\ UNCHANGED ctx
     \/ t \notin news /\ UNCHANGED <<ctx, lost>>

\* zros_pub_update: the topic becomes published, or stays what it was.
Publish(topic, published) ==
  \/ published /\ UNCHANGED lost
  \/ lost' = TRUE /\ UNCHANGED topic
=============================================================================
