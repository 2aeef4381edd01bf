---------------------------- MODULE TopicRegister ----------------------------
(***************************************************************************)
(* What a zros topic promises its users about the message: it is an atomic *)
(* register.  A publication replaces the whole message in one step, and a  *)
(* read returns, in one step, the whole of the latest publication.         *)
(* Publications are numbered in the order in which they take effect.       *)
(***************************************************************************)
EXTENDS Naturals

CONSTANT Subscribers

VARIABLES
  reg,  \* the number of the latest publication
  view  \* the message each subscriber read last

\* A message whose two halves belong to publication n.
Message(n) == [lo |-> n, hi |-> n]

Init ==
  /\ reg = 0
  /\ view = [s \in Subscribers |-> Message(0)]

Publish ==
  /\ reg' = reg + 1
  /\ UNCHANGED view

Read(s) ==
  /\ view' = [view EXCEPT ![s] = Message(reg)]
  /\ UNCHANGED reg

Next == Publish \/ \E s \in Subscribers : Read(s)

Spec == Init /\ [][Next]_<<reg, view>>
=============================================================================
