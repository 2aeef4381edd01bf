--------------------------- MODULE ZrosTopicProofs ---------------------------
(***************************************************************************)
(* Proofs about ZrosTopic: for any sets of publishers, subscribers and     *)
(* shells, any number of permits, any rates and any number of messages.    *)
(*                                                                         *)
(* TypeOK, PermitsConserved, NoRemovedElement and NoLostUpdate of the      *)
(* specification are parts of the inductive invariant.  To these come      *)
(* HoldsWhatItNeeds, which ties the place of a thread in the code to the   *)
(* permits and to the mutex it must have there; DataAgrees, which says     *)
(* which halves of the message and of the copies may differ;               *)
(* SubscribersRead; and ListsAgree and JoinersAreNew, which say that the   *)
(* lists are what the calls have made them as long as nothing is           *)
(* initialised while it is in a list.                                      *)
(***************************************************************************)
EXTENDS ZrosTopic, TLAPS

\* A thread that writes has every permit, a thread that reads has one, and a
\* thread inside the mutex's region owns the mutex.
HoldsWhatItNeeds ==
  \A t \in Threads :
    /\ pc[t] \in Writing => held[t] = Permits
    /\ pc[t] \in Reading => held[t] # {}
    /\ pc[t] \in Locking \cup Writing \cup {"release"} => owner = t /\ lockCount > 0

\* The halves of the message differ only between the two steps of a
\* publication, those of a copy only between the two steps of a read.
DataAgrees ==
  /\ (\E t \in Threads : pc[t] = "write") => data.lo = data.hi + 1
  /\ (\A t \in Threads : pc[t] # "write") => data.lo = data.hi
  /\ \A s \in Subscribers : pc[s] = "copy2" => buf[s].lo = data.lo
  /\ NoTornRead

\* A subscriber takes the read lock only to read.
SubscribersRead ==
  \A s \in Subscribers : pc[s] = "rlock" => op[s] = "read"

\* What the lists lead to is what was appended and not removed, each element from one
\* place only.
ListsAgree ==
  ~relisted =>
    /\ pubs.head \in listed \cup {NoThread} /\ subs.head \in listed \cup {NoThread}
    /\ \A x \in listed : next[x] \in listed \cup {NoThread}
    /\ \A x \in listed : next[x] # NoThread => next[x] \notin {pubs.head, subs.head}
    /\ \A x, y \in listed : next[x] = next[y] /\ next[x] # NoThread => x = y

\* A thread that is about to append its element has not got it in a list.
JoinersAreNew ==
  ~relisted =>
    \A t \in Threads :
      op[t] \in {"add_pub", "add_sub"} /\ pc[t] \in {"wlock", "take", "crit"} => t \notin listed

\* The locks are right.
LockInv == TypeOK /\ PermitsConserved /\ HoldsWhatItNeeds

-----------------------------------------------------------------------------
(* What a walk along a list comes to, for any pointers f.                  *)

\* It is the least closed set with the first element.
LEMMA ChainLeast ==
  ASSUME NEW f, NEW Kind, NEW x, NEW S \in SUBSET (Kind \cup {NoThread}),
         x \in S, \A e \in S \ {NoThread} : f[e] \in S
  PROVE  Chain(f, Kind, x) \subseteq S
  BY DEF Chain

LEMMA ChainType ==
  ASSUME NEW f, NEW Kind, NEW x
  PROVE  Chain(f, Kind, x) \subseteq Kind \cup {NoThread}
  BY DEF Chain

LEMMA ChainSelf ==
  ASSUME NEW f, NEW Kind, NEW x \in Kind \cup {NoThread}
  PROVE  x \in Chain(f, Kind, x)
  BY DEF Chain

LEMMA ChainClosed ==
  ASSUME NEW f, NEW Kind, \A k \in Kind : f[k] \in Kind \cup {NoThread}, NEW x,
         NEW e \in Chain(f, Kind, x), e # NoThread
  PROVE  f[e] \in Chain(f, Kind, x)
  BY DEF Chain

\* The chain of an element is the element and the chain of the next.
LEMMA ChainStep ==
  ASSUME NEW f, NEW Kind, \A k \in Kind : f[k] \in Kind \cup {NoThread},
         NEW x \in Kind, NEW y \in Chain(f, Kind, x), y # x
  PROVE  y \in Chain(f, Kind, f[x])
<1>. DEFINE S == {x} \cup Chain(f, Kind, f[x])
<1>1. S \in SUBSET (Kind \cup {NoThread})
  BY ChainType
<1>2. f[x] \in Chain(f, Kind, f[x])
  BY ChainSelf
<1>3. \A e \in S \ {NoThread} : f[e] \in S
  BY <1>2, ChainClosed
<1>4. x \in S
  OBVIOUS
<1>. HIDE DEF S
<1>5. Chain(f, Kind, x) \subseteq S
  BY <1>1, <1>3, <1>4, ChainLeast
<1>. QED
  BY <1>5 DEF S

\* Nothing follows the null pointer.
LEMMA ChainNull ==
  ASSUME NEW f, NEW Kind
  PROVE  Chain(f, Kind, NoThread) \subseteq {NoThread}
<1>. DEFINE S == {NoThread}
<1>1. S \in SUBSET (Kind \cup {NoThread}) /\ NoThread \in S /\ \A e \in S \ {NoThread} : f[e] \in S
  OBVIOUS
<1>. HIDE DEF S
<1>2. Chain(f, Kind, NoThread) \subseteq S
  BY <1>1, ChainLeast
<1>. QED
  BY <1>2 DEF S

\* Only the pointers of the kind matter.
LEMMA ChainOther ==
  ASSUME NEW f, NEW g, NEW Kind, NoThread \notin Kind, \A k \in Kind : g[k] = f[k], NEW x
  PROVE  Chain(g, Kind, x) = Chain(f, Kind, x)
<1>. DEFINE Closed(h) == {S \in SUBSET (Kind \cup {NoThread}) : \A e \in S \ {NoThread} : h[e] \in S}
<1>1. Closed(f) = Closed(g)
  OBVIOUS
<1>. QED
  BY <1>1 DEF Chain

\* The reset of a pointer cuts off only what followed it, and adds nothing.
LEMMA ChainReset ==
  ASSUME NEW f, NEW g, NEW Kind, NEW s \in Kind, NEW x,
         NoThread \notin Kind, \A k \in Kind : f[k] \in Kind \cup {NoThread},
         g[s] = NoThread, \A k \in Kind \ {s} : g[k] = f[k]
  PROVE  /\ Chain(g, Kind, x) \subseteq Chain(f, Kind, x) \cup {NoThread}
         /\ Chain(f, Kind, x) \subseteq Chain(g, Kind, x) \cup Chain(f, Kind, s)
<1>. DEFINE S == Chain(f, Kind, x) \cup {NoThread}
            R == Chain(g, Kind, x) \cup Chain(f, Kind, s)
<1>1. S \subseteq Kind \cup {NoThread} /\ R \subseteq Kind \cup {NoThread}
  BY ChainType
<1>2. CASE x \notin Kind \cup {NoThread}
  <2>1. \A T \in SUBSET (Kind \cup {NoThread}) : x \notin T
    BY <1>2
  <2>2. Chain(g, Kind, x) = Kind \cup {NoThread} /\ Chain(f, Kind, x) = Kind \cup {NoThread}
    BY <2>1 DEF Chain
  <2>. QED
    BY <2>2
<1>3. CASE x \in Kind \cup {NoThread}
  <2>1. x \in S /\ \A e \in S \ {NoThread} : g[e] \in S
    <3>1. x \in S
      BY <1>3, ChainSelf
    <3>2. \A e \in Chain(f, Kind, x) \ {NoThread} : f[e] \in S /\ e \in Kind
      BY <1>1, ChainClosed
    <3>. QED
      BY <3>1, <3>2
  <2>2. \A k \in Kind : g[k] \in Kind \cup {NoThread}
    OBVIOUS
  <2>3. x \in R /\ f[s] \in R
    <3>1. x \in R
      BY <1>3, ChainSelf
    <3>2. s \in Chain(f, Kind, s) /\ s # NoThread
      BY ChainSelf
    <3>. QED
      BY <3>1, <3>2, ChainClosed
  <2>4. \A e \in R \ {NoThread} : f[e] \in R
    <3>1. ASSUME NEW e \in Chain(g, Kind, x) \ {NoThread} PROVE f[e] \in R
      <4>1. g[e] \in R /\ e \in Kind
        BY <1>1, <2>2, ChainClosed
      <4>. QED
        BY <4>1, <2>3
    <3>2. ASSUME NEW e \in Chain(f, Kind, s) \ {NoThread} PROVE f[e] \in R
      BY ChainClosed
    <3>. QED
      BY <3>1, <3>2
  <2>. HIDE DEF S, R
  <2>5. Chain(g, Kind, x) \subseteq S
    BY <1>1, <2>1, ChainLeast
  <2>6. Chain(f, Kind, x) \subseteq R
    BY <1>1, <2>3, <2>4, ChainLeast
  <2>. QED
    BY <2>5, <2>6 DEF S, R
<1>. QED
  BY <1>2, <1>3

\* Appending an element adds no other.
LEMMA ChainAppend ==
  ASSUME NEW f, NEW g, NEW Kind, NEW s \in Kind,
         NEW h \in Kind \cup {NoThread}, NoThread \notin Kind,
         \A k \in Kind : f[k] \in Kind \cup {NoThread},
         g[s] \in {s, NoThread}, \A k \in Kind : g[k] \in {f[k], s, NoThread}
  PROVE  \A x \in {h, s} : Chain(g, Kind, x) \subseteq Chain(f, Kind, h) \cup {s, NoThread}
<1>. DEFINE S == Chain(f, Kind, h) \cup {s, NoThread}
<1>1. S \subseteq Kind \cup {NoThread}
  BY ChainType
<1>2. \A e \in Chain(f, Kind, h) \ {NoThread} : f[e] \in S /\ e \in Kind
  BY <1>1, ChainClosed
<1>3. h \in S /\ s \in S /\ \A e \in S \ {NoThread} : g[e] \in S
  BY <1>2, ChainSelf
<1>. HIDE DEF S
<1>4. \A x \in {h, s} : Chain(g, Kind, x) \subseteq S
  BY <1>1, <1>3, ChainLeast
<1>. QED
  BY <1>4 DEF S

\* Leaving an element out adds none.
LEMMA ChainRemove ==
  ASSUME NEW f, NEW g, NEW Kind, NEW h \in Kind \cup {NoThread}, NEW s \in Kind,
         s \in Chain(f, Kind, h), NoThread \notin Kind,
         \A k \in Kind : f[k] \in Kind \cup {NoThread},
         \A k \in Kind : g[k] \in {f[k], f[s], NoThread}
  PROVE  \A x \in {h, f[s]} : Chain(g, Kind, x) \subseteq Chain(f, Kind, h) \cup {NoThread}
<1>. DEFINE S == Chain(f, Kind, h) \cup {NoThread}
<1>1. S \subseteq Kind \cup {NoThread}
  BY ChainType
<1>2. f[s] \in S
  BY ChainClosed
<1>3. \A e \in Chain(f, Kind, h) \ {NoThread} : f[e] \in S /\ e \in Kind
  BY <1>1, ChainClosed
<1>4. h \in S /\ \A e \in S \ {NoThread} : g[e] \in S
  BY <1>2, <1>3, ChainSelf
<1>. HIDE DEF S
<1>5. \A x \in {h, f[s]} : Chain(g, Kind, x) \subseteq S
  BY <1>1, <1>2, <1>4, ChainLeast
<1>. QED
  BY <1>5 DEF S

-----------------------------------------------------------------------------

LEMMA InPubsType == InPubs \subseteq Publishers
  BY ChainType DEF InPubs

LEMMA InSubsType == InSubs \subseteq Subscribers
  BY ChainType DEF InSubs

LEMMA InitTypeOK == Init => TypeOK
<1>. SUFFICES ASSUME Init PROVE TypeOK
  OBVIOUS
<1>1. /\ pubs \in [head : Publishers \cup {NoThread}, tail : Publishers \cup {NoThread}]
      /\ subs \in [head : Subscribers \cup {NoThread}, tail : Subscribers \cup {NoThread}]
  BY DEF Init
<1>2. /\ next \in [Threads -> Threads \cup {NoThread}]
      /\ \A p \in Publishers : next[p] \in Publishers \cup {NoThread}
      /\ \A s \in Subscribers : next[s] \in Subscribers \cup {NoThread}
      /\ at \in [Threads -> Threads \cup {NoThread}]
      /\ \A p \in Publishers : at[p] \in Subscribers \cup {NoThread}
  BY DEF Init, Threads
<1>. QED
  BY <1>1, <1>2, ZrosTopicAssumption DEF Init, TypeOK, PCs, Ops, Threads

LEMMA NextTypeOK == TypeOK /\ HoldsWhatItNeeds /\ [Next]_vars => TypeOK'
<1>. SUFFICES ASSUME TypeOK, HoldsWhatItNeeds, [Next]_vars PROVE TypeOK'
  OBVIOUS
<1>. USE ZrosTopicAssumption
     DEF TypeOK, PCs, Locking, Writing, Reading, WriteOps, ReadOps, Ops, Threads,
         lockVars, listVars, linkVars, subVars, Goto, Start, Return, Enlist, Strike, ResetNext
<1>1. ASSUME NEW p \in Publishers, PubInit(p) PROVE TypeOK'
  BY <1>1 DEF PubInit
<1>2. ASSUME NEW p \in Publishers, PubUpdate(p) PROVE TypeOK'
  BY <1>2 DEF PubUpdate
<1>3. ASSUME NEW p \in Publishers, PubFini(p) PROVE TypeOK'
  BY <1>3 DEF PubFini
<1>4. ASSUME NEW s \in Subscribers, SubInit(s) PROVE TypeOK'
  BY <1>4 DEF SubInit
<1>5. ASSUME NEW s \in Subscribers, SubFini(s) PROVE TypeOK'
  BY <1>5 DEF SubFini
<1>6. ASSUME NEW s \in Subscribers, SubCheck(s) PROVE TypeOK'
  BY <1>6 DEF SubCheck
<1>7. ASSUME NEW s \in Subscribers, SubClear(s) PROVE TypeOK'
  BY <1>7 DEF SubClear
<1>8. ASSUME NEW t \in Shells, Iterate(t) PROVE TypeOK'
  BY <1>8 DEF Iterate
<1>9. CASE Tick
  BY <1>9 DEF Tick
<1>10. ASSUME NEW t \in Threads, WriteLock(t) PROVE TypeOK'
  BY <1>10 DEF WriteLock
<1>11. ASSUME NEW t \in Threads, WriteLockTimeout(t) PROVE TypeOK'
  BY <1>11 DEF WriteLockTimeout
<1>12. ASSUME NEW t \in Threads, TakeRead(t) PROVE TypeOK'
  BY <1>12 DEF TakeRead
<1>13. ASSUME NEW t \in Threads, TakeReadTimeout(t) PROVE TypeOK'
  BY <1>13 DEF TakeReadTimeout
<1>14. ASSUME NEW t \in Threads, GiveRead(t) PROVE TypeOK'
  BY <1>14 DEF GiveRead
<1>15. ASSUME NEW t \in Threads, RollbackReturn(t) PROVE TypeOK'
  BY <1>15 DEF RollbackReturn
<1>16. ASSUME NEW t \in Threads, WriteUnlock(t) PROVE TypeOK'
  BY <1>16 DEF WriteUnlock, HoldsWhatItNeeds
<1>17. ASSUME NEW t \in Threads, ReadLock(t) PROVE TypeOK'
  BY <1>17 DEF ReadLock, StartOf
<1>18. ASSUME NEW t \in Threads, ReadLockTimeout(t) PROVE TypeOK'
  BY <1>18 DEF ReadLockTimeout
<1>19. ASSUME NEW t \in Threads, ReadUnlock(t) PROVE TypeOK'
  BY <1>19 DEF ReadUnlock
<1>20. ASSUME NEW s \in Subscribers, AddSub(s) PROVE TypeOK'
  <2>1. subs' \in [head : Subscribers \cup {NoThread}, tail : Subscribers \cup {NoThread}]
    BY <1>20 DEF AddSub, AppendList
  <2>2. /\ next' \in [Threads -> Threads \cup {NoThread}]
        /\ \A p \in Publishers : next'[p] \in Publishers \cup {NoThread}
        /\ \A k \in Subscribers : next'[k] \in Subscribers \cup {NoThread}
    <3>1. CASE next' = [next EXCEPT ![s] = NoThread]
      BY <3>1
    <3>2. ASSUME subs.tail \in Subscribers, next' = [[next EXCEPT ![s] = NoThread] EXCEPT ![subs.tail] = s]
          PROVE  /\ next' \in [Threads -> Threads \cup {NoThread}]
                 /\ \A k \in Publishers : next'[k] \in Publishers \cup {NoThread}
                 /\ \A k \in Subscribers : next'[k] \in Subscribers \cup {NoThread}
      <4>1. \A k \in Threads : next'[k] = IF k = subs.tail THEN s ELSE IF k = s THEN NoThread ELSE next[k]
        BY <3>2
      <4>2. next' \in [Threads -> Threads \cup {NoThread}]
        BY <3>2
      <4>3. subs.tail \in Subscribers /\ s \in Subscribers /\ Publishers \cap Subscribers = {}
        BY <3>2
      <4>4. \A k \in Publishers : next'[k] \in Publishers \cup {NoThread}
        BY <4>1, <4>3
      <4>5. \A k \in Subscribers : next'[k] \in Subscribers \cup {NoThread}
        BY <4>1, <4>3
      <4>. QED
        BY <4>2, <4>4, <4>5
    <3>. QED
      <4>1. CASE subs.tail = NoThread
        BY <1>20, <4>1, <3>1 DEF AddSub, AppendNext
      <4>2. CASE subs.tail # NoThread
        <5>1. subs.tail \in Subscribers
          BY <4>2
        <5>2. next' = [[next EXCEPT ![s] = NoThread] EXCEPT ![subs.tail] = s]
          BY <1>20, <4>2 DEF AddSub, AppendNext
        <5>. QED
          BY <5>1, <5>2, <3>2
      <4>. QED
        BY <4>1, <4>2
  <2>3. /\ listed' \subseteq Publishers \cup Subscribers
        /\ relisted' = relisted
    BY <1>20 DEF AddSub
  <2>5. missed' \in [Subscribers -> BOOLEAN]
    <3>1. missed' = [missed EXCEPT ![s] = TRUE]
      BY <1>20 DEF AddSub
    <3>. QED
      BY <3>1, Zenon
  <2>4. UNCHANGED <<op, open, lockVars, data, pubs, filled, at, signaled, age, buf>> /\ Goto(s, "release")
    BY <1>20 DEF AddSub
  <2>. QED
    BY <2>1, <2>2, <2>3, <2>4, <2>5
<1>21. ASSUME NEW s \in Subscribers, RemoveSub(s) PROVE TypeOK'
  <2>1. subs' \in [head : Subscribers \cup {NoThread}, tail : Subscribers \cup {NoThread}]
    BY <1>21, InSubsType DEF RemoveSub, RemoveHead, RemoveAfter, Before
  <2>2. /\ next' \in [Threads -> Threads \cup {NoThread}]
        /\ \A p \in Publishers : next'[p] \in Publishers \cup {NoThread}
        /\ \A k \in Subscribers : next'[k] \in Subscribers \cup {NoThread}
    <3>1. CASE next' = [next EXCEPT ![s] = NoThread]
      BY <3>1
    <3>2. ASSUME NEW q \in Subscribers, next[q] = s, next' = [next EXCEPT ![q] = next[s], ![s] = NoThread]
          PROVE  /\ next' \in [Threads -> Threads \cup {NoThread}]
                 /\ \A k \in Publishers : next'[k] \in Publishers \cup {NoThread}
                 /\ \A k \in Subscribers : next'[k] \in Subscribers \cup {NoThread}
      <4>1. \A k \in Threads : next'[k] = IF k = s THEN NoThread ELSE IF k = q THEN next[s] ELSE next[k]
        BY <3>2
      <4>2. next[s] \in Subscribers \cup {NoThread} /\ next[s] \in Threads \cup {NoThread}
        OBVIOUS
      <4>3. next' \in [Threads -> Threads \cup {NoThread}]
        BY <3>2, <4>2
      <4>4. \A k \in Publishers : next'[k] \in Publishers \cup {NoThread}
        BY <4>1, <4>2
      <4>5. \A k \in Subscribers : next'[k] \in Subscribers \cup {NoThread}
        BY <4>1, <4>2
      <4>. QED
        BY <4>3, <4>4, <4>5
    <3>3. CASE next' = next
      BY <3>3
    <3>. QED
      BY <1>21, <3>1, <3>2, <3>3, InSubsType DEF RemoveSub, Before
  <2>3. listed' \subseteq listed
    BY <1>21 DEF RemoveSub
  <2>4. UNCHANGED <<open, lockVars, data, pubs, filled, at, relisted, subVars>> /\ Goto(s, "release") /\ op' = op
    BY <1>21 DEF RemoveSub
  <2>. QED
    BY <2>1, <2>2, <2>3, <2>4
<1>22. ASSUME NEW s \in Subscribers, ReadCopy(s) PROVE TypeOK'
  BY <1>22 DEF ReadCopy
<1>23. ASSUME NEW s \in Subscribers, ReadCopied(s) PROVE TypeOK'
  BY <1>23 DEF ReadCopied
<1>24. ASSUME NEW p \in Publishers, AddPub(p) PROVE TypeOK'
  <2>1. pubs' \in [head : Publishers \cup {NoThread}, tail : Publishers \cup {NoThread}]
    BY <1>24 DEF AddPub, AppendList
  <2>2. /\ next' \in [Threads -> Threads \cup {NoThread}]
        /\ \A k \in Publishers : next'[k] \in Publishers \cup {NoThread}
        /\ \A s \in Subscribers : next'[s] \in Subscribers \cup {NoThread}
    <3>1. CASE next' = [next EXCEPT ![p] = NoThread]
      BY <3>1
    <3>2. ASSUME pubs.tail \in Publishers, next' = [[next EXCEPT ![p] = NoThread] EXCEPT ![pubs.tail] = p]
          PROVE  /\ next' \in [Threads -> Threads \cup {NoThread}]
                 /\ \A k \in Publishers : next'[k] \in Publishers \cup {NoThread}
                 /\ \A k \in Subscribers : next'[k] \in Subscribers \cup {NoThread}
      <4>1. \A k \in Threads : next'[k] = IF k = pubs.tail THEN p ELSE IF k = p THEN NoThread ELSE next[k]
        BY <3>2
      <4>2. next' \in [Threads -> Threads \cup {NoThread}]
        BY <3>2
      <4>3. pubs.tail \in Publishers /\ p \in Publishers /\ Publishers \cap Subscribers = {}
        BY <3>2
      <4>4. \A k \in Publishers : next'[k] \in Publishers \cup {NoThread}
        BY <4>1, <4>3
      <4>5. \A k \in Subscribers : next'[k] \in Subscribers \cup {NoThread}
        BY <4>1, <4>3
      <4>. QED
        BY <4>2, <4>4, <4>5
    <3>. QED
      <4>1. CASE pubs.tail = NoThread
        BY <1>24, <4>1, <3>1 DEF AddPub, AppendNext
      <4>2. CASE pubs.tail # NoThread
        <5>1. pubs.tail \in Publishers
          BY <4>2
        <5>2. next' = [[next EXCEPT ![p] = NoThread] EXCEPT ![pubs.tail] = p]
          BY <1>24, <4>2 DEF AddPub, AppendNext
        <5>. QED
          BY <5>1, <5>2, <3>2
      <4>. QED
        BY <4>1, <4>2
  <2>3. /\ listed' \subseteq Publishers \cup Subscribers
        /\ relisted' = relisted /\ missed' \in [Subscribers -> BOOLEAN]
    BY <1>24 DEF AddPub
  <2>4. UNCHANGED <<op, open, lockVars, data, subs, filled, at, subVars>> /\ Goto(p, "release")
    BY <1>24 DEF AddPub
  <2>. QED
    BY <2>1, <2>2, <2>3, <2>4
<1>25. ASSUME NEW p \in Publishers, RemovePub(p) PROVE TypeOK'
  <2>1. pubs' \in [head : Publishers \cup {NoThread}, tail : Publishers \cup {NoThread}]
    BY <1>25, InPubsType DEF RemovePub, RemoveHead, RemoveAfter, Before
  <2>2. /\ next' \in [Threads -> Threads \cup {NoThread}]
        /\ \A k \in Publishers : next'[k] \in Publishers \cup {NoThread}
        /\ \A s \in Subscribers : next'[s] \in Subscribers \cup {NoThread}
    <3>1. CASE next' = [next EXCEPT ![p] = NoThread]
      BY <3>1
    <3>2. ASSUME NEW q \in Publishers, next[q] = p, next' = [next EXCEPT ![q] = next[p], ![p] = NoThread]
          PROVE  /\ next' \in [Threads -> Threads \cup {NoThread}]
                 /\ \A k \in Publishers : next'[k] \in Publishers \cup {NoThread}
                 /\ \A k \in Subscribers : next'[k] \in Subscribers \cup {NoThread}
      <4>1. \A k \in Threads : next'[k] = IF k = p THEN NoThread ELSE IF k = q THEN next[p] ELSE next[k]
        BY <3>2
      <4>2. next[p] \in Publishers \cup {NoThread} /\ next[p] \in Threads \cup {NoThread}
        OBVIOUS
      <4>3. next' \in [Threads -> Threads \cup {NoThread}]
        BY <3>2, <4>2
      <4>4. \A k \in Publishers : next'[k] \in Publishers \cup {NoThread}
        BY <4>1, <4>2
      <4>5. \A k \in Subscribers : next'[k] \in Subscribers \cup {NoThread}
        BY <4>1, <4>2
      <4>. QED
        BY <4>3, <4>4, <4>5
    <3>3. CASE next' = next
      BY <3>3
    <3>. QED
      BY <1>25, <3>1, <3>2, <3>3, InPubsType DEF RemovePub, Before
  <2>3. listed' \subseteq listed
    BY <1>25 DEF RemovePub
  <2>4. UNCHANGED <<open, lockVars, data, subs, filled, at, relisted, subVars>> /\ Goto(p, "release") /\ op' = op
    BY <1>25 DEF RemovePub
  <2>. QED
    BY <2>1, <2>2, <2>3, <2>4
<1>26. ASSUME NEW p \in Publishers, PublishCopy(p) PROVE TypeOK'
  BY <1>26 DEF PublishCopy
<1>27. ASSUME NEW p \in Publishers, PublishCopied(p) PROVE TypeOK'
  BY <1>27 DEF PublishCopied
<1>28. ASSUME NEW p \in Publishers, NEW s \in Subscribers, NotifySub(p, s) PROVE TypeOK'
  <2>1. signaled' \in [Subscribers -> BOOLEAN] /\ missed' \in [Subscribers -> BOOLEAN]
    BY <1>28, ZenonT(60) DEF NotifySub
  <2>2. age' \in [Subscribers -> Nat]
    <3>1. age' = age \/ age' = [age EXCEPT ![s] = 0]
      BY <1>28 DEF NotifySub
    <3>. QED
      BY <3>1
  <2>3. /\ at' \in [Threads -> Threads \cup {NoThread}]
        /\ \A q \in Publishers : pc[q] = "notify" => at'[q] \in Subscribers \cup {NoThread}
    BY <1>28 DEF NotifySub
  <2>. QED
    BY <1>28, <2>1, <2>2, <2>3 DEF NotifySub
<1>29. ASSUME NEW p \in Publishers, PublishDone(p) PROVE TypeOK'
  BY <1>29 DEF PublishDone
<1>30. ASSUME NEW t \in Shells, NEW e \in Threads, IterateStep(t, e) PROVE TypeOK'
  BY <1>30 DEF IterateStep
<1>31. ASSUME NEW t \in Shells, IterateDone(t) PROVE TypeOK'
  BY <1>31 DEF IterateDone
<1>33. ASSUME NEW t \in Publishers \cup Subscribers, InitGivesUp(t) PROVE TypeOK'
  BY <1>33 DEF InitGivesUp
<1>32. CASE UNCHANGED vars
  BY <1>32 DEF vars
<1>. QED
  BY <1>1, <1>2, <1>3, <1>4, <1>5, <1>6, <1>7, <1>8, <1>9, <1>10, <1>11, <1>12, <1>13, <1>14, <1>15, <1>16, <1>17, <1>18, <1>19, <1>20, <1>21, <1>22, <1>23, <1>24, <1>25, <1>26, <1>27, <1>28, <1>29, <1>30, <1>31, <1>32, <1>33
  DEF Next, Call, LockStep, PublisherStep, SubscriberStep, ShellStep

LEMMA NextPermitsConserved ==
  ASSUME TypeOK, HoldsWhatItNeeds, PermitsConserved, [Next]_vars
  PROVE  PermitsConserved'
<1>. USE ZrosTopicAssumption
     DEF TypeOK, HoldsWhatItNeeds, PermitsConserved, Threads, Locking, Writing, Reading,
         lockVars, listVars, linkVars, subVars, Goto, Start, Return, Enlist, Strike, ResetNext
<1>1. ASSUME NEW p \in Publishers, PubInit(p) PROVE PermitsConserved'
  BY <1>1 DEF PubInit
<1>2. ASSUME NEW p \in Publishers, PubUpdate(p) PROVE PermitsConserved'
  BY <1>2 DEF PubUpdate
<1>3. ASSUME NEW p \in Publishers, PubFini(p) PROVE PermitsConserved'
  BY <1>3 DEF PubFini
<1>4. ASSUME NEW s \in Subscribers, SubInit(s) PROVE PermitsConserved'
  BY <1>4 DEF SubInit
<1>5. ASSUME NEW s \in Subscribers, SubFini(s) PROVE PermitsConserved'
  BY <1>5 DEF SubFini
<1>6. ASSUME NEW s \in Subscribers, SubCheck(s) PROVE PermitsConserved'
  BY <1>6 DEF SubCheck
<1>7. ASSUME NEW s \in Subscribers, SubClear(s) PROVE PermitsConserved'
  BY <1>7 DEF SubClear
<1>8. ASSUME NEW t \in Shells, Iterate(t) PROVE PermitsConserved'
  BY <1>8 DEF Iterate
<1>9. CASE Tick
  BY <1>9 DEF Tick
<1>10. ASSUME NEW t \in Threads, WriteLock(t) PROVE PermitsConserved'
  BY <1>10 DEF WriteLock
<1>11. ASSUME NEW t \in Threads, WriteLockTimeout(t) PROVE PermitsConserved'
  BY <1>11 DEF WriteLockTimeout
<1>12. ASSUME NEW t \in Threads, TakeRead(t) PROVE PermitsConserved'
  BY <1>12 DEF TakeRead
<1>13. ASSUME NEW t \in Threads, TakeReadTimeout(t) PROVE PermitsConserved'
  BY <1>13 DEF TakeReadTimeout
<1>14. ASSUME NEW t \in Threads, GiveRead(t) PROVE PermitsConserved'
  BY <1>14 DEF GiveRead
<1>15. ASSUME NEW t \in Threads, RollbackReturn(t) PROVE PermitsConserved'
  BY <1>15 DEF RollbackReturn
<1>16. ASSUME NEW t \in Threads, WriteUnlock(t) PROVE PermitsConserved'
  BY <1>16 DEF WriteUnlock
<1>17. ASSUME NEW t \in Threads, ReadLock(t) PROVE PermitsConserved'
  BY <1>17 DEF ReadLock, StartOf
<1>18. ASSUME NEW t \in Threads, ReadLockTimeout(t) PROVE PermitsConserved'
  BY <1>18 DEF ReadLockTimeout
<1>19. ASSUME NEW t \in Threads, ReadUnlock(t) PROVE PermitsConserved'
  BY <1>19 DEF ReadUnlock
<1>20. ASSUME NEW s \in Subscribers, AddSub(s) PROVE PermitsConserved'
  BY <1>20 DEF AddSub
<1>21. ASSUME NEW s \in Subscribers, RemoveSub(s) PROVE PermitsConserved'
  BY <1>21 DEF RemoveSub
<1>22. ASSUME NEW s \in Subscribers, ReadCopy(s) PROVE PermitsConserved'
  BY <1>22 DEF ReadCopy
<1>23. ASSUME NEW s \in Subscribers, ReadCopied(s) PROVE PermitsConserved'
  BY <1>23 DEF ReadCopied
<1>24. ASSUME NEW p \in Publishers, AddPub(p) PROVE PermitsConserved'
  BY <1>24 DEF AddPub
<1>25. ASSUME NEW p \in Publishers, RemovePub(p) PROVE PermitsConserved'
  BY <1>25 DEF RemovePub
<1>26. ASSUME NEW p \in Publishers, PublishCopy(p) PROVE PermitsConserved'
  BY <1>26 DEF PublishCopy
<1>27. ASSUME NEW p \in Publishers, PublishCopied(p) PROVE PermitsConserved'
  BY <1>27 DEF PublishCopied
<1>28. ASSUME NEW p \in Publishers, NEW s \in Subscribers, NotifySub(p, s) PROVE PermitsConserved'
  BY <1>28 DEF NotifySub
<1>29. ASSUME NEW p \in Publishers, PublishDone(p) PROVE PermitsConserved'
  BY <1>29 DEF PublishDone
<1>30. ASSUME NEW t \in Shells, NEW e \in Threads, IterateStep(t, e) PROVE PermitsConserved'
  BY <1>30 DEF IterateStep
<1>31. ASSUME NEW t \in Shells, IterateDone(t) PROVE PermitsConserved'
  BY <1>31 DEF IterateDone
<1>33. ASSUME NEW t \in Publishers \cup Subscribers, InitGivesUp(t) PROVE PermitsConserved'
  BY <1>33 DEF InitGivesUp
<1>32. CASE UNCHANGED vars
  BY <1>32 DEF vars
<1>. QED
  BY <1>1, <1>2, <1>3, <1>4, <1>5, <1>6, <1>7, <1>8, <1>9, <1>10, <1>11, <1>12, <1>13, <1>14, <1>15, <1>16, <1>17, <1>18, <1>19, <1>20, <1>21, <1>22, <1>23, <1>24, <1>25, <1>26, <1>27, <1>28, <1>29, <1>30, <1>31, <1>32, <1>33
  DEF Next, Call, LockStep, PublisherStep, SubscriberStep, ShellStep

LEMMA NextHoldsWhatItNeeds ==
  ASSUME TypeOK, PermitsConserved, HoldsWhatItNeeds, [Next]_vars
  PROVE  HoldsWhatItNeeds'
<1>. USE ZrosTopicAssumption
     DEF TypeOK, PermitsConserved, HoldsWhatItNeeds, Threads, Locking, Writing, Reading,
         lockVars, listVars, linkVars, subVars, Goto, Start, Return, Enlist, Strike, ResetNext
<1>1. ASSUME NEW p \in Publishers, PubInit(p) PROVE HoldsWhatItNeeds'
  BY <1>1 DEF PubInit
<1>2. ASSUME NEW p \in Publishers, PubUpdate(p) PROVE HoldsWhatItNeeds'
  BY <1>2 DEF PubUpdate
<1>3. ASSUME NEW p \in Publishers, PubFini(p) PROVE HoldsWhatItNeeds'
  BY <1>3 DEF PubFini
<1>4. ASSUME NEW s \in Subscribers, SubInit(s) PROVE HoldsWhatItNeeds'
  BY <1>4 DEF SubInit
<1>5. ASSUME NEW s \in Subscribers, SubFini(s) PROVE HoldsWhatItNeeds'
  BY <1>5 DEF SubFini
<1>6. ASSUME NEW s \in Subscribers, SubCheck(s) PROVE HoldsWhatItNeeds'
  BY <1>6 DEF SubCheck
<1>7. ASSUME NEW s \in Subscribers, SubClear(s) PROVE HoldsWhatItNeeds'
  BY <1>7 DEF SubClear
<1>8. ASSUME NEW t \in Shells, Iterate(t) PROVE HoldsWhatItNeeds'
  BY <1>8 DEF Iterate
<1>9. CASE Tick
  BY <1>9 DEF Tick
<1>10. ASSUME NEW t \in Threads, WriteLock(t) PROVE HoldsWhatItNeeds'
  BY <1>10 DEF WriteLock
<1>11. ASSUME NEW t \in Threads, WriteLockTimeout(t) PROVE HoldsWhatItNeeds'
  BY <1>11 DEF WriteLockTimeout
<1>12. ASSUME NEW t \in Threads, TakeRead(t) PROVE HoldsWhatItNeeds'
  BY <1>12 DEF TakeRead
<1>13. ASSUME NEW t \in Threads, TakeReadTimeout(t) PROVE HoldsWhatItNeeds'
  BY <1>13 DEF TakeReadTimeout
<1>14. ASSUME NEW t \in Threads, GiveRead(t) PROVE HoldsWhatItNeeds'
  BY <1>14 DEF GiveRead
<1>15. ASSUME NEW t \in Threads, RollbackReturn(t) PROVE HoldsWhatItNeeds'
  BY <1>15 DEF RollbackReturn
<1>16. ASSUME NEW t \in Threads, WriteUnlock(t) PROVE HoldsWhatItNeeds'
  BY <1>16 DEF WriteUnlock
<1>17. ASSUME NEW t \in Threads, ReadLock(t) PROVE HoldsWhatItNeeds'
  BY <1>17 DEF ReadLock, StartOf
<1>18. ASSUME NEW t \in Threads, ReadLockTimeout(t) PROVE HoldsWhatItNeeds'
  BY <1>18 DEF ReadLockTimeout
<1>19. ASSUME NEW t \in Threads, ReadUnlock(t) PROVE HoldsWhatItNeeds'
  BY <1>19 DEF ReadUnlock
<1>20. ASSUME NEW s \in Subscribers, AddSub(s) PROVE HoldsWhatItNeeds'
  BY <1>20 DEF AddSub
<1>21. ASSUME NEW s \in Subscribers, RemoveSub(s) PROVE HoldsWhatItNeeds'
  BY <1>21 DEF RemoveSub
<1>22. ASSUME NEW s \in Subscribers, ReadCopy(s) PROVE HoldsWhatItNeeds'
  BY <1>22 DEF ReadCopy
<1>23. ASSUME NEW s \in Subscribers, ReadCopied(s) PROVE HoldsWhatItNeeds'
  BY <1>23 DEF ReadCopied
<1>24. ASSUME NEW p \in Publishers, AddPub(p) PROVE HoldsWhatItNeeds'
  BY <1>24 DEF AddPub
<1>25. ASSUME NEW p \in Publishers, RemovePub(p) PROVE HoldsWhatItNeeds'
  BY <1>25 DEF RemovePub
<1>26. ASSUME NEW p \in Publishers, PublishCopy(p) PROVE HoldsWhatItNeeds'
  BY <1>26 DEF PublishCopy
<1>27. ASSUME NEW p \in Publishers, PublishCopied(p) PROVE HoldsWhatItNeeds'
  BY <1>27 DEF PublishCopied
<1>28. ASSUME NEW p \in Publishers, NEW s \in Subscribers, NotifySub(p, s) PROVE HoldsWhatItNeeds'
  BY <1>28 DEF NotifySub
<1>29. ASSUME NEW p \in Publishers, PublishDone(p) PROVE HoldsWhatItNeeds'
  BY <1>29 DEF PublishDone
<1>30. ASSUME NEW t \in Shells, NEW e \in Threads, IterateStep(t, e) PROVE HoldsWhatItNeeds'
  BY <1>30 DEF IterateStep
<1>31. ASSUME NEW t \in Shells, IterateDone(t) PROVE HoldsWhatItNeeds'
  BY <1>31 DEF IterateDone
<1>33. ASSUME NEW t \in Publishers \cup Subscribers, InitGivesUp(t) PROVE HoldsWhatItNeeds'
  BY <1>33 DEF InitGivesUp
<1>32. CASE UNCHANGED vars
  BY <1>32 DEF vars
<1>. QED
  BY <1>1, <1>2, <1>3, <1>4, <1>5, <1>6, <1>7, <1>8, <1>9, <1>10, <1>11, <1>12, <1>13, <1>14, <1>15, <1>16, <1>17, <1>18, <1>19, <1>20, <1>21, <1>22, <1>23, <1>24, <1>25, <1>26, <1>27, <1>28, <1>29, <1>30, <1>31, <1>32, <1>33
  DEF Next, Call, LockStep, PublisherStep, SubscriberStep, ShellStep

\* Two threads cannot both hold every permit, nor one hold them all while
\* another holds one: the permits alone keep a writer alone.
LEMMA LockInvWriterAlone == LockInv => WriterAlone
<1>. SUFFICES ASSUME LockInv, NEW t \in Threads, NEW u \in Threads,
                     pc[t] \in Writing, t # u
              PROVE  pc[u] \notin Writing \cup Reading
  BY DEF WriterAlone
<1>1. held[t] = Permits /\ held[u] \subseteq Permits /\ held[t] \cap held[u] = {}
  BY DEF LockInv, TypeOK, PermitsConserved, HoldsWhatItNeeds
<1>2. held[u] = {} /\ held[u] # Permits
  BY <1>1, ZrosTopicAssumption
<1>. QED
  BY <1>2 DEF LockInv, HoldsWhatItNeeds

LEMMA NextDataAgrees ==
  ASSUME TypeOK, WriterAlone, DataAgrees, [Next]_vars
  PROVE  DataAgrees'
<1>. USE ZrosTopicAssumption
     DEF TypeOK, WriterAlone, DataAgrees, NoTornRead, Threads, Locking, Writing, Reading,
         lockVars, listVars, linkVars, subVars, Goto, Start, Return, Enlist, Strike, ResetNext
<1>1. ASSUME NEW p \in Publishers, PubInit(p) PROVE DataAgrees'
  BY <1>1 DEF PubInit
<1>2. ASSUME NEW p \in Publishers, PubUpdate(p) PROVE DataAgrees'
  BY <1>2 DEF PubUpdate
<1>3. ASSUME NEW p \in Publishers, PubFini(p) PROVE DataAgrees'
  BY <1>3 DEF PubFini
<1>4. ASSUME NEW s \in Subscribers, SubInit(s) PROVE DataAgrees'
  BY <1>4 DEF SubInit
<1>5. ASSUME NEW s \in Subscribers, SubFini(s) PROVE DataAgrees'
  BY <1>5 DEF SubFini
<1>6. ASSUME NEW s \in Subscribers, SubCheck(s) PROVE DataAgrees'
  BY <1>6 DEF SubCheck
<1>7. ASSUME NEW s \in Subscribers, SubClear(s) PROVE DataAgrees'
  BY <1>7 DEF SubClear
<1>8. ASSUME NEW t \in Shells, Iterate(t) PROVE DataAgrees'
  BY <1>8 DEF Iterate
<1>9. CASE Tick
  BY <1>9 DEF Tick
<1>10. ASSUME NEW t \in Threads, WriteLock(t) PROVE DataAgrees'
  BY <1>10 DEF WriteLock
<1>11. ASSUME NEW t \in Threads, WriteLockTimeout(t) PROVE DataAgrees'
  BY <1>11 DEF WriteLockTimeout
<1>12. ASSUME NEW t \in Threads, TakeRead(t) PROVE DataAgrees'
  BY <1>12 DEF TakeRead
<1>13. ASSUME NEW t \in Threads, TakeReadTimeout(t) PROVE DataAgrees'
  BY <1>13 DEF TakeReadTimeout
<1>14. ASSUME NEW t \in Threads, GiveRead(t) PROVE DataAgrees'
  BY <1>14 DEF GiveRead
<1>15. ASSUME NEW t \in Threads, RollbackReturn(t) PROVE DataAgrees'
  BY <1>15 DEF RollbackReturn
<1>16. ASSUME NEW t \in Threads, WriteUnlock(t) PROVE DataAgrees'
  BY <1>16 DEF WriteUnlock
<1>17. ASSUME NEW t \in Threads, ReadLock(t) PROVE DataAgrees'
  BY <1>17 DEF ReadLock, StartOf
<1>18. ASSUME NEW t \in Threads, ReadLockTimeout(t) PROVE DataAgrees'
  BY <1>18 DEF ReadLockTimeout
<1>19. ASSUME NEW t \in Threads, ReadUnlock(t) PROVE DataAgrees'
  BY <1>19 DEF ReadUnlock
<1>20. ASSUME NEW s \in Subscribers, AddSub(s) PROVE DataAgrees'
  BY <1>20 DEF AddSub
<1>21. ASSUME NEW s \in Subscribers, RemoveSub(s) PROVE DataAgrees'
  BY <1>21 DEF RemoveSub
<1>22. ASSUME NEW s \in Subscribers, ReadCopy(s) PROVE DataAgrees'
  BY <1>22 DEF ReadCopy
<1>23. ASSUME NEW s \in Subscribers, ReadCopied(s) PROVE DataAgrees'
  BY <1>23 DEF ReadCopied
<1>24. ASSUME NEW p \in Publishers, AddPub(p) PROVE DataAgrees'
  BY <1>24 DEF AddPub
<1>25. ASSUME NEW p \in Publishers, RemovePub(p) PROVE DataAgrees'
  BY <1>25 DEF RemovePub
<1>26. ASSUME NEW p \in Publishers, PublishCopy(p) PROVE DataAgrees'
  BY <1>26 DEF PublishCopy
<1>27. ASSUME NEW p \in Publishers, PublishCopied(p) PROVE DataAgrees'
  BY <1>27 DEF PublishCopied
<1>28. ASSUME NEW p \in Publishers, NEW s \in Subscribers, NotifySub(p, s) PROVE DataAgrees'
  BY <1>28 DEF NotifySub
<1>29. ASSUME NEW p \in Publishers, PublishDone(p) PROVE DataAgrees'
  BY <1>29 DEF PublishDone
<1>30. ASSUME NEW t \in Shells, NEW e \in Threads, IterateStep(t, e) PROVE DataAgrees'
  BY <1>30 DEF IterateStep
<1>31. ASSUME NEW t \in Shells, IterateDone(t) PROVE DataAgrees'
  BY <1>31 DEF IterateDone
<1>33. ASSUME NEW t \in Publishers \cup Subscribers, InitGivesUp(t) PROVE DataAgrees'
  BY <1>33 DEF InitGivesUp
<1>32. CASE UNCHANGED vars
  BY <1>32 DEF vars
<1>. QED
  BY <1>1, <1>2, <1>3, <1>4, <1>5, <1>6, <1>7, <1>8, <1>9, <1>10, <1>11, <1>12, <1>13, <1>14, <1>15, <1>16, <1>17, <1>18, <1>19, <1>20, <1>21, <1>22, <1>23, <1>24, <1>25, <1>26, <1>27, <1>28, <1>29, <1>30, <1>31, <1>32, <1>33
  DEF Next, Call, LockStep, PublisherStep, SubscriberStep, ShellStep

\* The walks along a list, and the threads on the way to append an element.
Walk       == {"notify", "iterate"}
Joining(t) == op[t] \in {"add_pub", "add_sub"} /\ pc[t] \in {"wlock", "take", "crit"}

\* Most steps leave the lists alone, and move a walk only along them.
Quiet ==
  /\ UNCHANGED linkVars
  /\ \A t \in Threads : Joining(t)' => Joining(t)
  /\ \A t \in Threads :
       pc'[t] \in Walk =>
         \/ pc[t] \in Walk /\ at'[t] = at[t]
         \/ at'[t] \in {pubs.head, subs.head, NoThread}
         \/ pc[t] \in Walk /\ at[t] \in Threads /\ at'[t] = next[at[t]]

\* The others are these.
ListStep ==
  \/ \E p \in Publishers : PubInit(p) \/ AddPub(p) \/ RemovePub(p)
  \/ \E s \in Subscribers : SubInit(s) \/ AddSub(s) \/ RemoveSub(s)

LEMMA NextLists ==
  ASSUME TypeOK, [Next]_vars
  PROVE  Quiet \/ ListStep
<1>. USE ZrosTopicAssumption
     DEF TypeOK, Threads, Walk, Joining, lockVars, listVars, linkVars, subVars, Goto, Start, Return
<1>1. ASSUME NEW p \in Publishers, PubInit(p) PROVE Quiet \/ ListStep
  BY <1>1 DEF ListStep
<1>2. ASSUME NEW p \in Publishers, PubUpdate(p) PROVE Quiet \/ ListStep
  BY <1>2 DEF PubUpdate, Quiet
<1>3. ASSUME NEW p \in Publishers, PubFini(p) PROVE Quiet \/ ListStep
  BY <1>3 DEF PubFini, Quiet
<1>4. ASSUME NEW s \in Subscribers, SubInit(s) PROVE Quiet \/ ListStep
  BY <1>4 DEF ListStep
<1>5. ASSUME NEW s \in Subscribers, SubFini(s) PROVE Quiet \/ ListStep
  BY <1>5 DEF SubFini, Quiet
<1>6. ASSUME NEW s \in Subscribers, SubCheck(s) PROVE Quiet \/ ListStep
  BY <1>6 DEF SubCheck, Quiet
<1>7. ASSUME NEW s \in Subscribers, SubClear(s) PROVE Quiet \/ ListStep
  BY <1>7 DEF SubClear, Quiet
<1>8. ASSUME NEW t \in Shells, Iterate(t) PROVE Quiet \/ ListStep
  BY <1>8 DEF Iterate, Quiet
<1>9. CASE Tick
  BY <1>9 DEF Tick, Quiet
<1>10. ASSUME NEW t \in Threads, WriteLock(t) PROVE Quiet \/ ListStep
  BY <1>10 DEF WriteLock, Quiet
<1>11. ASSUME NEW t \in Threads, WriteLockTimeout(t) PROVE Quiet \/ ListStep
  BY <1>11 DEF WriteLockTimeout, Quiet
<1>12. ASSUME NEW t \in Threads, TakeRead(t) PROVE Quiet \/ ListStep
  BY <1>12 DEF TakeRead, Quiet
<1>13. ASSUME NEW t \in Threads, TakeReadTimeout(t) PROVE Quiet \/ ListStep
  BY <1>13 DEF TakeReadTimeout, Quiet
<1>14. ASSUME NEW t \in Threads, GiveRead(t) PROVE Quiet \/ ListStep
  BY <1>14 DEF GiveRead, Quiet
<1>15. ASSUME NEW t \in Threads, RollbackReturn(t) PROVE Quiet \/ ListStep
  BY <1>15 DEF RollbackReturn, Quiet
<1>16. ASSUME NEW t \in Threads, WriteUnlock(t) PROVE Quiet \/ ListStep
  BY <1>16 DEF WriteUnlock, Quiet
<1>17. ASSUME NEW t \in Threads, ReadLock(t) PROVE Quiet \/ ListStep
  BY <1>17 DEF ReadLock, StartOf, Quiet
<1>18. ASSUME NEW t \in Threads, ReadLockTimeout(t) PROVE Quiet \/ ListStep
  BY <1>18 DEF ReadLockTimeout, Quiet
<1>19. ASSUME NEW t \in Threads, ReadUnlock(t) PROVE Quiet \/ ListStep
  BY <1>19 DEF ReadUnlock, Quiet
<1>20. ASSUME NEW s \in Subscribers, AddSub(s) PROVE Quiet \/ ListStep
  BY <1>20 DEF ListStep
<1>21. ASSUME NEW s \in Subscribers, RemoveSub(s) PROVE Quiet \/ ListStep
  BY <1>21 DEF ListStep
<1>22. ASSUME NEW s \in Subscribers, ReadCopy(s) PROVE Quiet \/ ListStep
  BY <1>22 DEF ReadCopy, Quiet
<1>23. ASSUME NEW s \in Subscribers, ReadCopied(s) PROVE Quiet \/ ListStep
  BY <1>23 DEF ReadCopied, Quiet
<1>24. ASSUME NEW p \in Publishers, AddPub(p) PROVE Quiet \/ ListStep
  BY <1>24 DEF ListStep
<1>25. ASSUME NEW p \in Publishers, RemovePub(p) PROVE Quiet \/ ListStep
  BY <1>25 DEF ListStep
<1>26. ASSUME NEW p \in Publishers, PublishCopy(p) PROVE Quiet \/ ListStep
  BY <1>26 DEF PublishCopy, Quiet
<1>27. ASSUME NEW p \in Publishers, PublishCopied(p) PROVE Quiet \/ ListStep
  BY <1>27 DEF PublishCopied, Quiet
<1>28. ASSUME NEW p \in Publishers, NEW s \in Subscribers, NotifySub(p, s) PROVE Quiet \/ ListStep
  BY <1>28 DEF NotifySub, Quiet
<1>29. ASSUME NEW p \in Publishers, PublishDone(p) PROVE Quiet \/ ListStep
  BY <1>29 DEF PublishDone, Quiet
<1>30. ASSUME NEW t \in Shells, NEW e \in Threads, IterateStep(t, e) PROVE Quiet \/ ListStep
  BY <1>30 DEF IterateStep, Quiet
<1>31. ASSUME NEW t \in Shells, IterateDone(t) PROVE Quiet \/ ListStep
  BY <1>31 DEF IterateDone, Quiet
<1>33. ASSUME NEW t \in Publishers \cup Subscribers, InitGivesUp(t) PROVE Quiet \/ ListStep
  BY <1>33 DEF InitGivesUp, Quiet
<1>32. CASE UNCHANGED vars
  BY <1>32 DEF vars, Quiet
<1>. QED
  BY <1>1, <1>2, <1>3, <1>4, <1>5, <1>6, <1>7, <1>8, <1>9, <1>10, <1>11, <1>12, <1>13, <1>14, <1>15, <1>16, <1>17, <1>18, <1>19, <1>20, <1>21, <1>22, <1>23, <1>24, <1>25, <1>26, <1>27, <1>28, <1>29, <1>30, <1>31, <1>32, <1>33
  DEF Next, Call, LockStep, PublisherStep, SubscriberStep, ShellStep

\* A walk comes to nothing but what was appended.
LEMMA InPubsListed == TypeOK /\ ListsAgree /\ ~relisted => InPubs \subseteq listed
<1>. SUFFICES ASSUME TypeOK, ListsAgree, ~relisted PROVE InPubs \subseteq listed
  OBVIOUS
<1>. DEFINE S == (listed \cap Publishers) \cup {NoThread}
<1>1. pubs.head \in S /\ \A e \in S \ {NoThread} : next[e] \in S
  BY DEF TypeOK, ListsAgree
<1>2. Chain(next, Publishers, pubs.head) \subseteq S
  BY <1>1, ChainLeast
<1>. QED
  BY <1>2 DEF InPubs

LEMMA InSubsListed == TypeOK /\ ListsAgree /\ ~relisted => InSubs \subseteq listed
<1>. SUFFICES ASSUME TypeOK, ListsAgree, ~relisted PROVE InSubs \subseteq listed
  OBVIOUS
<1>. DEFINE S == (listed \cap Subscribers) \cup {NoThread}
<1>1. subs.head \in S /\ \A e \in S \ {NoThread} : next[e] \in S
  BY DEF TypeOK, ListsAgree
<1>2. Chain(next, Subscribers, subs.head) \subseteq S
  BY <1>1, ChainLeast
<1>. QED
  BY <1>2 DEF InSubs

LEMMA NextListsAgree ==
  ASSUME TypeOK, ListsAgree, JoinersAreNew, [Next]_vars
  PROVE  ListsAgree'
<1>. SUFFICES ASSUME ~relisted' PROVE ListsAgree'
  BY DEF ListsAgree
<1>1. ~relisted
  BY NextLists DEF Quiet, ListStep, linkVars, PubInit, AddPub, RemovePub, SubInit, AddSub, RemoveSub,
                   ResetNext, Enlist
<1>2. CASE Quiet
  BY <1>2 DEF Quiet, linkVars, ListsAgree
<1>3. ASSUME NEW p \in Publishers, PubInit(p) PROVE ListsAgree'
  BY <1>1, <1>3 DEF PubInit, ResetNext, ListsAgree, TypeOK, Threads
<1>4. ASSUME NEW s \in Subscribers, SubInit(s) PROVE ListsAgree'
  BY <1>1, <1>4 DEF SubInit, ResetNext, ListsAgree, TypeOK, Threads
<1>5. ASSUME NEW p \in Publishers, AddPub(p) PROVE ListsAgree'
  <2>1. p \notin listed /\ p # NoThread /\ p # subs.head
    BY <1>1, <1>5, ZrosTopicAssumption DEF AddPub, JoinersAreNew, TypeOK, Threads
  <2>2. /\ listed' = listed \cup {p} /\ subs' = subs
        /\ pubs'.head = (IF pubs.tail = NoThread THEN p ELSE pubs.head)
    BY <1>1, <1>5 DEF AddPub, Enlist, AppendList
  <2>3. /\ \A y \in listed : next'[y] = IF y = pubs.tail THEN p ELSE next[y]
        /\ next'[p] = IF p = pubs.tail THEN p ELSE NoThread
    BY <1>5, <2>1, ZrosTopicAssumption DEF AddPub, AppendNext, TypeOK, Threads
  <2>4. \A y \in listed : y # NoThread /\ next[y] # p
    BY <1>1, <2>1, ZrosTopicAssumption DEF ListsAgree, TypeOK, Threads
  <2>5. pubs'.head \in listed' \cup {NoThread} /\ subs'.head \in listed' \cup {NoThread}
    BY <1>1, <2>2 DEF ListsAgree
  <2>6. \A y \in listed' : next'[y] \in listed' \cup {NoThread}
    BY <1>1, <2>2, <2>3 DEF ListsAgree
  <2>7. \A y \in listed' : next'[y] # NoThread => next'[y] \notin {pubs'.head, subs'.head}
    BY <1>1, <2>1, <2>2, <2>3, <2>4 DEF ListsAgree
  <2>8. \A y, z \in listed' : next'[y] = next'[z] /\ next'[y] # NoThread => y = z
    BY <1>1, <2>1, <2>2, <2>3, <2>4 DEF ListsAgree
  <2>. QED
    BY <2>5, <2>6, <2>7, <2>8 DEF ListsAgree
<1>6. ASSUME NEW s \in Subscribers, AddSub(s) PROVE ListsAgree'
  <2>1. s \notin listed /\ s # NoThread /\ s # pubs.head
    BY <1>1, <1>6, ZrosTopicAssumption DEF AddSub, JoinersAreNew, TypeOK, Threads
  <2>2. /\ listed' = listed \cup {s} /\ pubs' = pubs
        /\ subs'.head = (IF subs.tail = NoThread THEN s ELSE subs.head)
    BY <1>1, <1>6 DEF AddSub, Enlist, AppendList
  <2>3. /\ \A y \in listed : next'[y] = IF y = subs.tail THEN s ELSE next[y]
        /\ next'[s] = IF s = subs.tail THEN s ELSE NoThread
    BY <1>6, <2>1, ZrosTopicAssumption DEF AddSub, AppendNext, TypeOK, Threads
  <2>4. \A y \in listed : y # NoThread /\ next[y] # s
    BY <1>1, <2>1, ZrosTopicAssumption DEF ListsAgree, TypeOK, Threads
  <2>5. subs'.head \in listed' \cup {NoThread} /\ pubs'.head \in listed' \cup {NoThread}
    BY <1>1, <2>2 DEF ListsAgree
  <2>6. \A y \in listed' : next'[y] \in listed' \cup {NoThread}
    BY <1>1, <2>2, <2>3 DEF ListsAgree
  <2>7. \A y \in listed' : next'[y] # NoThread => next'[y] \notin {pubs'.head, subs'.head}
    BY <1>1, <2>1, <2>2, <2>3, <2>4 DEF ListsAgree
  <2>8. \A y, z \in listed' : next'[y] = next'[z] /\ next'[y] # NoThread => y = z
    BY <1>1, <2>1, <2>2, <2>3, <2>4 DEF ListsAgree
  <2>. QED
    BY <2>5, <2>6, <2>7, <2>8 DEF ListsAgree
<1>7. ASSUME NEW p \in Publishers, RemovePub(p) PROVE ListsAgree'
  <2>1. p # NoThread /\ subs' = subs /\ p # subs.head /\ relisted' = relisted
    BY <1>7, ZrosTopicAssumption DEF RemovePub, TypeOK, Threads
  <2>2. /\ \A y \in Publishers : next[y] \in Publishers \cup {NoThread}
        /\ subs.head \notin Publishers
    BY ZrosTopicAssumption DEF TypeOK, Threads
  <2>3. CASE pubs.head = p
    <3>. p \in InPubs
      BY <2>1, <2>3, ChainSelf DEF InPubs
    <3>1. next' = [next EXCEPT ![p] = NoThread] /\ listed' = listed \ {p} /\ pubs'.head = next[p]
      BY <1>7, <2>3 DEF RemovePub, RemoveHead, Strike
    <3>2. \A y \in listed' : next'[y] = next[y]
      BY <3>1, ZrosTopicAssumption DEF TypeOK, Threads
    <3>3. p \in listed /\ next[p] # p
      BY <1>1, <2>1, <2>3 DEF ListsAgree
    <3>4. pubs'.head \in listed' \cup {NoThread} /\ subs'.head \in listed' \cup {NoThread}
      BY <1>1, <2>1, <3>1, <3>3 DEF ListsAgree
    <3>5. \A y \in listed' : next'[y] \in listed' \cup {NoThread}
      BY <1>1, <2>1, <2>3, <3>1, <3>2 DEF ListsAgree
    <3>6. \A y \in listed' : next'[y] # NoThread => next'[y] \notin {pubs'.head, subs'.head}
      BY <1>1, <2>1, <3>1, <3>2, <3>3 DEF ListsAgree
    <3>7. \A y, z \in listed' : next'[y] = next'[z] /\ next'[y] # NoThread => y = z
      BY <1>1, <3>1, <3>2 DEF ListsAgree
    <3>. QED
      BY <3>4, <3>5, <3>6, <3>7 DEF ListsAgree
  <2>4. ASSUME NEW q \in Before(InPubs, p), pubs.head # p,
               pubs' = RemoveAfter(pubs, q, p), next' = [next EXCEPT ![q] = next[p], ![p] = NoThread],
               Strike(p)
        PROVE  ListsAgree'
    <3>1. q \in listed /\ q # p /\ next[q] = p /\ q \in Publishers
      BY <1>1, <2>4, InPubsListed, InPubsType DEF Before
    <3>2. p \in listed /\ listed' = listed \ {p} /\ pubs'.head = pubs.head
      BY <1>1, <2>1, <2>4, <3>1 DEF RemoveAfter, Strike, ListsAgree, TypeOK
    <3>3. \A y \in listed' : next'[y] = IF y = q THEN next[p] ELSE next[y]
      BY <2>4, <3>1, <3>2, ZrosTopicAssumption DEF TypeOK, Threads
    <3>4. next[p] # p
      BY <1>1, <2>1, <3>1, <3>2 DEF ListsAgree
    <3>5. pubs'.head \in listed' \cup {NoThread} /\ subs'.head \in listed' \cup {NoThread}
      BY <1>1, <2>1, <2>4, <3>2 DEF ListsAgree
    <3>6. \A y \in listed' : next'[y] \in listed' \cup {NoThread}
      BY <1>1, <2>1, <3>1, <3>2, <3>3, <3>4 DEF ListsAgree
    <3>7. \A y \in listed' : next'[y] # NoThread => next'[y] \notin {pubs'.head, subs'.head}
      BY <1>1, <2>1, <3>2, <3>3 DEF ListsAgree
    <3>8. \A y, z \in listed' : next'[y] = next'[z] /\ next'[y] # NoThread => y = z
      BY <1>1, <3>1, <3>2, <3>3 DEF ListsAgree
    <3>. QED
      BY <3>5, <3>6, <3>7, <3>8 DEF ListsAgree
  <2>5. CASE UNCHANGED <<pubs, next, listed>>
    BY <1>1, <2>1, <2>5 DEF ListsAgree
  <2>. QED
    BY <1>7, <2>3, <2>4, <2>5 DEF RemovePub
<1>8. ASSUME NEW s \in Subscribers, RemoveSub(s) PROVE ListsAgree'
  <2>1. s # NoThread /\ pubs' = pubs /\ s # pubs.head /\ relisted' = relisted
    BY <1>8, ZrosTopicAssumption DEF RemoveSub, TypeOK, Threads
  <2>2. /\ \A y \in Subscribers : next[y] \in Subscribers \cup {NoThread}
        /\ pubs.head \notin Subscribers
    BY ZrosTopicAssumption DEF TypeOK, Threads
  <2>3. CASE subs.head = s
    <3>. s \in InSubs
      BY <2>1, <2>3, ChainSelf DEF InSubs
    <3>1. next' = [next EXCEPT ![s] = NoThread] /\ listed' = listed \ {s} /\ subs'.head = next[s]
      BY <1>8, <2>3 DEF RemoveSub, RemoveHead, Strike
    <3>2. \A y \in listed' : next'[y] = next[y]
      BY <3>1, ZrosTopicAssumption DEF TypeOK, Threads
    <3>3. s \in listed /\ next[s] # s
      BY <1>1, <2>1, <2>3 DEF ListsAgree
    <3>4. subs'.head \in listed' \cup {NoThread} /\ pubs'.head \in listed' \cup {NoThread}
      BY <1>1, <2>1, <3>1, <3>3 DEF ListsAgree
    <3>5. \A y \in listed' : next'[y] \in listed' \cup {NoThread}
      BY <1>1, <2>1, <2>3, <3>1, <3>2 DEF ListsAgree
    <3>6. \A y \in listed' : next'[y] # NoThread => next'[y] \notin {pubs'.head, subs'.head}
      BY <1>1, <2>1, <3>1, <3>2, <3>3 DEF ListsAgree
    <3>7. \A y, z \in listed' : next'[y] = next'[z] /\ next'[y] # NoThread => y = z
      BY <1>1, <3>1, <3>2 DEF ListsAgree
    <3>. QED
      BY <3>4, <3>5, <3>6, <3>7 DEF ListsAgree
  <2>4. ASSUME NEW q \in Before(InSubs, s), subs.head # s,
               subs' = RemoveAfter(subs, q, s), next' = [next EXCEPT ![q] = next[s], ![s] = NoThread],
               Strike(s)
        PROVE  ListsAgree'
    <3>1. q \in listed /\ q # s /\ next[q] = s /\ q \in Subscribers
      BY <1>1, <2>4, InSubsListed, InSubsType DEF Before
    <3>2. s \in listed /\ listed' = listed \ {s} /\ subs'.head = subs.head
      BY <1>1, <2>1, <2>4, <3>1 DEF RemoveAfter, Strike, ListsAgree, TypeOK
    <3>3. \A y \in listed' : next'[y] = IF y = q THEN next[s] ELSE next[y]
      BY <2>4, <3>1, <3>2, ZrosTopicAssumption DEF TypeOK, Threads
    <3>4. next[s] # s
      BY <1>1, <2>1, <3>1, <3>2 DEF ListsAgree
    <3>5. pubs'.head \in listed' \cup {NoThread} /\ subs'.head \in listed' \cup {NoThread}
      BY <1>1, <2>1, <2>4, <3>2 DEF ListsAgree
    <3>6. \A y \in listed' : next'[y] \in listed' \cup {NoThread}
      BY <1>1, <2>1, <3>1, <3>2, <3>3, <3>4 DEF ListsAgree
    <3>7. \A y \in listed' : next'[y] # NoThread => next'[y] \notin {pubs'.head, subs'.head}
      BY <1>1, <2>1, <3>2, <3>3 DEF ListsAgree
    <3>8. \A y, z \in listed' : next'[y] = next'[z] /\ next'[y] # NoThread => y = z
      BY <1>1, <3>1, <3>2, <3>3 DEF ListsAgree
    <3>. QED
      BY <3>5, <3>6, <3>7, <3>8 DEF ListsAgree
  <2>5. CASE UNCHANGED <<subs, next, listed>>
    BY <1>1, <2>1, <2>5 DEF ListsAgree
  <2>. QED
    BY <1>8, <2>3, <2>4, <2>5 DEF RemoveSub
<1>. QED
  BY <1>2, <1>3, <1>4, <1>5, <1>6, <1>7, <1>8, NextLists DEF ListStep

LEMMA NextJoinersAreNew ==
  ASSUME TypeOK, JoinersAreNew, [Next]_vars
  PROVE  JoinersAreNew'
<1>. SUFFICES ASSUME ~relisted', NEW t \in Threads, Joining(t)' PROVE t \notin listed'
  BY DEF JoinersAreNew, Joining
<1>. USE ZrosTopicAssumption DEF TypeOK, Threads, Joining, Start, Goto
<1>1. ~relisted
  BY NextLists DEF Quiet, ListStep, linkVars, PubInit, AddPub, RemovePub, SubInit, AddSub, RemoveSub,
                   ResetNext, Enlist
<1>2. CASE Quiet
  BY <1>1, <1>2 DEF Quiet, linkVars, JoinersAreNew
<1>3. ASSUME NEW p \in Publishers, PubInit(p) PROVE t \notin listed'
  BY <1>1, <1>3 DEF PubInit, ResetNext, JoinersAreNew
<1>4. ASSUME NEW s \in Subscribers, SubInit(s) PROVE t \notin listed'
  BY <1>1, <1>4 DEF SubInit, ResetNext, JoinersAreNew
<1>5. ASSUME NEW p \in Publishers, AddPub(p) PROVE t \notin listed'
  BY <1>1, <1>5 DEF AddPub, Enlist, JoinersAreNew
<1>6. ASSUME NEW s \in Subscribers, AddSub(s) PROVE t \notin listed'
  BY <1>1, <1>6 DEF AddSub, Enlist, JoinersAreNew
<1>7. ASSUME NEW p \in Publishers, RemovePub(p) PROVE t \notin listed'
  BY <1>1, <1>7 DEF RemovePub, Strike, JoinersAreNew
<1>8. ASSUME NEW s \in Subscribers, RemoveSub(s) PROVE t \notin listed'
  BY <1>1, <1>8 DEF RemoveSub, Strike, JoinersAreNew
<1>. QED
  BY <1>2, <1>3, <1>4, <1>5, <1>6, <1>7, <1>8, NextLists DEF ListStep

LEMMA NextNoRemovedElement ==
  ASSUME TypeOK, WriterAlone, ListsAgree, NoRemovedElement, [Next]_vars
  PROVE  NoRemovedElement'
<1>. SUFFICES ASSUME ~relisted', NEW t \in Threads, pc'[t] \in Walk
              PROVE  at'[t] \in listed' \cup {NoThread}
  BY DEF NoRemovedElement, Walk
<1>. USE ZrosTopicAssumption DEF TypeOK, Threads, Walk, Start, Goto
<1>1. ~relisted
  BY NextLists DEF Quiet, ListStep, linkVars, PubInit, AddPub, RemovePub, SubInit, AddSub, RemoveSub,
                   ResetNext, Enlist
<1>2. CASE Quiet
  BY <1>1, <1>2 DEF Quiet, linkVars, ListsAgree, NoRemovedElement
<1>3. ASSUME NEW p \in Publishers, PubInit(p) PROVE at'[t] \in listed' \cup {NoThread}
  BY <1>1, <1>3 DEF PubInit, ResetNext, NoRemovedElement
<1>4. ASSUME NEW s \in Subscribers, SubInit(s) PROVE at'[t] \in listed' \cup {NoThread}
  BY <1>1, <1>4 DEF SubInit, ResetNext, NoRemovedElement
<1>5. ASSUME NEW p \in Publishers, AddPub(p) PROVE at'[t] \in listed' \cup {NoThread}
  BY <1>1, <1>5 DEF AddPub, Enlist, NoRemovedElement
<1>6. ASSUME NEW s \in Subscribers, AddSub(s) PROVE at'[t] \in listed' \cup {NoThread}
  BY <1>1, <1>6 DEF AddSub, Enlist, NoRemovedElement
<1>7. ASSUME NEW p \in Publishers, RemovePub(p) PROVE at'[t] \in listed' \cup {NoThread}
  BY <1>7 DEF RemovePub, WriterAlone, Writing, Reading
<1>8. ASSUME NEW s \in Subscribers, RemoveSub(s) PROVE at'[t] \in listed' \cup {NoThread}
  BY <1>8 DEF RemoveSub, WriterAlone, Writing, Reading
<1>. QED
  BY <1>2, <1>3, <1>4, <1>5, <1>6, <1>7, <1>8, NextLists DEF ListStep

LEMMA NextSubscribersRead ==
  ASSUME TypeOK, SubscribersRead, [Next]_vars
  PROVE  SubscribersRead'
<1>. USE ZrosTopicAssumption
     DEF TypeOK, SubscribersRead, Threads, Locking, Writing, Reading,
         lockVars, listVars, linkVars, subVars, Goto, Start, Return, Enlist, Strike, ResetNext
<1>1. ASSUME NEW p \in Publishers, PubInit(p) PROVE SubscribersRead'
  BY <1>1 DEF PubInit
<1>2. ASSUME NEW p \in Publishers, PubUpdate(p) PROVE SubscribersRead'
  BY <1>2 DEF PubUpdate
<1>3. ASSUME NEW p \in Publishers, PubFini(p) PROVE SubscribersRead'
  BY <1>3 DEF PubFini
<1>4. ASSUME NEW s \in Subscribers, SubInit(s) PROVE SubscribersRead'
  BY <1>4 DEF SubInit
<1>5. ASSUME NEW s \in Subscribers, SubFini(s) PROVE SubscribersRead'
  BY <1>5 DEF SubFini
<1>6. ASSUME NEW s \in Subscribers, SubCheck(s) PROVE SubscribersRead'
  BY <1>6 DEF SubCheck
<1>7. ASSUME NEW s \in Subscribers, SubClear(s) PROVE SubscribersRead'
  BY <1>7 DEF SubClear
<1>8. ASSUME NEW t \in Shells, Iterate(t) PROVE SubscribersRead'
  BY <1>8 DEF Iterate
<1>9. CASE Tick
  BY <1>9 DEF Tick
<1>10. ASSUME NEW t \in Threads, WriteLock(t) PROVE SubscribersRead'
  BY <1>10 DEF WriteLock
<1>11. ASSUME NEW t \in Threads, WriteLockTimeout(t) PROVE SubscribersRead'
  BY <1>11 DEF WriteLockTimeout
<1>12. ASSUME NEW t \in Threads, TakeRead(t) PROVE SubscribersRead'
  BY <1>12 DEF TakeRead
<1>13. ASSUME NEW t \in Threads, TakeReadTimeout(t) PROVE SubscribersRead'
  BY <1>13 DEF TakeReadTimeout
<1>14. ASSUME NEW t \in Threads, GiveRead(t) PROVE SubscribersRead'
  BY <1>14 DEF GiveRead
<1>15. ASSUME NEW t \in Threads, RollbackReturn(t) PROVE SubscribersRead'
  BY <1>15 DEF RollbackReturn
<1>16. ASSUME NEW t \in Threads, WriteUnlock(t) PROVE SubscribersRead'
  BY <1>16 DEF WriteUnlock
<1>17. ASSUME NEW t \in Threads, ReadLock(t) PROVE SubscribersRead'
  BY <1>17 DEF ReadLock, StartOf
<1>18. ASSUME NEW t \in Threads, ReadLockTimeout(t) PROVE SubscribersRead'
  BY <1>18 DEF ReadLockTimeout
<1>19. ASSUME NEW t \in Threads, ReadUnlock(t) PROVE SubscribersRead'
  BY <1>19 DEF ReadUnlock
<1>20. ASSUME NEW s \in Subscribers, AddSub(s) PROVE SubscribersRead'
  BY <1>20 DEF AddSub
<1>21. ASSUME NEW s \in Subscribers, RemoveSub(s) PROVE SubscribersRead'
  BY <1>21 DEF RemoveSub
<1>22. ASSUME NEW s \in Subscribers, ReadCopy(s) PROVE SubscribersRead'
  BY <1>22 DEF ReadCopy
<1>23. ASSUME NEW s \in Subscribers, ReadCopied(s) PROVE SubscribersRead'
  BY <1>23 DEF ReadCopied
<1>24. ASSUME NEW p \in Publishers, AddPub(p) PROVE SubscribersRead'
  BY <1>24 DEF AddPub
<1>25. ASSUME NEW p \in Publishers, RemovePub(p) PROVE SubscribersRead'
  BY <1>25 DEF RemovePub
<1>26. ASSUME NEW p \in Publishers, PublishCopy(p) PROVE SubscribersRead'
  BY <1>26 DEF PublishCopy
<1>27. ASSUME NEW p \in Publishers, PublishCopied(p) PROVE SubscribersRead'
  BY <1>27 DEF PublishCopied
<1>28. ASSUME NEW p \in Publishers, NEW s \in Subscribers, NotifySub(p, s) PROVE SubscribersRead'
  BY <1>28 DEF NotifySub
<1>29. ASSUME NEW p \in Publishers, PublishDone(p) PROVE SubscribersRead'
  BY <1>29 DEF PublishDone
<1>30. ASSUME NEW t \in Shells, NEW e \in Threads, IterateStep(t, e) PROVE SubscribersRead'
  BY <1>30 DEF IterateStep
<1>31. ASSUME NEW t \in Shells, IterateDone(t) PROVE SubscribersRead'
  BY <1>31 DEF IterateDone
<1>33. ASSUME NEW t \in Publishers \cup Subscribers, InitGivesUp(t) PROVE SubscribersRead'
  BY <1>33 DEF InitGivesUp
<1>32. CASE UNCHANGED vars
  BY <1>32 DEF vars
<1>. QED
  BY <1>1, <1>2, <1>3, <1>4, <1>5, <1>6, <1>7, <1>8, <1>9, <1>10, <1>11, <1>12, <1>13, <1>14, <1>15, <1>16, <1>17, <1>18, <1>19, <1>20, <1>21, <1>22, <1>23, <1>24, <1>25, <1>26, <1>27, <1>28, <1>29, <1>30, <1>31, <1>32, <1>33
  DEF Next, Call, LockStep, PublisherStep, SubscriberStep, ShellStep

\* The list of subscribers when the pointers of other elements change, when an element
\* is appended and when one is left out.
LEMMA SubsOther ==
  ASSUME TypeOK, \A k \in Subscribers : next'[k] = next[k], NEW x
  PROVE  Chain(next', Subscribers, x) = Chain(next, Subscribers, x)
<1>. NoThread \notin Subscribers
  BY ZrosTopicAssumption DEF Threads
<1>. QED
  BY ChainOther

LEMMA SubsAppended ==
  ASSUME TypeOK, NEW s \in Subscribers, subs'.head \in {subs.head, s},
         next'[s] \in {s, NoThread}, \A k \in Subscribers : next'[k] \in {next[k], s, NoThread}
  PROVE  InSubs' \subseteq InSubs \cup {s}
<1>1. /\ NoThread \notin Subscribers
      /\ \A k \in Subscribers : next[k] \in Subscribers \cup {NoThread}
      /\ subs.head \in Subscribers \cup {NoThread}
  BY ZrosTopicAssumption DEF Threads, TypeOK
<1>2. \A x \in {subs.head, s} :
        Chain(next', Subscribers, x) \subseteq Chain(next, Subscribers, subs.head) \cup {s, NoThread}
  BY <1>1, ChainAppend
<1>. QED
  BY <1>2 DEF InSubs

LEMMA SubsRemoved ==
  ASSUME TypeOK, NEW s \in InSubs, subs'.head \in {subs.head, next[s]},
         \A k \in Subscribers : next'[k] \in {next[k], next[s], NoThread}
  PROVE  InSubs' \subseteq InSubs
<1>1. /\ NoThread \notin Subscribers /\ s \in Subscribers /\ s \in Chain(next, Subscribers, subs.head)
      /\ \A k \in Subscribers : next[k] \in Subscribers \cup {NoThread}
      /\ subs.head \in Subscribers \cup {NoThread}
  BY ZrosTopicAssumption, InSubsType DEF Threads, TypeOK, InSubs
<1>2. \A x \in {subs.head, next[s]} :
        Chain(next', Subscribers, x) \subseteq Chain(next, Subscribers, subs.head) \cup {NoThread}
  BY <1>1, ChainRemove
<1>. QED
  BY <1>2 DEF InSubs

LEMMA NextNoLostUpdate ==
  ASSUME TypeOK, WriterAlone, SubscribersRead, NoLostUpdate, [Next]_vars
  PROVE  NoLostUpdate'
<1>. USE ZrosTopicAssumption
     DEF TypeOK, SubscribersRead, NoLostUpdate, NotificationDue, InSubs, Threads,
         lockVars, listVars, linkVars, subVars, Goto, Start, Return, Enlist, Strike, ResetNext
<1>1. ASSUME NEW p \in Publishers, PubInit(p) PROVE NoLostUpdate'
  <2>1. \A k \in Subscribers : next'[k] = next[k]
    BY <1>1 DEF PubInit
  <2>2. /\ Chain(next', Subscribers, subs.head) = Chain(next, Subscribers, subs.head)
        /\ \A q \in Publishers : Chain(next', Subscribers, at[q]) = Chain(next, Subscribers, at[q])
    BY <2>1, SubsOther
  <2>3. /\ InSubs' = InSubs
        /\ \A q \in Publishers : pc[q] = "notify" => pc'[q] = "notify" /\ at'[q] = at[q]
    BY <1>1, <2>2 DEF PubInit
  <2>4. /\ \A u \in Subscribers : pc'[u] = pc[u]
        /\ data' = data /\ buf' = buf
        /\ signaled' = signaled /\ missed' = missed
    BY <1>1, <2>3, InSubsType DEF PubInit
  <2>5. ASSUME NEW u \in InSubs
        PROVE  \/ buf[u].hi = data.hi
               \/ signaled[u]
               \/ pc[u] \in {"clear", "rlock", "copy1", "copy2"}
               \/ \E q \in Publishers : pc'[q] = "notify" /\ u \in Chain(next', Subscribers, at'[q])
               \/ missed[u]
    <3>1. u \in Subscribers /\ u \in InSubs
      BY <2>5, InSubsType
    <3>2. CASE NotificationDue(u)
      BY <2>2, <2>3, <3>2
    <3>. QED
      BY <3>1, <3>2
  <2>. QED
    BY <2>3, <2>4, <2>5, InSubsType
<1>2. ASSUME NEW p \in Publishers, PubUpdate(p) PROVE NoLostUpdate'
  BY <1>2 DEF PubUpdate
<1>3. ASSUME NEW p \in Publishers, PubFini(p) PROVE NoLostUpdate'
  BY <1>3 DEF PubFini
<1>4. ASSUME NEW s \in Subscribers, SubInit(s) PROVE NoLostUpdate'
  <2>1. \A x : /\ Chain(next', Subscribers, x) \subseteq Chain(next, Subscribers, x) \cup {NoThread}
               /\ Chain(next, Subscribers, x)
                    \subseteq Chain(next', Subscribers, x) \cup Chain(next, Subscribers, s)
    BY <1>4, ChainReset DEF SubInit
  <2>2. \A u \in Subscribers : missed[u] \/ u \in Chain(next, Subscribers, s) => missed'[u]
    BY <1>4 DEF SubInit
  <2>3. \A u \in Subscribers : u # s => signaled'[u] = signaled[u] /\ pc'[u] = pc[u]
    BY <1>4 DEF SubInit
  <2>4. \A q \in Publishers : pc[q] = "notify" => pc'[q] = "notify" /\ at'[q] = at[q]
    BY <1>4 DEF SubInit
  <2>5. missed'[s]
    BY <2>2, ChainSelf
  <2>6. subs' = subs /\ data' = data /\ buf' = buf
    BY <1>4 DEF SubInit
  <2>7. ASSUME NEW u \in InSubs', u # s
        PROVE  \/ buf'[u].hi = data'.hi
               \/ signaled'[u]
               \/ pc'[u] \in {"clear", "rlock", "copy1", "copy2"}
               \/ \E q \in Publishers : pc'[q] = "notify" /\ u \in Chain(next', Subscribers, at'[q])
               \/ missed'[u]
    <3>1. u \in InSubs /\ u \in Subscribers
      BY <2>1, <2>6, <2>7, ChainType
    <3>2. CASE \E q \in Publishers : pc[q] = "notify" /\ u \in Chain(next, Subscribers, at[q])
      BY <2>1, <2>2, <2>4, <3>1, <3>2
    <3>. QED
      BY <2>2, <2>3, <2>6, <2>7, <3>1, <3>2
  <2>. QED
    BY <2>5, <2>7
<1>5. ASSUME NEW s \in Subscribers, SubFini(s) PROVE NoLostUpdate'
  BY <1>5 DEF SubFini
<1>6. ASSUME NEW s \in Subscribers, SubCheck(s) PROVE NoLostUpdate'
  BY <1>6 DEF SubCheck
<1>7. ASSUME NEW s \in Subscribers, SubClear(s) PROVE NoLostUpdate'
  BY <1>7 DEF SubClear
<1>8. ASSUME NEW t \in Shells, Iterate(t) PROVE NoLostUpdate'
  BY <1>8 DEF Iterate
<1>9. CASE Tick
  BY <1>9 DEF Tick
<1>10. ASSUME NEW t \in Threads, WriteLock(t) PROVE NoLostUpdate'
  BY <1>10 DEF WriteLock
<1>11. ASSUME NEW t \in Threads, WriteLockTimeout(t) PROVE NoLostUpdate'
  BY <1>11 DEF WriteLockTimeout
<1>12. ASSUME NEW t \in Threads, TakeRead(t) PROVE NoLostUpdate'
  BY <1>12 DEF TakeRead
<1>13. ASSUME NEW t \in Threads, TakeReadTimeout(t) PROVE NoLostUpdate'
  BY <1>13 DEF TakeReadTimeout
<1>14. ASSUME NEW t \in Threads, GiveRead(t) PROVE NoLostUpdate'
  BY <1>14 DEF GiveRead
<1>15. ASSUME NEW t \in Threads, RollbackReturn(t) PROVE NoLostUpdate'
  BY <1>15 DEF RollbackReturn
<1>16. ASSUME NEW t \in Threads, WriteUnlock(t) PROVE NoLostUpdate'
  BY <1>16 DEF WriteUnlock
<1>17. ASSUME NEW t \in Threads, ReadLock(t) PROVE NoLostUpdate'
  <2>1. InSubs' = InSubs
    BY <1>17 DEF ReadLock
  <2>2. /\ \A u \in Subscribers : pc[u] \in {"clear", "rlock", "copy1", "copy2"} =>
                                    pc'[u] \in {"clear", "rlock", "copy1", "copy2"}
        /\ \A q \in Publishers : pc[q] = "notify" => pc'[q] = "notify" /\ at'[q] = at[q]
    BY <1>17 DEF ReadLock
  <2>3. next' = next /\ data' = data /\ buf' = buf /\ signaled' = signaled /\ missed' = missed
    BY <1>17 DEF ReadLock
  <2>. QED
    BY <2>1, <2>2, <2>3, InSubsType
<1>18. ASSUME NEW t \in Threads, ReadLockTimeout(t) PROVE NoLostUpdate'
  <2>1. InSubs' = InSubs
    BY <1>18 DEF ReadLockTimeout
  <2>2. /\ \A u \in Subscribers : pc'[u] = pc[u] \/ missed'[u]
        /\ \A u \in Subscribers : missed[u] => missed'[u]
        /\ \A q \in Publishers : pc[q] = "notify" => pc'[q] = "notify"
    BY <1>18 DEF ReadLockTimeout
  <2>3. next' = next /\ at' = at /\ data' = data /\ buf' = buf /\ signaled' = signaled
    BY <1>18 DEF ReadLockTimeout
  <2>. QED
    BY <2>1, <2>2, <2>3, InSubsType
<1>19. ASSUME NEW t \in Threads, ReadUnlock(t) PROVE NoLostUpdate'
  BY <1>19 DEF ReadUnlock
<1>20. ASSUME NEW s \in Subscribers, AddSub(s) PROVE NoLostUpdate'
  <2>1. \A q \in Publishers : pc[q] # "notify"
    BY <1>20 DEF AddSub, WriterAlone, Writing, Reading
  <2>2. InSubs' \subseteq InSubs \cup {s}
    <3>1. /\ next'[s] \in {s, NoThread}
          /\ \A k \in Subscribers : next'[k] \in {next[k], s, NoThread}
      BY <1>20 DEF AddSub, AppendNext
    <3>2. subs'.head \in {subs.head, s}
      BY <1>20 DEF AddSub, AppendList
    <3>. QED
      BY <3>1, <3>2, SubsAppended
  <2>3. missed'[s] /\ \A u \in Subscribers : missed[u] => missed'[u]
    BY <1>20 DEF AddSub
  <2>4. /\ \A u \in Subscribers : u # s => pc'[u] = pc[u]
        /\ data' = data /\ buf' = buf /\ signaled' = signaled
    BY <1>20 DEF AddSub
  <2>. QED
    BY <2>1, <2>2, <2>3, <2>4, InSubsType
<1>21. ASSUME NEW s \in Subscribers, RemoveSub(s) PROVE NoLostUpdate'
  <2>1. \A q \in Publishers : pc[q] # "notify"
    BY <1>21 DEF RemoveSub, WriterAlone, Writing, Reading
  <2>2. InSubs' \subseteq InSubs
    <3>1. CASE subs.head = s
      <4>1. s \in InSubs
        BY <3>1, ChainSelf
      <4>2. subs'.head = next[s] /\ \A k \in Subscribers : next'[k] \in {next[k], NoThread}
        BY <1>21, <3>1, <4>1 DEF RemoveSub, RemoveHead
      <4>. QED
        BY <4>1, <4>2, SubsRemoved
    <3>2. ASSUME NEW q \in Before(InSubs, s), subs' = RemoveAfter(subs, q, s),
                 next' = [next EXCEPT ![q] = next[s], ![s] = NoThread]
          PROVE  InSubs' \subseteq InSubs
      <4>1. subs'.head = subs.head /\ \A k \in Subscribers : next'[k] \in {next[k], next[s], NoThread}
        BY <3>2, InSubsType DEF RemoveAfter, Before
      <4>2. q \in Chain(next, Subscribers, subs.head) /\ q # NoThread /\ next[q] = s
        BY <3>2 DEF Before
      <4>3. \A k \in Subscribers : next[k] \in Subscribers \cup {NoThread}
        OBVIOUS
      <4>4. s \in Chain(next, Subscribers, subs.head)
        BY <4>2, <4>3, ChainClosed
      <4>5. s \in InSubs
        BY <4>4
      <4>. QED
        BY <4>1, <4>5, SubsRemoved
    <3>. QED
      BY <1>21, <3>1, <3>2 DEF RemoveSub
  <2>3. /\ \A u \in Subscribers : u # s => pc'[u] = pc[u]
        /\ data' = data /\ buf' = buf /\ signaled' = signaled /\ missed' = missed
        /\ pc[s] = "crit"
    BY <1>21 DEF RemoveSub
  <2>. QED
    BY <2>1, <2>2, <2>3, InSubsType
<1>22. ASSUME NEW s \in Subscribers, ReadCopy(s) PROVE NoLostUpdate'
  BY <1>22 DEF ReadCopy
<1>23. ASSUME NEW s \in Subscribers, ReadCopied(s) PROVE NoLostUpdate'
  BY <1>23 DEF ReadCopied
<1>24. ASSUME NEW p \in Publishers, AddPub(p) PROVE NoLostUpdate'
  <2>1. \A k \in Subscribers : next'[k] = next[k]
    BY <1>24 DEF AddPub, AppendNext
  <2>2. /\ Chain(next', Subscribers, subs.head) = Chain(next, Subscribers, subs.head)
        /\ \A q \in Publishers : Chain(next', Subscribers, at[q]) = Chain(next, Subscribers, at[q])
    BY <2>1, SubsOther
  <2>3. /\ InSubs' = InSubs
        /\ \A q \in Publishers : pc[q] = "notify" => pc'[q] = "notify" /\ at'[q] = at[q]
    BY <1>24, <2>2 DEF AddPub
  <2>4. /\ \A u \in Subscribers : pc'[u] = pc[u]
        /\ data' = data /\ buf' = buf
        /\ signaled' = signaled /\ missed' = missed
    BY <1>24, <2>3, InSubsType DEF AddPub
  <2>5. ASSUME NEW u \in InSubs
        PROVE  \/ buf[u].hi = data.hi
               \/ signaled[u]
               \/ pc[u] \in {"clear", "rlock", "copy1", "copy2"}
               \/ \E q \in Publishers : pc'[q] = "notify" /\ u \in Chain(next', Subscribers, at'[q])
               \/ missed[u]
    <3>1. u \in Subscribers /\ u \in InSubs
      BY <2>5, InSubsType
    <3>2. CASE NotificationDue(u)
      BY <2>2, <2>3, <3>2
    <3>. QED
      BY <3>1, <3>2
  <2>. QED
    BY <2>3, <2>4, <2>5, InSubsType
<1>25. ASSUME NEW p \in Publishers, RemovePub(p) PROVE NoLostUpdate'
  <2>1. \A k \in Subscribers : next'[k] = next[k]
    BY <1>25, InPubsType DEF RemovePub, Before
  <2>2. /\ Chain(next', Subscribers, subs.head) = Chain(next, Subscribers, subs.head)
        /\ \A q \in Publishers : Chain(next', Subscribers, at[q]) = Chain(next, Subscribers, at[q])
    BY <2>1, SubsOther
  <2>3. /\ InSubs' = InSubs
        /\ \A q \in Publishers : pc[q] = "notify" => pc'[q] = "notify" /\ at'[q] = at[q]
    BY <1>25, <2>2 DEF RemovePub
  <2>4. /\ \A u \in Subscribers : pc'[u] = pc[u]
        /\ data' = data /\ buf' = buf
        /\ signaled' = signaled /\ missed' = missed
    BY <1>25, <2>3, InSubsType DEF RemovePub
  <2>5. ASSUME NEW u \in InSubs
        PROVE  \/ buf[u].hi = data.hi
               \/ signaled[u]
               \/ pc[u] \in {"clear", "rlock", "copy1", "copy2"}
               \/ \E q \in Publishers : pc'[q] = "notify" /\ u \in Chain(next', Subscribers, at'[q])
               \/ missed[u]
    <3>1. u \in Subscribers /\ u \in InSubs
      BY <2>5, InSubsType
    <3>2. CASE NotificationDue(u)
      BY <2>2, <2>3, <3>2
    <3>. QED
      BY <3>1, <3>2
  <2>. QED
    BY <2>3, <2>4, <2>5, InSubsType
<1>26. ASSUME NEW p \in Publishers, PublishCopy(p) PROVE NoLostUpdate'
  BY <1>26 DEF PublishCopy
<1>27. ASSUME NEW p \in Publishers, PublishCopied(p) PROVE NoLostUpdate'
  BY <1>27 DEF PublishCopied
<1>28. ASSUME NEW p \in Publishers, NEW s \in Subscribers, NotifySub(p, s) PROVE NoLostUpdate'
  <2>1. pc' = pc /\ subs' = subs /\ next' = next /\ data' = data /\ buf' = buf
    BY <1>28 DEF NotifySub
  <2>2. signaled'[s] \/ missed'[s]
    BY <1>28 DEF NotifySub
  <2>3. ASSUME NEW u \in Subscribers, u # s
        PROVE  /\ signaled'[u] = signaled[u] /\ missed'[u] = missed[u]
    BY <1>28, <2>3 DEF NotifySub
  <2>5. ASSUME NEW u \in Subscribers, u # s, NEW q \in Publishers, u \in Chain(next, Subscribers, at[q])
        PROVE  u \in Chain(next, Subscribers, at'[q])
    <3>1. CASE q = p
      BY <1>28, <2>5, <3>1, ChainStep DEF NotifySub
    <3>2. CASE q # p
      BY <1>28, <2>5, <3>2 DEF NotifySub
    <3>. QED
      BY <3>1, <3>2
  <2>4. ASSUME NEW u \in InSubs, u \in Subscribers
        PROVE  \/ buf[u].hi = data.hi
               \/ signaled'[u]
               \/ pc[u] \in {"clear", "rlock", "copy1", "copy2"}
               \/ \E q \in Publishers : pc[q] = "notify" /\ u \in Chain(next, Subscribers, at'[q])
               \/ missed'[u]
    <3>1. CASE u = s
      BY <3>1, <2>2
    <3>2. CASE u # s
      BY <3>2, <2>3, <2>4, <2>5
    <3>. QED
      BY <3>1, <3>2
  <2>. QED
    BY <2>1, <2>4, InSubsType
<1>29. ASSUME NEW p \in Publishers, PublishDone(p) PROVE NoLostUpdate'
  <2>1. \A u \in Subscribers : u \notin Chain(next, Subscribers, at[p])
    BY <1>29, ChainNull DEF PublishDone
  <2>. QED
    BY <1>29, <2>1, InSubsType DEF PublishDone
<1>30. ASSUME NEW t \in Shells, NEW e \in Threads, IterateStep(t, e) PROVE NoLostUpdate'
  BY <1>30 DEF IterateStep
<1>31. ASSUME NEW t \in Shells, IterateDone(t) PROVE NoLostUpdate'
  BY <1>31 DEF IterateDone
<1>33. ASSUME NEW t \in Publishers \cup Subscribers, InitGivesUp(t) PROVE NoLostUpdate'
  BY <1>33 DEF InitGivesUp
<1>32. CASE UNCHANGED vars
  BY <1>32 DEF vars
<1>. QED
  BY <1>1, <1>2, <1>3, <1>4, <1>5, <1>6, <1>7, <1>8, <1>9, <1>10, <1>11, <1>12, <1>13, <1>14, <1>15, <1>16, <1>17, <1>18, <1>19, <1>20, <1>21, <1>22, <1>23, <1>24, <1>25, <1>26, <1>27, <1>28, <1>29, <1>30, <1>31, <1>32, <1>33
  DEF Next, Call, LockStep, PublisherStep, SubscriberStep, ShellStep

-----------------------------------------------------------------------------
(* Theorems                                                                *)

\* The inductive invariant.
IInv ==
  /\ LockInv /\ DataAgrees
  /\ ListsAgree /\ JoinersAreNew /\ NoRemovedElement
  /\ SubscribersRead /\ NoLostUpdate

LEMMA InitIInv == Init => IInv
<1>. SUFFICES ASSUME Init PROVE IInv
  OBVIOUS
<1>. USE DEF Init, Threads
<1>1. TypeOK
  BY InitTypeOK
<1>2. PermitsConserved /\ HoldsWhatItNeeds
  BY DEF PermitsConserved, HoldsWhatItNeeds, Locking, Writing, Reading
<1>3. DataAgrees
  BY DEF DataAgrees, NoTornRead
<1>4. ListsAgree /\ JoinersAreNew /\ NoRemovedElement
  BY DEF ListsAgree, JoinersAreNew, NoRemovedElement
<1>5. SubscribersRead /\ NoLostUpdate
  <2>1. InSubs = {}
    BY ChainNull DEF InSubs
  <2>. QED
    BY <2>1 DEF SubscribersRead, NoLostUpdate
<1>. QED
  BY <1>1, <1>2, <1>3, <1>4, <1>5 DEF IInv, LockInv

LEMMA NextIInv == IInv /\ [Next]_vars => IInv'
  BY LockInvWriterAlone, NextTypeOK, NextPermitsConserved, NextHoldsWhatItNeeds,
     NextDataAgrees, NextListsAgree, NextJoinersAreNew, NextNoRemovedElement, NextSubscribersRead, NextNoLostUpdate
  DEF IInv, LockInv

THEOREM Invariance == Spec => []IInv
  BY InitIInv, NextIInv, PTL DEF Spec

\* Type correctness.
THEOREM TypeCorrect == Spec => []TypeOK
<1>1. IInv => TypeOK
  BY DEF IInv, LockInv
<1>. QED
  BY <1>1, Invariance, PTL

\* Permits are neither lost nor duplicated, whatever times out.
THEOREM PermitsAreConserved == Spec => []PermitsConserved
<1>1. IInv => PermitsConserved
  BY DEF IInv, LockInv
<1>. QED
  BY <1>1, Invariance, PTL

\* Writers exclude readers and one another.
THEOREM Exclusion == Spec => []WriterAlone
<1>1. IInv => WriterAlone
  BY LockInvWriterAlone DEF IInv
<1>. QED
  BY <1>1, Invariance, PTL

\* No subscriber works with the halves of two publications.
THEOREM NoTear == Spec => []NoTornRead
<1>1. IInv => NoTornRead
  BY DEF IInv, DataAgrees
<1>. QED
  BY <1>1, Invariance, PTL

\* No iteration stands on an element that has left its list, as long as none is
\* initialised while it is in it.
THEOREM IterationSafe == Spec => []NoRemovedElement
<1>1. IInv => NoRemovedElement
  BY DEF IInv
<1>. QED
  BY <1>1, Invariance, PTL

\* A publication reaches a subscriber unless the code has dropped it.
THEOREM NothingLost == Spec => []NoLostUpdate
<1>1. IInv => NoLostUpdate
  BY DEF IInv
<1>. QED
  BY <1>1, Invariance, PTL
\* One step of the topic is one step of the register, or none: the second half
\* of a publication publishes, the second half of a copy reads.
LEMMA StepRefines ==
  ASSUME IInv, WriterAlone, [Next]_vars
  PROVE  [Register!Next]_<<data.hi, RegView>>
<1>. USE ZrosTopicAssumption
     DEF IInv, LockInv, TypeOK, DataAgrees, NoTornRead, WriterAlone, Threads, Locking, Writing, Reading,
         lockVars, listVars, linkVars, subVars, Goto, Start, Return, Enlist, Strike, ResetNext,
         RegView, Register!Next, Register!Publish, Register!Read, Register!Message
<1>1. ASSUME NEW p \in Publishers, PubInit(p) PROVE [Register!Next]_<<data.hi, RegView>>
  BY <1>1 DEF PubInit
<1>2. ASSUME NEW p \in Publishers, PubUpdate(p) PROVE [Register!Next]_<<data.hi, RegView>>
  BY <1>2 DEF PubUpdate
<1>3. ASSUME NEW p \in Publishers, PubFini(p) PROVE [Register!Next]_<<data.hi, RegView>>
  BY <1>3 DEF PubFini
<1>4. ASSUME NEW s \in Subscribers, SubInit(s) PROVE [Register!Next]_<<data.hi, RegView>>
  BY <1>4 DEF SubInit
<1>5. ASSUME NEW s \in Subscribers, SubFini(s) PROVE [Register!Next]_<<data.hi, RegView>>
  BY <1>5 DEF SubFini
<1>6. ASSUME NEW s \in Subscribers, SubCheck(s) PROVE [Register!Next]_<<data.hi, RegView>>
  BY <1>6 DEF SubCheck
<1>7. ASSUME NEW s \in Subscribers, SubClear(s) PROVE [Register!Next]_<<data.hi, RegView>>
  BY <1>7 DEF SubClear
<1>8. ASSUME NEW t \in Shells, Iterate(t) PROVE [Register!Next]_<<data.hi, RegView>>
  <2>1. pc' = [pc EXCEPT ![t] = "rlock"] /\ buf' = buf /\ data' = data
    BY <1>8 DEF Iterate
  <2>2. RegView' = RegView
    BY <2>1
  <2>. QED
    BY <2>1, <2>2
<1>9. CASE Tick
  BY <1>9 DEF Tick
<1>10. ASSUME NEW t \in Threads, WriteLock(t) PROVE [Register!Next]_<<data.hi, RegView>>
  BY <1>10 DEF WriteLock
<1>11. ASSUME NEW t \in Threads, WriteLockTimeout(t) PROVE [Register!Next]_<<data.hi, RegView>>
  BY <1>11 DEF WriteLockTimeout
<1>12. ASSUME NEW t \in Threads, TakeRead(t) PROVE [Register!Next]_<<data.hi, RegView>>
  <2>1. buf' = buf /\ data' = data /\ \A r \in Subscribers : pc'[r] = "copy2" <=> pc[r] = "copy2"
    BY <1>12 DEF TakeRead
  <2>2. RegView' = RegView
    BY <2>1
  <2>. QED
    BY <2>1, <2>2
<1>13. ASSUME NEW t \in Threads, TakeReadTimeout(t) PROVE [Register!Next]_<<data.hi, RegView>>
  BY <1>13 DEF TakeReadTimeout
<1>14. ASSUME NEW t \in Threads, GiveRead(t) PROVE [Register!Next]_<<data.hi, RegView>>
  BY <1>14 DEF GiveRead
<1>15. ASSUME NEW t \in Threads, RollbackReturn(t) PROVE [Register!Next]_<<data.hi, RegView>>
  BY <1>15 DEF RollbackReturn
<1>16. ASSUME NEW t \in Threads, WriteUnlock(t) PROVE [Register!Next]_<<data.hi, RegView>>
  BY <1>16 DEF WriteUnlock
<1>17. ASSUME NEW t \in Threads, ReadLock(t) PROVE [Register!Next]_<<data.hi, RegView>>
  BY <1>17 DEF ReadLock, StartOf
<1>18. ASSUME NEW t \in Threads, ReadLockTimeout(t) PROVE [Register!Next]_<<data.hi, RegView>>
  BY <1>18 DEF ReadLockTimeout
<1>19. ASSUME NEW t \in Threads, ReadUnlock(t) PROVE [Register!Next]_<<data.hi, RegView>>
  BY <1>19 DEF ReadUnlock
<1>20. ASSUME NEW s \in Subscribers, AddSub(s) PROVE [Register!Next]_<<data.hi, RegView>>
  BY <1>20 DEF AddSub
<1>21. ASSUME NEW s \in Subscribers, RemoveSub(s) PROVE [Register!Next]_<<data.hi, RegView>>
  BY <1>21 DEF RemoveSub
<1>22. ASSUME NEW s \in Subscribers, ReadCopy(s) PROVE [Register!Next]_<<data.hi, RegView>>
  <2>1. data' = data /\ buf' = [buf EXCEPT ![s] = [lo |-> data.lo, hi |-> buf[s].hi]]
    BY <1>22 DEF ReadCopy
  <2>2. pc[s] = "copy1" /\ pc' = [pc EXCEPT ![s] = "copy2"]
    BY <1>22 DEF ReadCopy
  <2>3. buf[s] = [lo |-> buf[s].hi, hi |-> buf[s].hi]
    BY <2>2
  <2>4. \A r \in Subscribers : RegView'[r] = RegView[r]
    BY <2>1, <2>2, <2>3
  <2>5. RegView' = RegView
    BY <2>4
  <2>. QED
    BY <2>1, <2>5
<1>23. ASSUME NEW s \in Subscribers, ReadCopied(s) PROVE [Register!Next]_<<data.hi, RegView>>
  <2>1. data.lo = data.hi /\ buf[s].lo = data.lo
    BY <1>23 DEF ReadCopied
  <2>2. buf' = [buf EXCEPT ![s] = [lo |-> data.hi, hi |-> data.hi]] /\ data' = data
    BY <1>23, <2>1 DEF ReadCopied
  <2>3. \A r \in Subscribers : r # s => RegView'[r] = RegView[r]
    BY <1>23, <2>2 DEF ReadCopied
  <2>4. RegView'[s] = [lo |-> data.hi, hi |-> data.hi]
    BY <1>23, <2>2 DEF ReadCopied
  <2>5. RegView' = [RegView EXCEPT ![s] = [lo |-> data.hi, hi |-> data.hi]]
    BY <2>3, <2>4, ZenonT(60)
  <2>. QED
    BY <2>2, <2>5
<1>24. ASSUME NEW p \in Publishers, AddPub(p) PROVE [Register!Next]_<<data.hi, RegView>>
  BY <1>24 DEF AddPub
<1>25. ASSUME NEW p \in Publishers, RemovePub(p) PROVE [Register!Next]_<<data.hi, RegView>>
  BY <1>25 DEF RemovePub
<1>26. ASSUME NEW p \in Publishers, PublishCopy(p) PROVE [Register!Next]_<<data.hi, RegView>>
  BY <1>26 DEF PublishCopy
<1>27. ASSUME NEW p \in Publishers, PublishCopied(p) PROVE [Register!Next]_<<data.hi, RegView>>
  BY <1>27 DEF PublishCopied
<1>28. ASSUME NEW p \in Publishers, NEW s \in Subscribers, NotifySub(p, s) PROVE [Register!Next]_<<data.hi, RegView>>
  BY <1>28 DEF NotifySub
<1>29. ASSUME NEW p \in Publishers, PublishDone(p) PROVE [Register!Next]_<<data.hi, RegView>>
  BY <1>29 DEF PublishDone
<1>30. ASSUME NEW t \in Shells, NEW e \in Threads, IterateStep(t, e) PROVE [Register!Next]_<<data.hi, RegView>>
  BY <1>30 DEF IterateStep
<1>31. ASSUME NEW t \in Shells, IterateDone(t) PROVE [Register!Next]_<<data.hi, RegView>>
  BY <1>31 DEF IterateDone
<1>33. ASSUME NEW t \in Publishers \cup Subscribers, InitGivesUp(t) PROVE [Register!Next]_<<data.hi, RegView>>
  BY <1>33 DEF InitGivesUp
<1>32. CASE UNCHANGED vars
  BY <1>32 DEF vars
<1>. QED
  BY <1>1, <1>2, <1>3, <1>4, <1>5, <1>6, <1>7, <1>8, <1>9, <1>10, <1>11, <1>12, <1>13, <1>14, <1>15, <1>16, <1>17, <1>18, <1>19, <1>20, <1>21, <1>22, <1>23, <1>24, <1>25, <1>26, <1>27, <1>28, <1>29, <1>30, <1>31, <1>32, <1>33
  DEF Next, Call, LockStep, PublisherStep, SubscriberStep, ShellStep


\* A topic is an atomic register: its specification implements TopicRegister.
THEOREM Refinement == Spec => RegisterSpec
<1>1. Init => Register!Init
  BY DEF Init, RegView, Threads, Register!Init, Register!Message
<1>2. IInv /\ [Next]_vars => [Register!Next]_<<data.hi, RegView>>
  BY StepRefines, LockInvWriterAlone DEF IInv
<1>. QED
  BY <1>1, <1>2, Invariance, PTL DEF Spec, RegisterSpec, Register!Spec

=============================================================================
