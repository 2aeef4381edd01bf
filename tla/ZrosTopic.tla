------------------------------ MODULE ZrosTopic ------------------------------
(***************************************************************************)
(* One topic of the zros publish/subscribe layer (lib/synapse/zros/src).   *)
(* A topic holds the latest message, the lists of its publishers and       *)
(* subscribers, a Zephyr mutex (_lock_write) and a Zephyr counting         *)
(* semaphore (_sem_read).  A reader takes one permit of the semaphore; an  *)
(* operation that changes the message or a list takes the mutex and then   *)
(* every permit.  All of these waits give up after one millisecond.        *)
(*                                                                         *)
(* The permits of the semaphore are named, so that who holds which is      *)
(* visible: the kernel's count is the number of free permits.  A wait can  *)
(* time out at any moment at which what it waits for is unavailable.  A    *)
(* message is the serial number of the publication that wrote it, and      *)
(* memcpy moves it in two halves.  The lists are linked through the        *)
(* structures of the publishers and subscribers (sys_slist of Zephyr), and *)
(* a publisher or subscriber is named like the thread that owns it.        *)
(***************************************************************************)
EXTENDS Naturals

CONSTANTS
  Publishers,   \* threads that own a struct zros_pub of this topic
  Subscribers,  \* threads that own a struct zros_sub of this topic
  Shells,       \* threads that iterate over the topic's lists
  Permits,      \* the permits of _sem_read (six in ZROS_TOPIC_DEFINE)
  Period,       \* ticks between two notifications of a subscriber (1 / rate limit)
  MaxPublish,   \* bound: no publication is started after this many
  MaxLockCount, \* bound on the recursion count of the mutex
  NoThread      \* the owner of a free mutex, and the null pointer of a list

Threads == Publishers \cup Subscribers \cup Shells

ASSUME ZrosTopicAssumption ==
  /\ Publishers \cap Subscribers = {}
  /\ (Publishers \cup Subscribers) \cap Shells = {}
  /\ NoThread \notin Threads
  /\ Permits # {}
  /\ Period \in [Subscribers -> Nat]
  /\ MaxPublish \in Nat
  /\ MaxLockCount \in Nat

VARIABLES
  pc,        \* where each thread stands in the zros code
  op,        \* the operation each thread executes
  open,      \* threads between their init and their fini call
  owner,     \* _lock_write: the thread that owns the mutex
  lockCount, \* _lock_write: its recursion count
  semRead,   \* _sem_read: the permits that can be taken
  held,      \* the permits each thread has taken
  data,      \* the topic's message, in two halves
  pubs,      \* the topic's _pubs list: its head and its tail
  subs,      \* the topic's _subs list
  next,      \* _topic_list_node.next of each publisher and subscriber
  filled,    \* publishers and subscribers whose structure an init has filled in
  at,        \* the element a walk along a list has come to
  listed,    \* history: who was appended to a list and not removed since, ...
  relisted,  \* history: ... until one of them was initialised once more
  signaled,  \* _data_ready.signaled of each subscriber
  age,       \* ticks since _last_update_ticks, counted up to Period
  buf,       \* the message each subscriber last copied, in two halves
  missed     \* history: the code let this subscriber miss the last publication

vars == <<pc, op, open, owner, lockCount, semRead, held, data, pubs, subs,
          next, filled, at, listed, relisted, signaled, age, buf, missed>>

lockVars == <<owner, lockCount, semRead, held>>
listVars == <<pubs, subs, next, filled, at, listed, relisted>>
linkVars == <<pubs, subs, next, filled, listed, relisted>>
subVars  == <<signaled, age, buf, missed>>

WriteOps == {"publish", "add_pub", "remove_pub", "add_sub", "remove_sub"}
ReadOps  == {"read", "iterate_pub", "iterate_sub"}
Ops      == WriteOps \cup ReadOps \cup {"none"}

\* A thread is past the mutex of _zros_topic_read_write_lock, ...
Locking  == {"take", "rollback"}
\* ... holds every permit, ...
Writing  == {"crit", "write", "notify"}
\* ... or holds one permit.
Reading  == {"copy1", "copy2", "iterate", "runlock"}
PCs      == {"idle", "clear", "wlock", "release", "rlock"}
              \cup Locking \cup Writing \cup Reading

Goto(t, l)     == pc' = [pc EXCEPT ![t] = l]
Start(t, o, l) == pc' = [pc EXCEPT ![t] = l] /\ op' = [op EXCEPT ![t] = o]
Return(t)      == Start(t, "none", "idle")

Init ==
  /\ pc = [t \in Threads |-> "idle"]
  /\ op = [t \in Threads |-> "none"]
  /\ open = {}
  /\ owner = NoThread
  /\ lockCount = 0
  /\ semRead = Permits
  /\ held = [t \in Threads |-> {}]
  /\ data = [lo |-> 0, hi |-> 0]
  /\ pubs = [head |-> NoThread, tail |-> NoThread]
  /\ subs = [head |-> NoThread, tail |-> NoThread]
  /\ next = [t \in Threads |-> NoThread]
  /\ filled = {}
  /\ at = [t \in Threads |-> NoThread]
  /\ listed = {}
  /\ relisted = FALSE
  /\ signaled = [s \in Subscribers |-> FALSE]
  /\ age = [s \in Subscribers |-> 0]
  /\ buf = [s \in Subscribers |-> [lo |-> 0, hi |-> 0]]
  /\ missed = [s \in Subscribers |-> FALSE]

-----------------------------------------------------------------------------
(* The lists.  Kind is the set the elements of a list belong to.           *)

\* What a walk along the pointers comes to, from x on: that which is in every set that
\* has x and, with each element, the next.
Chain(links, Kind, x) ==
  LET Closed == {S \in SUBSET (Kind \cup {NoThread}) :
                   \A e \in S \ {NoThread} : links[e] \in S}
  IN  {y \in Kind \cup {NoThread} : \A S \in Closed : x \in S => y \in S}

InPubs == Chain(next, Publishers, pubs.head) \ {NoThread}
InSubs == Chain(next, Subscribers, subs.head) \ {NoThread}

\* A walk along this list does not come to an end.
EndlessPubs == NoThread \notin Chain(next, Publishers, pubs.head)
EndlessSubs == NoThread \notin Chain(next, Subscribers, subs.head)

\* sys_slist_append: the pointers and the list.  An element that is the tail already
\* becomes its own successor.
AppendNext(l, e) ==
  LET ended == [next EXCEPT ![e] = NoThread]
  IN  IF l.tail = NoThread THEN ended ELSE [ended EXCEPT ![l.tail] = e]

AppendList(l, e) == [head |-> IF l.tail = NoThread THEN e ELSE l.head, tail |-> e]

\* sys_slist_find_and_remove of an element that is not the head: the one before it.
Before(members, e) == {q \in members \ {e} : next[q] = e}

RemoveHead(l, e) ==
  [head |-> next[e], tail |-> IF l.tail = e THEN next[e] ELSE l.tail]

RemoveAfter(l, q, e) == [l EXCEPT !.tail = IF l.tail = e THEN q ELSE @]

\* What the history says of the two.
Enlist(e) == listed' = (IF relisted THEN {} ELSE listed \cup {e}) /\ UNCHANGED <<relisted, filled>>
Strike(e) == listed' = listed \ {e}

-----------------------------------------------------------------------------
(* Calls.  Each takes a thread from "idle" into the code below.            *)

\* The mutex of a thread that leaked it is recursive, its count is bounded.
MayLock(t) == owner = t => lockCount < MaxLockCount

\* zros_pub_init and zros_sub_init reset the pointer of the element before the lock is
\* taken, and nothing tests whether it is in the list already: a service that is started
\* again, a command whose stack is used again or a caller of a fini that failed may
\* initialise it once more.
ResetNext(e) ==
  /\ filled' = filled \cup {e}
  /\ next' = [next EXCEPT ![e] = NoThread]
  /\ relisted' = (relisted \/ e \in listed)
  /\ listed' = IF e \in listed THEN {} ELSE listed

PubInit(p) ==
  /\ pc[p] = "idle" /\ MayLock(p)
  /\ open' = open \cup {p}
  /\ ResetNext(p)
  /\ Start(p, "add_pub", "wlock")
  /\ UNCHANGED <<lockVars, data, pubs, subs, at, subVars>>

\* zros_pub_update.  The caller does not look at the result of zros_pub_init.
PubUpdate(p) ==
  /\ pc[p] = "idle" /\ p \in open /\ data.lo < MaxPublish /\ MayLock(p)
  /\ Start(p, "publish", "wlock")
  /\ UNCHANGED <<open, lockVars, data, listVars, subVars>>

PubFini(p) ==
  /\ pc[p] = "idle" /\ p \in open /\ MayLock(p)
  /\ open' = open \ {p}
  /\ Start(p, "remove_pub", "wlock")
  /\ UNCHANGED <<lockVars, data, listVars, subVars>>

\* zros_sub_init resets the signal and dates the last update to tick 0, that
\* is, to the boot: any number of ticks ago.  The subscriber, and those the list led to
\* through it, are not told of what is being published.
SubInit(s) ==
  /\ pc[s] = "idle" /\ MayLock(s)
  /\ open' = open \cup {s}
  /\ ResetNext(s)
  /\ missed' = [x \in Subscribers |-> missed[x] \/ x \in Chain(next, Subscribers, s)]
  /\ signaled' = [signaled EXCEPT ![s] = FALSE]
  /\ \E a \in 0..Period[s] : age' = [age EXCEPT ![s] = a]
  /\ Start(s, "add_sub", "wlock")
  /\ UNCHANGED <<lockVars, data, pubs, subs, at, buf>>

\* Both return before they have set anything when the lock of the node cannot be had
\* (zros_pub.c:30-32, zros_sub.c:30-32).  The caller goes on with the structure as it was
\* before; one that was never filled in stops at the first assertion.  For a caller that
\* has it open already nothing changes.
InitGivesUp(t) ==
  /\ pc[t] = "idle" /\ t \in filled \ open
  /\ open' = open \cup {t}
  /\ UNCHANGED <<pc, op, lockVars, data, listVars, subVars>>

\* zros_sub_update_available after k_poll: the signal is tested here and
\* cleared by SubClear, a step of its own.
SubCheck(s) ==
  /\ pc[s] = "idle" /\ s \in open /\ signaled[s]
  /\ Goto(s, "clear")
  /\ UNCHANGED <<op, open, lockVars, data, listVars, subVars>>

\* Mutant: the caller only tests whether there is something new.
SubClearOnly(s) ==
  /\ pc[s] = "clear"
  /\ signaled' = [signaled EXCEPT ![s] = FALSE]
  /\ Return(s)
  /\ UNCHANGED <<open, lockVars, data, listVars, age, buf, missed>>

SubClear(s) ==
  /\ pc[s] = "clear"
  /\ signaled' = [signaled EXCEPT ![s] = FALSE]
  /\ Start(s, "read", "rlock")
  /\ UNCHANGED <<open, lockVars, data, listVars, age, buf, missed>>

SubFini(s) ==
  /\ pc[s] = "idle" /\ s \in open /\ MayLock(s)
  /\ open' = open \ {s}
  /\ Start(s, "remove_sub", "wlock")
  /\ UNCHANGED <<lockVars, data, listVars, subVars>>

\* zros_topic_iterate_pub and zros_topic_iterate_sub, for the shell commands.
Iterate(t) ==
  /\ pc[t] = "idle"
  /\ \E o \in {"iterate_pub", "iterate_sub"} : Start(t, o, "rlock")
  /\ UNCHANGED <<open, lockVars, data, listVars, subVars>>

-----------------------------------------------------------------------------
(* _zros_topic_read_write_lock and _zros_topic_read_write_unlock           *)

WriteLock(t) ==
  /\ pc[t] = "wlock" /\ owner \in {NoThread, t}
  /\ owner' = t
  /\ lockCount' = lockCount + 1
  /\ Goto(t, "take")
  /\ UNCHANGED <<op, open, semRead, held, data, listVars, subVars>>

\* Mutant: the mutex is waited for with K_FOREVER.
WriteLockForever(t) == pc[t] = "wlock" /\ FALSE

WriteLockTimeout(t) ==
  /\ pc[t] = "wlock" /\ owner \notin {NoThread, t}
  /\ Return(t)
  /\ UNCHANGED <<open, lockVars, data, listVars, subVars>>

\* Mutant: the loop stops one permit too early.
TakeReadShort(t) ==
  /\ pc[t] = "take"
  /\ \E x \in semRead :
       /\ semRead' = semRead \ {x}
       /\ held' = [held EXCEPT ![t] = @ \cup {x}]
       /\ Goto(t, IF \E y \in Permits : Permits \ {y} \subseteq held'[t] THEN "crit" ELSE "take")
  /\ UNCHANGED <<op, open, owner, lockCount, data, listVars, subVars>>

TakeRead(t) ==
  /\ pc[t] = "take"
  /\ \E x \in semRead :
       /\ semRead' = semRead \ {x}
       /\ held' = [held EXCEPT ![t] = @ \cup {x}]
       /\ Goto(t, IF held'[t] = Permits THEN "crit" ELSE "take")
  /\ UNCHANGED <<op, open, owner, lockCount, data, listVars, subVars>>

\* Mutant: the error path returns without giving back what it took.
TakeReadTimeoutKeeps(t) ==
  /\ pc[t] = "take" /\ semRead = {}
  /\ Return(t)
  /\ UNCHANGED <<open, lockVars, data, listVars, subVars>>

TakeReadTimeout(t) ==
  /\ pc[t] = "take" /\ semRead = {}
  /\ Goto(t, "rollback")
  /\ UNCHANGED <<op, open, lockVars, data, listVars, subVars>>

\* One k_sem_give of the unlock, or of the error path of the lock.
GiveRead(t) ==
  /\ pc[t] \in {"release", "rollback"}
  /\ \E x \in held[t] :
       /\ held' = [held EXCEPT ![t] = @ \ {x}]
       /\ semRead' = semRead \cup {x}
  /\ UNCHANGED <<pc, op, open, owner, lockCount, data, listVars, subVars>>

\* The error path returns here; it does not unlock the mutex.
RollbackReturn(t) ==
  /\ pc[t] = "rollback" /\ held[t] = {}
  /\ Return(t)
  /\ UNCHANGED <<open, lockVars, data, listVars, subVars>>

WriteUnlock(t) ==
  /\ pc[t] = "release" /\ held[t] = {}
  /\ lockCount' = lockCount - 1
  /\ owner' = IF lockCount = 1 THEN NoThread ELSE owner
  /\ Return(t)
  /\ UNCHANGED <<open, semRead, held, data, listVars, subVars>>

-----------------------------------------------------------------------------
(* What is done under the read/write lock                                  *)

\* A subscriber that joins does not get the message published before.
AddSub(s) ==
  /\ pc[s] = "crit" /\ op[s] = "add_sub"
  /\ next' = AppendNext(subs, s)
  /\ subs' = AppendList(subs, s)
  /\ Enlist(s)
  /\ missed' = [missed EXCEPT ![s] = TRUE]
  /\ Goto(s, "release")
  /\ UNCHANGED <<op, open, lockVars, data, pubs, at, signaled, age, buf>>

AddPub(p) ==
  /\ pc[p] = "crit" /\ op[p] = "add_pub"
  /\ next' = AppendNext(pubs, p)
  /\ pubs' = AppendList(pubs, p)
  /\ Enlist(p)
  /\ Goto(p, "release")
  /\ UNCHANGED <<op, open, lockVars, data, subs, at, subVars>>

\* An element that is not in an endless list is looked for without end.
RemoveSub(s) ==
  /\ pc[s] = "crit" /\ op[s] = "remove_sub"
  /\ \/ /\ subs.head = s
        /\ subs' = RemoveHead(subs, s)
        /\ next' = [next EXCEPT ![s] = NoThread]
        /\ Strike(s)
     \/ /\ subs.head # s
        /\ \E q \in Before(InSubs, s) :
             /\ subs' = RemoveAfter(subs, q, s)
             /\ next' = [next EXCEPT ![q] = next[s], ![s] = NoThread]
        /\ Strike(s)
     \/ /\ s \notin InSubs /\ ~EndlessSubs
        /\ UNCHANGED <<subs, next, listed>>
  /\ Goto(s, "release")
  /\ UNCHANGED <<op, open, lockVars, data, pubs, filled, at, relisted, subVars>>

RemovePub(p) ==
  /\ pc[p] = "crit" /\ op[p] = "remove_pub"
  /\ \/ /\ pubs.head = p
        /\ pubs' = RemoveHead(pubs, p)
        /\ next' = [next EXCEPT ![p] = NoThread]
        /\ Strike(p)
     \/ /\ pubs.head # p
        /\ \E q \in Before(InPubs, p) :
             /\ pubs' = RemoveAfter(pubs, q, p)
             /\ next' = [next EXCEPT ![q] = next[p], ![p] = NoThread]
        /\ Strike(p)
     \/ /\ p \notin InPubs /\ ~EndlessPubs
        /\ UNCHANGED <<pubs, next, listed>>
  /\ Goto(p, "release")
  /\ UNCHANGED <<op, open, lockVars, data, subs, filled, at, relisted, subVars>>

\* zros_topic_publish: the two halves of memcpy, then the subscribers.
PublishCopy(p) ==
  /\ pc[p] = "crit" /\ op[p] = "publish"
  /\ data' = [lo |-> data.lo + 1, hi |-> data.hi]
  /\ Goto(p, "write")
  /\ UNCHANGED <<op, open, lockVars, listVars, subVars>>

PublishCopied(p) ==
  /\ pc[p] = "write"
  /\ data' = [lo |-> data.lo, hi |-> data.lo]
  /\ at' = [at EXCEPT ![p] = subs.head]
  /\ Goto(p, "notify")
  /\ UNCHANGED <<op, open, lockVars, linkVars, subVars>>

\* hz <= _rate_limit_hz: at least Period ticks have passed.
RateAllows(s) == age[s] >= Period[s]

\* The body of the loop and the way to the next element.
NotifySub(p, s) ==
  /\ pc[p] = "notify" /\ at[p] = s
  /\ at' = [at EXCEPT ![p] = next[s]]
  /\ IF RateAllows(s)
       THEN /\ signaled' = [signaled EXCEPT ![s] = TRUE]
            /\ age' = [age EXCEPT ![s] = 0]
            /\ missed' = [missed EXCEPT ![s] = FALSE]
       ELSE /\ missed' = [missed EXCEPT ![s] = TRUE]
            /\ UNCHANGED <<signaled, age>>
  /\ UNCHANGED <<pc, op, open, lockVars, data, linkVars, buf>>

\* Mutant: the loop over the subscribers ends before its last element.
PublishDoneEarly(p) ==
  /\ pc[p] = "notify"
  /\ Goto(p, "release")
  /\ UNCHANGED <<op, open, lockVars, data, listVars, subVars>>

PublishDone(p) ==
  /\ pc[p] = "notify" /\ at[p] = NoThread
  /\ Goto(p, "release")
  /\ UNCHANGED <<op, open, lockVars, data, listVars, subVars>>

-----------------------------------------------------------------------------
(* What is done under the read lock                                        *)

\* Where an iteration starts its walk; a read makes none.
StartOf(o) ==
  IF o = "iterate_pub" THEN pubs.head ELSE IF o = "iterate_sub" THEN subs.head ELSE NoThread

\* Mutant: a reader goes on without a permit.
ReadLockFree(t) ==
  /\ pc[t] = "rlock"
  /\ at' = [at EXCEPT ![t] = StartOf(op[t])]
  /\ Goto(t, IF op[t] = "read" THEN "copy1" ELSE "iterate")
  /\ UNCHANGED <<op, open, lockVars, data, linkVars, subVars>>

ReadLock(t) ==
  /\ pc[t] = "rlock"
  /\ \E x \in semRead :
       /\ semRead' = semRead \ {x}
       /\ held' = [held EXCEPT ![t] = @ \cup {x}]
  /\ at' = [at EXCEPT ![t] = StartOf(op[t])]
  /\ Goto(t, IF op[t] = "read" THEN "copy1" ELSE "iterate")
  /\ UNCHANGED <<op, open, owner, lockCount, data, linkVars, subVars>>

\* The signal of a subscriber that gives up here is already cleared.
ReadLockTimeout(t) ==
  /\ pc[t] = "rlock" /\ semRead = {}
  /\ missed' = [s \in Subscribers |-> missed[s] \/ s = t]
  /\ Return(t)
  /\ UNCHANGED <<open, lockVars, data, listVars, signaled, age, buf>>

ReadCopy(s) ==
  /\ pc[s] = "copy1"
  /\ buf' = [buf EXCEPT ![s] = [lo |-> data.lo, hi |-> buf[s].hi]]
  /\ Goto(s, "copy2")
  /\ UNCHANGED <<op, open, lockVars, data, listVars, signaled, age, missed>>

ReadCopied(s) ==
  /\ pc[s] = "copy2"
  /\ buf' = [buf EXCEPT ![s] = [lo |-> buf[s].lo, hi |-> data.hi]]
  /\ Goto(s, "runlock")
  /\ UNCHANGED <<op, open, lockVars, data, listVars, signaled, age, missed>>

\* The callback prints: it may block for long while the permit is held.
IterateStep(t, e) ==
  /\ pc[t] = "iterate" /\ at[t] = e
  /\ at' = [at EXCEPT ![t] = next[e]]
  /\ UNCHANGED <<pc, op, open, lockVars, data, linkVars, subVars>>

IterateDone(t) ==
  /\ pc[t] = "iterate" /\ at[t] = NoThread
  /\ Goto(t, "runlock")
  /\ UNCHANGED <<op, open, lockVars, data, listVars, subVars>>

ReadUnlock(t) ==
  /\ pc[t] = "runlock"
  /\ semRead' = semRead \cup held[t]
  /\ held' = [held EXCEPT ![t] = {}]
  /\ Return(t)
  /\ UNCHANGED <<open, owner, lockCount, data, listVars, subVars>>

-----------------------------------------------------------------------------

\* k_uptime_ticks advances.
Tick ==
  /\ \E s \in Subscribers : age[s] < Period[s]
  /\ age' = [s \in Subscribers |-> IF age[s] < Period[s] THEN age[s] + 1 ELSE age[s]]
  /\ UNCHANGED <<pc, op, open, lockVars, data, listVars, signaled, buf, missed>>

LockStep(t) ==
  \/ WriteLock(t) \/ WriteLockTimeout(t) \/ TakeRead(t) \/ TakeReadTimeout(t)
  \/ GiveRead(t) \/ RollbackReturn(t) \/ WriteUnlock(t)
  \/ ReadLock(t) \/ ReadLockTimeout(t) \/ ReadUnlock(t)

PublisherStep(p) ==
  \/ AddPub(p) \/ RemovePub(p) \/ PublishCopy(p) \/ PublishCopied(p)
  \/ \E s \in Subscribers : NotifySub(p, s)
  \/ PublishDone(p)

SubscriberStep(s) ==
  \/ SubCheck(s) \/ SubClear(s) \/ AddSub(s) \/ RemoveSub(s)
  \/ ReadCopy(s) \/ ReadCopied(s)

ShellStep(t) == (\E e \in Threads : IterateStep(t, e)) \/ IterateDone(t)

Call ==
  \/ \E p \in Publishers : PubInit(p) \/ PubUpdate(p) \/ PubFini(p)
  \/ \E s \in Subscribers : SubInit(s) \/ SubFini(s)
  \/ \E t \in Publishers \cup Subscribers : InitGivesUp(t)
  \/ \E t \in Shells : Iterate(t)

Next ==
  \/ Call
  \/ Tick
  \/ \E t \in Threads : LockStep(t)
  \/ \E p \in Publishers : PublisherStep(p)
  \/ \E s \in Subscribers : SubscriberStep(s)
  \/ \E t \in Shells : ShellStep(t)

Spec == Init /\ [][Next]_vars

\* Every thread is eventually scheduled and a timed wait ends, so a thread
\* inside the code goes on; nobody is obliged to call it.
Fairness ==
  /\ \A t \in Threads : WF_vars(LockStep(t))
  /\ \A p \in Publishers : WF_vars(PublisherStep(p))
  /\ \A s \in Subscribers : WF_vars(SubscriberStep(s))
  /\ \A t \in Shells : WF_vars(ShellStep(t))

FairSpec == Spec /\ Fairness

-----------------------------------------------------------------------------
(* Properties                                                              *)

\* The types of the variables; the message serial numbers and the mutex count
\* (zros_topic.c:26-91) stay natural numbers.
TypeOK ==
  /\ pc \in [Threads -> PCs]
  /\ op \in [Threads -> Ops]
  /\ open \subseteq Threads
  /\ owner \in Threads \cup {NoThread}
  /\ lockCount \in Nat
  /\ semRead \subseteq Permits
  /\ held \in [Threads -> SUBSET Permits]
  /\ data \in [lo : Nat, hi : Nat]
  /\ pubs \in [head : Publishers \cup {NoThread}, tail : Publishers \cup {NoThread}]
  /\ subs \in [head : Subscribers \cup {NoThread}, tail : Subscribers \cup {NoThread}]
  /\ next \in [Threads -> Threads \cup {NoThread}]
  /\ filled \subseteq Publishers \cup Subscribers
  /\ at \in [Threads -> Threads \cup {NoThread}]
  /\ listed \subseteq Publishers \cup Subscribers
  /\ relisted \in BOOLEAN
  /\ \A p \in Publishers : next[p] \in Publishers \cup {NoThread}
  /\ \A s \in Subscribers : next[s] \in Subscribers \cup {NoThread}
  /\ \A p \in Publishers : pc[p] = "notify" => at[p] \in Subscribers \cup {NoThread}
  /\ signaled \in [Subscribers -> BOOLEAN]
  /\ age \in [Subscribers -> Nat]
  /\ buf \in [Subscribers -> [lo : Nat, hi : Nat]]
  /\ missed \in [Subscribers -> BOOLEAN]

\* No permit of _sem_read is lost or duplicated, on the success and on the
\* error paths of the lock (zros_topic.c:40-70): each is free or held by one
\* thread, and a thread that is in none of the locked regions holds none.
PermitsConserved ==
  /\ \A x \in Permits : x \in semRead \/ \E t \in Threads : x \in held[t]
  /\ \A t \in Threads : semRead \cap held[t] = {}
  /\ \A t, u \in Threads : t # u => held[t] \cap held[u] = {}
  /\ \A t \in Threads : pc[t] \in {"idle", "clear", "wlock", "rlock"} => held[t] = {}

\* A thread that writes the message or a list is alone: nobody else writes,
\* copies or iterates (zros_topic.c:28-91).
WriterAlone ==
  \A t, u \in Threads :
    pc[t] \in Writing /\ t # u => pc[u] \notin Writing \cup Reading

\* The copy a subscriber works with is one publication, never the halves of
\* two (zros_topic.c:151 against zros_topic.c:182).
NoTornRead ==
  \A s \in Subscribers : pc[s] # "copy2" => buf[s].lo = buf[s].hi

\* A walk along a list never stands on an element that was removed from it, as long as
\* no element was initialised while it was in the list: the removal of an element that is
\* its own successor leaves it there (zros_topic.c:156-169, 202-207, 219-224 against
\* 110 and 132).
NoRemovedElement ==
  ~relisted =>
    \A t \in Threads : pc[t] \in {"notify", "iterate"} => at[t] \in listed \cup {NoThread}

\* A publisher will still come to subscriber s.
NotificationDue(s) ==
  \E p \in Publishers : pc[p] = "notify" /\ s \in Chain(next, Subscribers, at[p])

\* The publication that a subscriber has not seen is on its way to it: its
\* signal is up, it is about to read, or a publisher will still notify it,
\* unless the rate limit, a timeout or an initialisation dropped it.  The signal is
\* tested and cleared in two steps and raised before the lock is released
\* (zros_sub.c:57-58, zros_topic.c:163-172).  It says so of the subscribers the
\* topic's list leads to: one initialised twice may cut others off.
NoLostUpdate ==
  \A s \in Subscribers :
    \/ buf[s].hi = data.hi
    \/ signaled[s]
    \/ pc[s] \in {"clear", "rlock", "copy1", "copy2"}
    \/ missed[s]
    \/ s \notin InSubs
    \/ NotificationDue(s)

\* The refinement mapping.  A publication takes effect when its second half is
\* written, a read when its second half is copied.
RegView ==
  [s \in Subscribers |->
     IF pc[s] = "copy2" THEN [lo |-> buf[s].hi, hi |-> buf[s].hi] ELSE buf[s]]

Register == INSTANCE TopicRegister WITH reg <- data.hi, view <- RegView

\* The topic implements the atomic register, although publications and reads
\* are many steps of preemptible threads (zros_topic.c:137-185).
RegisterSpec == Register!Spec

\* The thread walks along a list that has no end: an element was initialised, and
\* appended, while it was the list's tail.
WalksForEver(t) ==
  \/ pc[t] = "notify" /\ EndlessSubs
  \/ pc[t] = "iterate" /\ op[t] = "iterate_sub" /\ EndlessSubs
  \/ pc[t] = "iterate" /\ op[t] = "iterate_pub" /\ EndlessPubs
  \/ pc[t] = "crit" /\ op[t] = "remove_sub" /\ EndlessSubs
  \/ pc[t] = "crit" /\ op[t] = "remove_pub" /\ EndlessPubs

\* Every call into the layer returns, unless it walks along an endless list: the
\* timeouts break every wait, also the wait for a mutex that is never released, or
\* whose owner walks for ever (zros_topic.c:35, 42, 80).
CallsReturn ==
  \A t \in Threads : (pc[t] # "idle") ~> (pc[t] = "idle" \/ WalksForEver(t))

\* When publishing has stopped, a subscriber that stays ends up with the last
\* publication, unless the rate limit, a timeout or an initialisation dropped it
\* (zros_topic.c:159-168, zros_sub.c:48-64).
EventuallyCurrent ==
  \A s \in Subscribers :
    <>[](s \in InSubs \cap open) => []<>(buf[s].hi = data.hi \/ missed[s])

\* A thread that owns the mutex is inside the region the mutex protects: the
\* caller of a lock that failed ("topic r/w lock failed") holds nothing.
MutexOwnerInside ==
  owner # NoThread => pc[owner] \in Locking \cup Writing \cup {"release"}
=============================================================================
