# A TLA+ development of STD-RACING

The repository holds the software of a small autonomous racing car: a Zephyr
application for the controller board (`app/b3rb`, with its libraries under `lib/`) and
a Python process on a companion computer (`main.py`) that looks at a camera and a
lidar and sends `cmd_vel` over UDP.  This directory models the part that decides
whether the car moves - the publish/subscribe layer, the supervisor, the velocity
controller with its lap detection, and the motor output - and, each by itself, the
services around it: work queues and sensors, network, simulation, lights, sound, the
position controller, the estimator, and the companion's driver with its lidar and its
own lap detector.  TLC checks all of it on small instances; TLAPS proves the central
safety properties for every value of the constants.

Contents: [the system](#the-system), [the modules](#the-modules),
[the assumptions shared by the models](#assumptions-shared-by-the-models),
[the runs](#the-runs), [the proofs](#the-proofs),
[where code and comment disagree](#where-code-and-comment-disagree),
[what is not modelled](#what-is-not-modelled), [the plan](#the-plan).

## The system

```
 companion (Python)                     controller (Zephyr threads)
 camera -> scanline -> PD               eth_rx --> cmd_vel, joy          topics
 lidar  -> brake         --UDP-->         |
 lap detector <--UDP--  eth_tx            v
                                   fsm  <- joy, battery, safety  --> status
                              velocity  <- status, cmd_vel, manual, odometry --> actuators
                                   pwm  <- status, actuators --> servo and motor pulses
                              estimate  <- imu, wheel odometry --> odometry
                        sound, lighting <- status, ...
```

Every thread has the same shape: `k_poll` on the signals of some of its subscriptions
with a timeout of one second; `if (zros_sub_update_available) zros_sub_update` on all
of them; a decision; `zros_pub_update`.  Threads share nothing but topics.

| Component | State | Operations | What makes it hard | What makes it correct |
|---|---|---|---|---|
| zros topic (`zros_topic.c`, `zros_sub.c`, `zros_pub.c`) | message, semaphore of readers, write mutex, lists of publishers and subscribers, a signal per subscriber | publish, read, add, remove, iterate | a reader/writer lock built of two locks with 1 ms timeouts; rollback; a rate limit; test and reset of the signal in two steps | copies are whole, writers alone, permits conserved, no update is forgotten silently, calls return |
| zros node and broker | lists of nodes, topics, subscriptions | add, remove, iterate | results of timed locks ignored; a node initialised twice | a registered node stays in the list, a dead one does not; a walk ends |
| supervisor (`fsm.c`) | status (arming, mode, joystick, fuel, request counter) | automatic arming, transitions, joystick loss | several requests in one pass; wakes for joystick and battery only; reads the time before it waits | armed only past the guards, disarmed in time by the switch |
| velocity (`velocity.c`) | copies of five topics, lap state and start, filters | stop, manual, cmd_vel, AUTO with laps | waits for a topic that depends on the mode it last saw; three places reset a lap | disarmed means zero actuators; a lap has one start |
| manual and filters (`manual.c`, `mixing.c`) | copy of the joystick, filtered speed, time of the last step | filter, publish | the clock is read twice in a step, and rounded up to milliseconds | the speed stays between where it was and the thrust, and gets there in time |
| position (`position.c`) | copies of pose, trajectory, status | publish `cmd_vel` in AUTO | index walk over curves with a clock offset, times as the sender likes | a curve is followed at a time inside it |
| motors (`pwm/main.c`, `actuator_pwm.c`) | status, actuators, pulses | one loop | wakes for actuators only | disarmed means the disarmed pulse |
| work queues, sensors, safety switch (`core/workqueues`, `sense/*`) | two queues; the imu's calibration; the switch | timers, handlers, an interrupt | a calibration sleeps on the queue; presses are folded; a publication may miss its lock | a press is handled, the topic shows the switch, a calibration is served |
| satellite receiver (`sense/ubx_gnss`) | two flags shared with a callback | open, watch, stop | a flag set by one task and reset by another without a lock | a silent receiver is opened again |
| estimator (`estimate.c`) | filter state, last rotation | predict, publish | steps that are too slow are left out | no rotation is lost |
| sound (`actuate/sound`) | last status told | play | a tone blocks its thread for its length | the last tone told the arming that is |
| lighting, LEDs (`lighting.c`, `led_array`) | copies of four topics, the strip | timer, work item, write | each of the copies may miss its lock | the strip shows the status |
| ethernet (`eth_rx`, `eth_tx`) | socket, running flag, one thread and stack | start, stop, receive, send | start and stop from the shell against the running thread; an init that fails in the middle | an accepted stop takes effect |
| TCP bridge (`synapse_ethernet.c`) | socket, error count, reconnect flag | accept, send, receive | the thread that sends also blocks on receive; a closed client shows in errors only | a client that closed is noticed |
| simulation (`dream/sil`) | messages and a ring of topics shared by two threads | receive, publish, match clocks | no lock between a host thread and a Zephyr thread, a ring that fills | the last message is published |
| topic shell (`synapse_topic*.c`) | - | list, echo, hz | temporary nodes and subscribers on the stack | everything it registers it removes |
| companion driver and lidar (`main.py`, `detection/lidar.py`) | speed, mode; a distance shared with a reader thread | auto, manual, full self-driving; read packets | exceptions and Ctrl-C anywhere, one UDP datagram per command, packets that fail their CRC | leaves the car stopped; stops for what is near and drives on |
| companion lap detector (`lap_detector.py`) | start, state, a flag | follow odometry, tell | a listener thread against the driver's loop | the lap seen is told, and none that was not driven |
| companion vision (`camera`, `processing`, `detection/scanline.py`, `steering`) | last centre and error | detect, compute | no line seen | steering within its limits |

Hard behaviours and the lines where they bite are listed as hazards in `PROJECT.json`,
each with the properties that watch it.

## The modules

**`ZrosTopic`** is one topic, its publishers, its subscribers and shells that walk its
lists, statement by statement where other threads can come between.  `semRead` holds
the free permits of `_sem_read` and `held` those each thread took, `owner` and
`lockCount` are `_lock_write` with its recursion count, `data` is the message in two
halves, `pubs` and `subs` the head and the tail of the two lists, `next` the pointers in
the publishers and subscribers that link them, `at` the element a walk has come to,
`signaled` the poll signal of each subscriber, `pc` where each thread stands.
The actions follow `_zros_topic_read_write_lock` (mutex, then one permit after the
other, giving back what was taken on a timeout), `zros_topic_publish` (copy, then the
subscribers one by one with the rate limit), `zros_topic_read`, the list operations and
the iterations.  A timeout may happen at every lock.

Nothing in `zros_sub_init` and `zros_pub_init` tests whether the structure is in the list
already, so `SubInit` and `PubInit` may be called for one that is: the transmitter whose
initialisation failed after its first subscriptions and that is started again
(`eth_tx/main.c:106-132`), a fini whose removal timed out (`zros_sub.c:75`), an echo that
gave up before its fini.  `ResetNext` sets the pointer before the lock is taken, which
cuts off whatever the element led to, and `AppendNext` makes the element its own
successor if it is the tail: a publication then walks along the subscribers for ever,
holding the lock.  `Chain` is what a walk comes to, `EndlessPubs` and `EndlessSubs` say
that it never comes to the end; `listed` and `relisted` remember which elements were
appended and not removed, until one of them is initialised once more.  An init that
does not get the lock of its node leaves everything as it was (`InitGivesUp`, for a
structure that was `filled` in before), and its caller goes on all the same.

**`TopicRegister`** is the abstract specification: a register that takes publications
one at a time and is read atomically.  `ZrosTopic` implements it; the refinement
mapping lets the publication take effect when its second half is written, and a read
when its second half is copied.

**`ZrosClient`** is what the threads above assume of a topic: its latest message and a
signal.  `Signal`, `Read` and `Publish` each have an outcome in which something is
dropped - the rate limit swallows the signal, or a lock times out and the result is
ignored - and `lost` remembers it.

**`B3rbFsm`** is the supervisor's thread.  One action per blocking point or read:
`AutoArm`, `ReadNow` (the clock, before the poll), `Poll`, `ReadBattery`,
`ReadSafety`, `ReadJoy`, `Update`.  The transitions of `fsm_update` are operators on
a record, applied in the order of the code (`ArmingPass`, `ModePass`), so what one
transition does the next one sees.

**`B3rbVelocity`** is the velocity thread: `Top` reads the mode, `Poll` waits for the
topic of that mode (`Awaited`), five reads, `CheckStale`, and `Act`, which is one of
`Stop`, `Manual`, `FollowLine` (with `UpdateState`, the lap) and `FollowCmdVel`.
`Filtered` is the set of values the reference filter may return.

**`ActuatePwm`** is the motor thread: `Poll`, `ReadStatus`, `ReadActuators`, `Update`.
`timedOut` says that the poll ended by its timeout and that no actuators have come since.

**`SafetyChain`** composes `B3rbFsm` and `ActuatePwm` by `INSTANCE`: the published
status of the one is the subscribed status of the other, and one clock ticks for both.
The velocity thread in between is replaced by one that publishes anything at any time,
which covers the real one.

**`Deadlines`** puts the properties with a deadline into one run: a behaviour is one of
`SafetyChain` or one of `B3rbVelocity` (chosen in the initial state by `part`), and
what is not chosen stands still.

**`Mixing`** has `elapsed_ms` and `filter_ref` as operators on integers, and
**`Manual`** is the thread that calls them: the poll of 10 ms, the two readings of the
clock (`gap` ticks apart), the filter, the publication.  `Between` is what
`Filtered` of `B3rbVelocity` assumes of the filter.

**`WorkQueues`** has the two queues as sequences of items; timers and the switch's
interrupt submit, `Start(item)` is what each handler begins with.  The imu's calibration
keeps the high priority queue for as long as `sampling` is above zero.

**`EthService`** is receiver and transmitter as threads with a running flag, started and
stopped by shell commands at any moment.  Starting a thread that has not ended is a
state of its own, `"corrupt"`, that is not followed further.  The two differ: the
receiver sets the flag at the beginning of its initialisation and keeps it set when that
fails, so that it can never be started again; the transmitter sets it at the end, so
that two starts before that share one stack, and a failed initialisation leaves its
subscriptions behind.

**`Broker`** is the list of nodes linked through the nodes themselves, with the mutex
that is not waited for long, `zros_node_init` of a service that starts again, and
the shell commands that add a node from their stack or walk the list.

**`TcpBridge`** is the thread's walk through its sends (`at`), the error count, and
the client's connection.  Not modelled as a fault but visible in it: the error count
is not reset for a new connection, the old socket is never closed, a client that stays
silent stalls the sending, and a receive that fails is taken for a length
(`"overrun"`).

**`Gnss`** is the thread that watches the receiver and the callback beside it.

**`SilBridge`** has the host's thread, in two steps per message (store, then put the
topic into the ring), and the Zephyr thread, in two steps per topic (take, then publish
what is stored).  `dropped` remembers a full ring or a missed lock.

**`Lights`** is the work item with its four copies, each of which may miss its lock,
and the thread of the strip.  The colour of each light is a function of topics of its
own, so a behaviour follows one `light` and lets its topics change.  **`Sound`** is the buzzer's thread, which reads nothing
while it plays.  **`Position`** is the thread with the search for the current curve,
for trajectories with any times; **`Estimate`** the rotation of the wheels through the
waits, the steps left out and the predictions that are not finite.

**`Companion`** is `main.py` from its ten tries for lidar and camera to its end - the
loops of the three modes, the keys, exceptions and Ctrl-C at any step, the stops that
are sent on the way out - and the lidar's reader packet by packet.  `command` is what
the controller has heard last, `Send` delivers a datagram or not.  **`LapDetector`** is
the companion's lap detector under its lock; `away` and `crossings` count how often the
car really came back.

**`Services`** instantiates the thirteen modules of the services, from `Manual` to
`LapDetector`.  `part` chooses the one a behaviour is of; the others stand still.  Their
liveness properties are stated as `X!Fairness => X!Property`, so each is checked under
its own part's fairness and no other.

`MCServices`, `MCZrosTopic`, `MCB3rbFsm` and `MCB3rbVelocity` give constants values for TLC; the
`*Proofs` modules hold the theorems.

Definitions named `...` with a comment "Mutant of X" are wrong variants of `X`: with
the body of `X` replaced by one of them TLC must report the property that the mutant
belongs to, which shows that the property is not empty.

## Assumptions shared by the models

- A thread runs between its blocking points without taking time; a tick passes only
  while it polls, and never past the poll's timeout.  The bodies of the loops take
  microseconds against polls of a second.
- Interleaving is otherwise arbitrary: other threads act between any two steps.
- Reads and publications of a topic are atomic in the modules above `ZrosTopic`; that
  is what the theorem `Refinement` of `ZrosTopicProofs` gives.
- The data race of `zros_sub_update_available` (a plain test and a plain reset of
  `signaled`) is modelled in `ZrosTopic` as two steps.
- Fairness.  `B3rbFsm` assumes weak fairness of the thread and of the clock, `ZrosTopic`
  (in `FairSpec`) of each thread that is inside a call: Zephyr's priority scheduler
  runs every ready thread on this lightly loaded board, and the clock is a hardware
  timer.  Nothing is assumed of the environment: nobody has to publish, press or call.
  The services have an operator `Fairness` each:

  | Module | Fairness |
  |---|---|
  | `WorkQueues` | timers go on and a queue that has work runs it (weak); reads and publications do not miss their lock for ever (strong); nothing of the imu's samples, except where the property asks for the calibration to end |
  | `EthService`, `TcpBridge`, `Gnss` | the service's thread goes on; a peer that has closed comes to reset the connection |
  | `Broker` | a walk that holds the lock goes on |
  | `SilBridge` | a listener that has begun ends, the Zephyr thread goes on |
  | `Lights`, `Sound`, `Estimate` | thread, timer and queue go on (weak), locks are not missed for ever (strong) |
  | `Companion` | the driver's loop and the lidar's reader go on (weak), not every datagram is lost (strong) |
  | `LapDetector` | the driver's loop goes on |

  `B3rbVelocity`, `ActuatePwm`, `SafetyChain`, `Manual` and `Position` state no liveness
  and assume none.

## The runs

| Run | Question | Instance and bounds |
|---|---|---|
| `zros_topic` | Is the topic an atomic register, are permits conserved, writers alone, copies whole, updates announced, whoever is initialised once more? | 2 publishers, 1 rate-limited subscriber, 2 permits, 2 publications |
| `zros_topic_live` | Do calls return unless a list has no end, does a subscriber become current, is an iteration safe from removals? | 1 publisher, 1 subscriber, 1 shell, 1 publication, fairness |
| `zros_topic_leak` | Does a call that failed hold nothing? **It does not.** | 2 publishers, 2 publications |
| `broker` | Does a walk over the nodes end? **Not always.** | 1 service that starts again, 1 shell |
| `fsm` | Is the car armed only past the guards, disarmed in time; is the joystick's loss noticed; is disarm honoured? | switch and battery on, several buttons, poll and joystick limit 1 tick |
| `fsm_joy_loss` | Is a declared loss of the joystick real? **Not always.** | poll and limit 2 ticks |
| `velocity` | Do lap state and start agree, does a start stay, is a finished lap slow, does disarming stop the actuators in time? | AUTO left and entered, one speed beyond the range, a track of a few points |
| `velocity_reentry` | Is the lap reset when AUTO is entered again? **Not always.** | AUTO, MANUAL and disarmed; polls that do not wait |
| `velocity_start` | Is a start captured only from a driver that is there? **Not always.** | as above, stale after 1 |
| `deadlines` | Does the switch stop the motor within two polls, a disarmed status within one; is a silent `cmd_vel` noticed at most one poll after its limit, at every step of the loop? | chain: poll of 2 ticks, any actuators; velocity: MANUAL and CMD_VEL, poll 1 tick, stale after 2 |
| `pwm_timeout` | Is a motor that turns stopped when actuators fall silent? **It is not.** | poll of 3 ticks |
| `services` | What each service owes, mostly as liveness: see `Services` | constants in `MCServices.cfg`, discussed below |

Bounds and why they are enough.  Two publishers are what it takes for writers to
compete, and two permits for a rollback in the middle; a second publication lets an
update be lost after one was seen, and be swallowed by the rate limit.  One subscriber
is initialised again while it is the head and the tail of its list, which is what makes
the list endless, and the two publishers reset each other's place in theirs; lists of
any number of elements are the matter of the proofs.  Locks depend on counts
relative to the limit, not on the limit.  A thread that has leaked the mutex makes no
further call that takes it in the two passing runs (`MaxLockCount` is 1); that it may
take its own mutex once more is part of `zros_topic_leak` and of the theorems, which are
for any `MaxLockCount`.
`request_seq` is counted modulo `SeqModulus` (1 here: no property of
the runs looks at its value).  Ages saturate one above the largest value that a guard
or a property compares them with, so no behaviour is cut.  The poll is one to three
ticks long: what matters is whether an age is below, at or beyond a limit.

`CONSTRAINT UntilLoss` stops a behaviour after
the first dropped signal, read or publication: the state of the drop is still checked,
what follows it is not.  It keeps `fsm`, the `velocity` runs and `deadlines` small.
The behaviours it cuts are not unexamined: the theorems below hold for all of them
(`Permitted`, `CalibratesDisarmed`, `OnlyOnRequest`, `LapStarted` and `StartKept`
carry no assumption on `lost`), and the time bounds speak of `~lost` only.
`pwm_timeout` and `fsm_joy_loss` need no constraint, and `services` has none.  For the liveness property of `fsm` the
constraint is harmless, because `lost` is one of the outcomes it allows.

The bounds of `services`.  One sample of a calibration is enough for the queue to be held
while everything else is submitted; two errors for the bridge to count one that is
tolerated and one that is not; a ring of two topics to be full and to hold both
topics in either order; two values for a message to be overwritten.  A clock of three
ticks to the millisecond rounds up by one and by two, and speeds of -2 to 2 in the
filter's units with thrusts beyond them reach every quadrant, the clamp and a last
step that is shorter than the rate.  Two curves with times 0 to 2 are every order of
start, stops and now.  A sweep of three packets has both sides of the front and its back.
The topics of the lights take every value that has a colour, and the buttons of the
headlights every combination.  The track of the lap detector is long enough to depart,
to come back, and to do so again.  One open socket per service is enough to tell open from closed.

`CHECK_DEADLOCK FALSE` is set for the topic and the services.  Threads of the topic may
have made all their publications, or wait for ever for a mutex that `zros_topic_leak`
shows leaked, and calls still return by their timeouts (`CallsReturn`).  A service may
stop: the simulation ends at its shutdown, the driver's process at its end, and a
corrupt service or an overrun receive is not followed.

## The proofs

All theorems are for any constants that satisfy the module's assumption.  Where only an
instance of the module is checked, the assumption is an operator of the proof module
(`PwmConstants`, `ManualConstants`, `PositionConstants`) and the theorem has it as its
hypothesis; `ServicesAssumption` and `SafetyChainAssumption`, which TLC evaluates,
discharge it where the modules are put together.

- **`ZrosTopicProofs`**.  The inductive invariant relates the permits to the program
  counters: `semRead` and what every thread holds share out the permits, a thread at a
  writing statement holds the mutex and all permits, one at a reading statement holds
  one.  The exclusion of readers and writers (`Exclusion`, `PermitsAreConserved`) is a
  counting argument on it: the permits are a set and no element has two owners, which
  is what lets the prover do without sums.  From exclusion follow `NoTear` (a copy in
  progress equals the topic's data), `IterationSafe` and `NothingLost`.
  The two rest on the lists.  `Chain` is stated as what is in every closed set, so that
  its lemmas need no induction: what a walk comes to next, and what an append or a
  removal does to it, for lists that may be loops.  `ListsAgree` says that, until an
  element is initialised while it is listed, those appended and not removed are the ones
  the list leads to; a list changes only when nobody stands in it, or by an
  initialisation, so `IterationSafe` holds up to the first of those.  `NothingLost`
  holds for ever: who has not seen the latest publication is signalled, or ahead in the
  publisher's walk, or had it dropped, or is no longer led to (`JoinersAreNew`: who joins
  misses the message of before; an initialisation counts as a drop for all it cuts
  off).  `Refinement` shows
  that every step is a step of `TopicRegister` or leaves its variables alone.
- **`B3rbFsmProofs`**.  `DriveInv` adds to `ArmedInDriveMode` that the boot status is
  the initial one; the heart is a lemma on `FsmUpdate`: from a status armed in a drive
  mode or disarmed it leads to such a status, whatever requests come together.
  `PermitInv` says the same of the guards and of the copies the status was made of.
  `SafetyInv` bounds the time the switch has been off by the time the thread has
  polled, and says at which program counter the copy must already know.  They give
  `CalibratesDisarmed`, `Permitted`, `OnlyOnRequest` and `SafetyInTime`.  `JoyInv`
  compares the time since the joystick was heard with the thread's own count, which
  starts at the beginning of a poll, and gives `JoyLoss`.
- **`B3rbVelocityProofs`**.  `LapHasStart` is inductive once typed; `DisarmInv` is the
  counterpart of `SafetyInv`.  They give `LapStarted`, `StartKept` and `DisarmStops`;
  `SlowAfterLap` follows from what the filter may return, and `SilenceNoticed` from
  `SilenceInv`: past the test of an iteration nothing stale counts as received, and from
  the poll to the next test it ages by the ticks of that poll only.
- **`ActuatePwmProofs`**.  `MotorStops`, by a `DisarmInv` of this thread.
- **`SafetyChainProofs`**.  Every step of the chain is a step of each thread or leaves
  it alone (`FsmSteps`, `PwmSteps`), so each keeps the invariants proved for it alone.
  `EngagedInv` says that the chain's clock of the switch and the supervisor's agree
  for the length of a poll; with `SafetyInv` an armed status means that the switch has
  been off for a poll at most (`ArmedIsRecent`).  `ChainInv` adds the time since the
  status said disarmed, and `SwitchStops` follows: two polls, for polls of any length.
- **`ManualProofs`**.  `FilterFacts`: a step of the filter ends between the speed and the
  limited thrust, and comes nearer by the slower rate or arrives.  `ProgressInv`
  weighs what is left of the way against the ticks counted, those since the last
  pass excepted; that milliseconds are rounded up makes a pass count at least the ticks
  it takes away (`PassCounts`).  `Reaches` and `StaysBetween` follow.
- **`PositionProofs`**.  `CurrentFacts`: the curve found is the first that has not stopped,
  so the one before it has; `InsideCurve` needs no order of the times.
- **`ServicesProofs`**.  Every theorem is one of the whole of `Services`, from an invariant
  per part (`ServicesInv`).
  - *Broker.*  The walk over the list is stated as the least set that has the first node
    and, with each node, the next (`Walk`), so that the proof needs no induction: a closed
    set bounds what is reached (`WalkLeast`).  `NodesAreAlive` alone is not inductive, since
    the node could be left in the list by a removal that unlinks only one of two
    pointers to it.  `ShellNodeInv` adds that the shell's node does not point to itself
    and that at most one node that can be reached points to it.  Pointers to it may
    remain in nodes that a restarted service has cut off; they do no harm because such a
    node is reset before it comes back (`ServiceInitKeeps`).  `ReachedNodesLive` follows.
  - *Ethernet services.*  `EthInv`: a thread in its loop or on its way out has a socket, so
    the one that closes it never counts below zero.
  - *Buzzer.*  `BuzzerInv`: what was told was heard, and what was heard was published;
    without it a tone could be asked for an arming nobody knows.
  - *Lap detector.*  `LapInv`: a lap waits to be told only after it was done and before it
    was told, and it is done only after the car was away and came back; `ToldAtMostOnce`
    is the safety half of `LapIsToldOnce`, for thresholds of which the one to return at
    is within the one to depart at.
  - *Driver.*  `StopInv`: on the way out only full self-driving relies on a stop that was
    sent before, and a driver that has not begun has sent nothing; `EndsStopped` follows.
  - *Manual driving and the position controller.*  Their steps here are steps of `Manual`
    and `Position` (`DrivesManually`, `FollowsPath`), whose theorems carry over.

  `TypesOfServices` is the type invariant of all parts.

All safety properties and action properties of the passing runs are stated by a theorem.
Only model-checked is what has a fairness to it, which is beyond the prover:
`DisarmIsHonoured`, `CallsReturn`, `EventuallyCurrent` and the eleven liveness properties
of `services`.

## Where code and comment disagree

Each is a run that TLC ends with a counterexample; the quotes are in `PROJECT.json`.

1. `zros_topic.c:50`: a writer that times out on a permit returns an error and keeps
   the write mutex, so no other thread can publish on the topic again.
2. `fsm.c:341`: a joystick message is dated with the clock read before the poll; with
   battery messages in between, a joystick that is heard is declared lost.
3. `velocity.c:293`: `prev_mode` is older than the mode that was acted in; AUTO,
   MANUAL for one pass and AUTO again keeps the lap and its start.
4. `velocity.c:91`: after `cmd_vel` is lost the lap is reset, and the same iteration
   captures a new start from the last `cmd_vel`.
5. `pwm/main.c:144`: the timeout that logs "disarming motors" disarms nothing: an armed
   motor that turns goes on turning.
6. `zros_node.c:30`, `zros_broker.c:44`: a service that is started again initialises a
   node that is in the broker's list already.  If it is the last one it becomes its own
   successor: `zros node list` never ends and keeps the broker's mutex; otherwise the
   nodes behind it are lost.

Met on the way, without a run of their own:

- `zros_topic.c:115`, `zros_sub.c:37`: what is said of the broker's list in 6 holds of
  the lists of a topic.  The walk that does not end is that of a publication, which
  keeps the topic's lock; `CallsReturn` excuses the thread that walks, and shows that
  every other one still returns by its timeouts.  `NoLostUpdate` and `EventuallyCurrent`
  speak of the subscribers the list leads to, `NoRemovedElement` of lists nobody has
  initialised twice.
- `native_main.c:20` says that no mutex is needed "as this is single threaded"; two
  threads use the structure.  `LatestIsPublished` shows what holds nevertheless.
- `manual.c:69` says that it publishes at 1 Hz and polls for 10 ms.
- `main.py:466` sends a "redundant stop to ensure we never leave motors spinning" in
  auto; full self-driving has none, and an exception of the camera ends it with the
  last speed in force, which `velocity.c` holds for ever (see `StoppedAtEnd`, which
  leaves this case out).  A SIGTERM or SIGHUP ends the process in any mode with no stop:
  only Ctrl-C is modelled.
- `main.py:69-78` looks at the lidar "before the processing of images, for a more
  responsive braking"; what it decides is overwritten in lines 90-96.
- `lap_detector.py:5` "mirrors the state machine in velocity.c" with 0.4 m and 0.3 m for
  0.5 m and 0.1 m; and `lap_detector.py:193` says that a lap is told "exactly once
  per lap crossing", but nobody calls `reset`, so only the first one is.  `LapIsToldOnce`
  keeps the halves that hold: no more laps are told than were driven, and the one the
  detector has seen is told.

## What is not modelled

- Floating-point laws (the CasADi equations, the control law of `position.c`, the PD
  controller and the image processing of the companion, the prediction of the
  estimator): no interleaving, and out of TLC's reach.
- Byte formats (TinyFrame, protobuf, CRC) and printing: a message is a value, and a
  message that does not parse is one that is lost.
- What does nothing here: `hil` (one log line), `status_led` (empty), `baro` and
  `vesc_can` (never initialised by the code), the archived copy of the companion, the
  camera's drivers and diagnostics.
- Of the broker: the lists of publishers and subscribers each node keeps (appended to
  once and read by nobody) and its list of topics (nothing adds one).
- A publisher or subscriber whose very first init gave up at the lock of its node and
  that is used all the same: it has no topic (a null pointer) and stops at an assertion.
- In the modelled threads: the text of `status_message`, time stamps and sequence numbers
  of headers, the fuel percentage, steering (it takes the same path as speed), the
  exact pulse of an output, the pulse of the lights' brightness, the alarms of the
  buzzer other than as time, and the arithmetic of 64-bit ticks, which are ages here.
- Not in this car's build but modelled, because its code is there: the TCP bridge and
  the position controller.  The simulation runs in `native_sim` only.  `SENSE_POWER` and
  `SENSE_SAFETY` are off in the car's build; the supervisor is checked with both on.

`PROJECT.json` lists all components with their status.

## The plan

Done: every module above, the runs and the theorems.  Left, in this order:

1. The velocity thread in `SafetyChain` in place of the arbitrary publisher, with the
   steps of one thread merged to keep it small; steering beside speed.
2. The companion's commands as the `cmd_vel` of that chain, and the two lap detectors on
   one track, to bound how far they disagree.
3. Proofs: a bound on how long a stale `cmd_vel` can move the car once the velocity
   thread is in the chain.
