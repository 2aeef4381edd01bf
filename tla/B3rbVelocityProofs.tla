-------------------------- MODULE B3rbVelocityProofs --------------------------
(***************************************************************************)
(* Proofs about B3rbVelocity: for any statuses, speeds and positions, any  *)
(* time bounds, and topics that drop any message.                          *)
(***************************************************************************)
EXTENDS B3rbVelocity, TLAPS

\* How long a disarmed status can have been published while the actuators still
\* move, by the place of the thread; a copy that says ARMED is fresh.
DisarmInv ==
  ~lost =>
    /\ status.arming = "armed" => disarmed = 0
    /\ "status" \notin news => ctx.status = status
    /\ pc \in {"read_cmd_vel", "check_stale", "read_manual", "read_odom", "act"}
         /\ ctx.status.arming = "armed" => disarmed = 0
    /\ actuators # 0 => (pc = "top" => disarmed = 0) /\ disarmed <= polled

LEMMA InitInv == Init => TypeOK /\ LapHasStart /\ DisarmInv
<1>. SUFFICES ASSUME Init PROVE TypeOK /\ LapHasStart /\ DisarmInv
  OBVIOUS
<1>1. status \in StatusType
  BY DEF Init, StatusType, Modes
<1>2. ctx \in Copies
  <2>1. ctx = [status |-> status, cmdVel |-> 0, manual |-> 0, odom |-> 0]
    BY DEF Init
  <2>. QED BY <1>1, <2>1, B3rbVelocityAssumption DEF Copies, Velocities
<1>3. speedRef \in [auto : -100 .. 100, cmdVel : -100 .. 100]
  BY DEF Init
<1>4. TypeOK
  <2>1. /\ cmdVel \in Velocities /\ manual \in Velocities /\ odom \in Positions
        /\ actuators \in Velocities \cup -100 .. 100
    BY B3rbVelocityAssumption DEF Init, Velocities
  <2>2. silence \in 0 .. SilenceMax /\ polled \in 0 .. PollTicks /\ disarmed \in 0 .. PollTicks + 1
    BY B3rbVelocityAssumption DEF Init, SilenceMax
  <2>3. /\ pc = "top" /\ news = {} /\ lap = "normal" /\ start = NoStart
        /\ ever = FALSE /\ left = FALSE /\ lost = FALSE /\ mode = "unknown" /\ prevMode = "unknown"
    BY DEF Init
  <2>. QED BY <1>1, <1>2, <1>3, <2>1, <2>2, <2>3 DEF TypeOK, Modes
<1>5. DisarmInv
  <2>1. ctx.status = status
    BY DEF Init
  <2>. QED BY <2>1 DEF Init, DisarmInv
<1>. QED BY <1>4, <1>5 DEF Init, LapHasStart

-----------------------------------------------------------------------------
(* Types.                                                                  *)

LEMMA FilteredType ==
  ASSUME NEW f, NEW target, NEW v \in Filtered(f, target)
  PROVE  v \in -100 .. 100
  BY B3rbVelocityAssumption DEF Filtered, Cap

LEMMA LapType ==
  ASSUME TypeOK, NEW l \in {"normal", "started", "done"}, NEW s \in Positions \cup {NoStart}
  PROVE  /\ StartAfter(s) \in Positions \cup {NoStart}
         /\ LapAfter(l, s) \in {"normal", "started", "done"}
         /\ s # NoStart => StartAfter(s) = s
         /\ (l # "normal" => s # NoStart) =>
              (LapAfter(l, s) # "normal" => StartAfter(s) # NoStart)
<1>1. ctx.odom \in Positions
  BY DEF TypeOK, Copies
<1>2. StartAfter(s) \in {s, ctx.odom} /\ (s # NoStart => StartAfter(s) = s)
  BY DEF StartAfter
<1>3. LapAfter(l, s) \in {l, "started", "done"} /\ (StartAfter(s) = NoStart => LapAfter(l, s) = l)
  BY DEF LapAfter
<1>. QED BY <1>1, <1>2, <1>3

LEMMA FollowLineFacts ==
  ASSUME TypeOK, FollowLine
  PROVE  /\ lap' \in {"normal", "started", "done"} /\ start' \in Positions \cup {NoStart}
         /\ LapHasStart => LapHasStart'
         /\ LapHasStart /\ lap # "normal" /\ lap' # "normal" /\ prevMode = "auto" => start' = start
         /\ speedRef' \in [auto : -100 .. 100, cmdVel : -100 .. 100]
         /\ actuators' \in Velocities \cup -100 .. 100
         /\ left' \in BOOLEAN
<1> DEFINE l == IF prevMode # "auto" THEN "normal" ELSE lap
           s == IF prevMode # "auto" THEN NoStart ELSE start
<1>1. l \in {"normal", "started", "done"} /\ s \in Positions \cup {NoStart}
  BY DEF TypeOK
<1>2. lap' = LapAfter(l, s) /\ start' = StartAfter(s)
  BY DEF FollowLine
<1>3. LapHasStart => (l # "normal" => s # NoStart)
  BY DEF LapHasStart
<1>4. PICK v \in Filtered(speedRef.auto, AutoSpeed(lap')) :
        speedRef' = [speedRef EXCEPT !.auto = v] /\ PublishActuators(v)
  BY DEF FollowLine
<1>5. v \in -100 .. 100
  BY <1>4, FilteredType
<1>6. /\ speedRef' \in [auto : -100 .. 100, cmdVel : -100 .. 100]
      /\ actuators' \in Velocities \cup -100 .. 100
  BY <1>4, <1>5 DEF TypeOK, PublishActuators, Publish
<1>7. left' \in BOOLEAN
  BY DEF FollowLine, TypeOK
<1>8. LapHasStart /\ prevMode = "auto" /\ lap # "normal" => s = start /\ s # NoStart
  BY DEF LapHasStart
<1>. HIDE DEF l, s
<1>. QED BY <1>1, <1>2, <1>3, <1>6, <1>7, <1>8, LapType DEF LapHasStart

LEMMA LossType == TypeOK /\ [Next]_vars => lost' \in BOOLEAN
<1>. SUFFICES ASSUME lost \in BOOLEAN, [Next]_vars PROVE lost' \in {TRUE, lost}
  BY DEF TypeOK
<1>1. CASE Act
  BY <1>1 DEF Act, Stop, Manual, FollowLine, FollowCmdVel, PublishActuators, Publish
<1>2. CASE ReadStatus \/ ReadCmdVel \/ ReadManual \/ ReadOdom
  BY <1>2 DEF ReadStatus, ReadCmdVel, ReadManual, ReadOdom, Read
<1>3. CASE Top \/ Poll \/ CheckStale \/ Tick
  BY <1>3 DEF Top, Poll, CheckStale, Tick
<1>4. CASE Environment
  BY <1>4 DEF Environment, PublishStatus, PublishCmdVel, PublishManual, PublishOdom, Signal
<1>5. CASE UNCHANGED vars
  BY <1>5 DEF vars
<1>. QED BY <1>1, <1>2, <1>3, <1>4, <1>5 DEF Next, Loop

LEMMA NextTypeOK == TypeOK /\ [Next]_vars => TypeOK'
<1>. SUFFICES ASSUME TypeOK, [Next]_vars PROVE TypeOK'
  OBVIOUS
<1>. USE B3rbVelocityAssumption DEF TypeOK, topicVars, lapVars, outVars
<1>0. lost' \in BOOLEAN
  BY LossType
<1>1. CASE Top
  BY <1>1 DEF Top, Copies, StatusType
<1>2. CASE Poll
  BY <1>2 DEF Poll
<1>3. CASE ReadStatus
  <2>1. ctx' \in Copies
    BY <1>3 DEF ReadStatus, Read, Copies
  <2>. QED BY <1>0, <1>3, <2>1 DEF ReadStatus, Read
<1>4. CASE ReadCmdVel
  <2>1. ctx' \in Copies
    BY <1>4 DEF ReadCmdVel, Read, Copies
  <2>. QED BY <1>0, <1>4, <2>1 DEF ReadCmdVel, Read, SilenceMax
<1>5. CASE CheckStale
  <2>1. /\ lap' \in {"normal", "started", "done"} /\ start' \in Positions \cup {NoStart}
        /\ ever' \in BOOLEAN /\ left' \in BOOLEAN
    <3>1. CASE ever /\ silence > StaleTicks
      BY <1>5, <3>1 DEF CheckStale
    <3>2. CASE ~(ever /\ silence > StaleTicks)
      BY <1>5, <3>2 DEF CheckStale
    <3>. QED BY <3>1, <3>2
  <2>2. /\ pc' = "read_manual"
        /\ UNCHANGED <<topicVars, news, ctx, lost, mode, prevMode, silence, outVars, polled, disarmed>>
    BY <1>5 DEF CheckStale
  <2>. QED BY <2>1, <2>2
<1>6. CASE ReadManual
  <2>1. ctx' \in Copies
    BY <1>6 DEF ReadManual, Read, Copies
  <2>. QED BY <1>0, <1>6, <2>1 DEF ReadManual, Read
<1>7. CASE ReadOdom
  <2>1. ctx' \in Copies
    BY <1>7 DEF ReadOdom, Read, Copies
  <2>. QED BY <1>0, <1>7, <2>1 DEF ReadOdom, Read
<1>8. CASE Act
  <2>1. /\ lap' \in {"normal", "started", "done"} /\ start' \in Positions \cup {NoStart}
        /\ speedRef' \in [auto : -100 .. 100, cmdVel : -100 .. 100]
        /\ actuators' \in Velocities \cup -100 .. 100
        /\ left' \in BOOLEAN
    <3>1. CASE Stop
      BY <3>1 DEF Stop, PublishActuators, Publish, Velocities
    <3>2. CASE Manual
      BY <3>2 DEF Manual, PublishActuators, Publish, Copies
    <3>3. CASE FollowLine
      BY <3>3, FollowLineFacts
    <3>4. CASE FollowCmdVel
      <4>1. PICK v \in Filtered(speedRef.cmdVel, ctx.cmdVel) :
              speedRef' = [speedRef EXCEPT !.cmdVel = v] /\ PublishActuators(v)
        BY <3>4 DEF FollowCmdVel
      <4>2. v \in -100 .. 100
        BY <4>1, FilteredType
      <4>. QED BY <3>4, <4>1, <4>2 DEF FollowCmdVel, PublishActuators, Publish
    <3>. QED BY <1>8, <3>1, <3>2, <3>3, <3>4 DEF Act
  <2>. QED BY <1>0, <1>8, <2>1 DEF Act
<1>9. CASE Environment
  <2>1. /\ status' \in StatusType /\ cmdVel' \in Velocities /\ manual' \in Velocities
        /\ odom' \in Positions /\ disarmed' \in {0, disarmed}
    BY <1>9 DEF Environment, PublishStatus, PublishCmdVel, PublishManual, PublishOdom,
                StatusType, Velocities
  <2>2. news' \subseteq {"status", "cmd_vel", "manual", "odom"}
    BY <1>9 DEF Environment, PublishStatus, PublishCmdVel, PublishManual, PublishOdom, Signal
  <2>3. UNCHANGED <<pc, ctx, mode, prevMode, lap, start, ever, silence, speedRef, actuators,
                    polled, left>>
    BY <1>9 DEF Environment, PublishStatus, PublishCmdVel, PublishManual, PublishOdom, threadVars
  <2>. QED BY <1>0, <2>1, <2>2, <2>3
<1>10. CASE Tick
  BY <1>10 DEF Tick, Saturate, SilenceMax
<1>11. CASE UNCHANGED vars
  BY <1>11 DEF vars
<1>. QED BY <1>1, <1>2, <1>3, <1>4, <1>5, <1>6, <1>7, <1>8, <1>9, <1>10, <1>11 DEF Next, Loop

-----------------------------------------------------------------------------
(* The lap.                                                                *)

\* The steps that change the lap or its start.
LEMMA LapSteps ==
  ASSUME TypeOK, [Next]_vars
  PROVE  \/ FollowLine
         \/ lap' = "normal" /\ start' = NoStart
         \/ UNCHANGED <<lap, start>>
<1>1. CASE CheckStale
  BY <1>1 DEF CheckStale, lapVars
<1>2. CASE Act
  BY <1>2 DEF Act, Stop, Manual, FollowCmdVel
<1>3. CASE Top \/ Poll \/ ReadStatus \/ ReadCmdVel \/ ReadManual \/ ReadOdom
  BY <1>3 DEF Top, Poll, ReadStatus, ReadCmdVel, ReadManual, ReadOdom, lapVars
<1>4. CASE Environment \/ Tick
  BY <1>4 DEF Environment, PublishStatus, PublishCmdVel, PublishManual, PublishOdom,
              Tick, threadVars, lapVars
<1>5. CASE UNCHANGED vars
  BY <1>5 DEF vars
<1>. QED BY <1>1, <1>2, <1>3, <1>4, <1>5 DEF Next, Loop

LEMMA NextLapHasStart == TypeOK /\ LapHasStart /\ [Next]_vars => LapHasStart'
  BY LapSteps, FollowLineFacts DEF LapHasStart

\* The reset on entering AUTO leaves the lap normal: the start it captures is
\* where the car is.
LEMMA ResetIsNormal ==
  ASSUME TypeOK, FollowLine, prevMode # "auto"
  PROVE  lap' = "normal"
<1>1. lap' = LapAfter("normal", NoStart)
  BY DEF FollowLine
<1>2. ctx.odom \in Int
  BY B3rbVelocityAssumption DEF TypeOK, Copies
<1>3. StartAfter(NoStart) \in {NoStart, ctx.odom} /\ Abs(ctx.odom - ctx.odom) = 0
  BY <1>2 DEF StartAfter, Abs
<1>. QED BY <1>1, <1>3 DEF LapAfter

-----------------------------------------------------------------------------
(* Disarming.                                                              *)

\* A loss is remembered.
LEMMA LossStays == [Next]_vars /\ lost => lost'
<1>. SUFFICES ASSUME [Next]_vars, lost PROVE lost'
  OBVIOUS
<1>1. CASE Act
  BY <1>1 DEF Act, Stop, Manual, FollowLine, FollowCmdVel, PublishActuators, Publish
<1>2. CASE ReadStatus \/ ReadCmdVel \/ ReadManual \/ ReadOdom
  BY <1>2 DEF ReadStatus, ReadCmdVel, ReadManual, ReadOdom, Read
<1>3. CASE Top \/ Poll \/ CheckStale \/ Tick
  BY <1>3 DEF Top, Poll, CheckStale, Tick
<1>4. CASE Environment
  BY <1>4 DEF Environment, PublishStatus, PublishCmdVel, PublishManual, PublishOdom, Signal
<1>5. CASE UNCHANGED vars
  BY <1>5 DEF vars
<1>. QED BY <1>1, <1>2, <1>3, <1>4, <1>5 DEF Next, Loop

LEMMA NextDisarmInv == TypeOK /\ DisarmInv /\ [Next]_vars => DisarmInv'
<1>. SUFFICES ASSUME TypeOK, DisarmInv, [Next]_vars, ~lost' PROVE DisarmInv'
  BY DEF DisarmInv
<1>. ~lost
  BY LossStays
<1>. USE DEF DisarmInv, topicVars, lapVars, outVars
<1>0. polled \in Nat /\ disarmed \in Nat /\ ctx \in Copies
  BY B3rbVelocityAssumption DEF TypeOK
<1>1. CASE Top
  BY <1>0, <1>1 DEF Top
<1>2. CASE Poll
  BY <1>2 DEF Poll
<1>3. CASE ReadStatus
  <2>1. ctx'.status = status
    BY <1>0, <1>3 DEF ReadStatus, Read, Copies
  <2>. QED BY <1>3, <2>1 DEF ReadStatus, Read
<1>4. CASE ReadCmdVel
  <2>1. ctx'.status = ctx.status
    BY <1>0, <1>4 DEF ReadCmdVel, Read, Copies
  <2>. QED BY <1>4, <2>1 DEF ReadCmdVel, Read
<1>5. CASE CheckStale
  BY <1>5 DEF CheckStale
<1>6. CASE ReadManual
  <2>1. ctx'.status = ctx.status
    BY <1>0, <1>6 DEF ReadManual, Read, Copies
  <2>. QED BY <1>6, <2>1 DEF ReadManual, Read
<1>7. CASE ReadOdom
  <2>1. ctx'.status = ctx.status
    BY <1>0, <1>7 DEF ReadOdom, Read, Copies
  <2>. QED BY <1>7, <2>1 DEF ReadOdom, Read
<1>8. CASE Act
  <2>1. ctx.status.arming = "armed" \/ actuators' = 0
    BY <1>8 DEF Act, Stop, Manual, FollowLine, FollowCmdVel, Armed, PublishActuators, Publish
  <2>. QED BY <1>0, <1>8, <2>1 DEF Act
<1>9. CASE Environment
  BY <1>0, <1>9 DEF Environment, PublishStatus, PublishCmdVel, PublishManual, PublishOdom,
                    Signal, threadVars
<1>10. CASE Tick
  BY <1>0, <1>10, B3rbVelocityAssumption DEF Tick, Saturate
<1>11. CASE UNCHANGED vars
  BY <1>11 DEF vars
<1>. QED BY <1>1, <1>2, <1>3, <1>4, <1>5, <1>6, <1>7, <1>8, <1>9, <1>10, <1>11 DEF Next, Loop

-----------------------------------------------------------------------------
(* The theorems.                                                           *)

LEMMA Invariance == Spec => [](TypeOK /\ LapHasStart /\ DisarmInv)
<1>1. TypeOK /\ LapHasStart /\ DisarmInv /\ [Next]_vars => (TypeOK /\ LapHasStart /\ DisarmInv)'
  BY NextTypeOK, NextLapHasStart, NextDisarmInv
<1>. QED BY <1>1, InitInv, PTL DEF Spec

\* Every variable keeps its type, and what the filters return its range.
THEOREM TypeCorrect == Spec => []TypeOK
  BY Invariance, PTL

\* For any track: a lap under way has a start (velocity.c:86-121, 248-252).
THEOREM LapStarted == Spec => []LapHasStart
  BY Invariance, PTL

\* For any track and any modes: the start of a lap under way does not move
\* (velocity.c:90-96).
THEOREM StartKept == Spec => StartIsKept
<1> DEFINE Kept == lap # "normal" /\ lap' # "normal" => start' = start
<1>1. TypeOK /\ LapHasStart /\ [Next]_vars => [Kept]_vars
  <2>. SUFFICES ASSUME TypeOK, LapHasStart, [Next]_vars PROVE Kept
    OBVIOUS
  <2>1. CASE FollowLine
    BY <2>1, FollowLineFacts, ResetIsNormal
  <2>. QED BY <2>1, LapSteps
<1>. QED BY <1>1, Invariance, PTL DEF Spec, StartIsKept

\* For every length of the poll: a disarmed status stops the actuators before
\* the poll is over, if nothing is dropped (velocity.c:203-233, 265).
THEOREM DisarmStops == Spec => []DisarmStopsInTime
<1>1. TypeOK /\ DisarmInv => DisarmStopsInTime
  BY B3rbVelocityAssumption DEF TypeOK, DisarmInv, DisarmStopsInTime
<1>. QED BY <1>1, Invariance, PTL

-----------------------------------------------------------------------------
(* The speed after the lap, and the silence of cmd_vel.                    *)

\* Whatever the filter remembers of an earlier speed: after the lap the speed asked for
\* does not grow above the cap (velocity.c:163-171).
THEOREM SlowAfterLap == Spec => DoneIsSlow
<1> DEFINE Slow ==
      lap' = "done" /\ speedRef'.auto > speedRef.auto => speedRef'.auto <= Cap
<1>1. TypeOK /\ [Next]_vars => [Slow]_vars
  <2>. SUFFICES ASSUME TypeOK, [Next]_vars PROVE Slow
    OBVIOUS
  <2>0. speedRef.auto \in Int
    BY DEF TypeOK
  <2>1. CASE FollowLine
    <3>1. PICK v \in Filtered(speedRef.auto, AutoSpeed(lap')) :
            speedRef' = [speedRef EXCEPT !.auto = v]
      BY <2>1 DEF FollowLine
    <3>2. speedRef'.auto = v /\ v \in -100 .. 100
      BY <3>1, FilteredType DEF TypeOK
    <3>3. lap' = "done" => AutoSpeed(lap') \in {0, Cap}
      BY DEF AutoSpeed
    <3>4. AutoSpeed(lap') \in {0, Cap} /\ v > speedRef.auto => v <= Cap
      BY <2>0, <3>1, <3>2 DEF Filtered, Cap
    <3>. QED BY <3>2, <3>3, <3>4
  <2>2. CASE FollowCmdVel
    <3>1. speedRef'.auto = speedRef.auto
      BY <2>2 DEF FollowCmdVel, TypeOK
    <3>. QED BY <2>0, <3>1
  <2>3. CASE UNCHANGED speedRef
    BY <2>0, <2>3
  <2>4. UNCHANGED speedRef \/ FollowLine \/ FollowCmdVel
    <3>1. CASE Act
      BY <3>1 DEF Act, Stop, Manual
    <3>2. CASE Loop /\ ~Act
      BY <3>2 DEF Loop, Top, Poll, ReadStatus, ReadCmdVel, CheckStale, ReadManual, ReadOdom, outVars
    <3>3. CASE Environment \/ Tick \/ UNCHANGED vars
      BY <3>3 DEF Environment, PublishStatus, PublishCmdVel, PublishManual, PublishOdom, Tick,
                  threadVars, outVars, vars
    <3>. QED BY <3>1, <3>2, <3>3 DEF Next
  <2>. QED BY <2>1, <2>2, <2>3, <2>4
<1>. QED BY <1>1, Invariance, PTL DEF Spec, DoneIsSlow

\* Past the test of an iteration a cmd_vel that counts as received is not stale, and
\* from the poll to the next test it ages by the ticks of that poll only.
SilenceInv ==
  ever =>
    /\ pc \in {"read_manual", "read_odom", "act", "top"} => silence <= StaleTicks
    /\ pc \in {"poll", "read_status", "read_cmd_vel", "check_stale"} =>
         silence <= StaleTicks + polled

LEMMA NextSilenceInv == TypeOK /\ SilenceInv /\ [Next]_vars => SilenceInv'
<1>. SUFFICES ASSUME TypeOK, SilenceInv, [Next]_vars PROVE SilenceInv'
  OBVIOUS
<1>0. silence \in Nat /\ StaleTicks \in Nat /\ polled \in Nat
  BY B3rbVelocityAssumption DEF TypeOK, SilenceMax
<1>. USE DEF SilenceInv, lapVars
<1>1. CASE Top
  BY <1>0, <1>1 DEF Top
<1>2. CASE Poll \/ ReadStatus
  BY <1>2 DEF Poll, ReadStatus
<1>3. CASE ReadCmdVel
  <2>1. CASE "cmd_vel" \in news
    BY <1>0, <1>3, <2>1 DEF ReadCmdVel
  <2>2. CASE "cmd_vel" \notin news
    <3>1. (ever' <=> ever) /\ silence' = silence /\ polled' = polled /\ pc' = "check_stale"
      BY <1>3, <2>2, Zenon DEF ReadCmdVel
    <3>. QED BY <1>3, <3>1 DEF ReadCmdVel
  <2>. QED BY <2>1, <2>2
<1>4. CASE CheckStale
  <2>1. ~ever' \/ (ever' = ever /\ ~(ever /\ silence > StaleTicks))
    BY <1>4, Zenon DEF CheckStale
  <2>2. /\ silence' = silence /\ pc' = "read_manual"
        /\ silence > StaleTicks \/ silence <= StaleTicks
    BY <1>0, <1>4 DEF CheckStale
  <2>. QED BY <2>1, <2>2, Zenon
<1>5. CASE ReadManual \/ ReadOdom \/ Act
  BY <1>5 DEF ReadManual, ReadOdom, Act
<1>6. CASE Tick
  <2>1. /\ pc = "poll" /\ pc' = "poll" /\ (ever' <=> ever) /\ polled' = polled + 1
        /\ silence' = Saturate(silence + 1, SilenceMax)
    BY <1>6, Zenon DEF Tick
  <2>2. polled <= PollTicks /\ PollTicks \in Nat
    BY B3rbVelocityAssumption DEF TypeOK
  <2>3. silence' <= silence + 1
    BY <1>0, <2>1, <2>2 DEF Saturate, SilenceMax
  <2>4. silence' \in Nat
    BY <1>0, <2>1, <2>2 DEF Saturate, SilenceMax
  <2>. QED BY <1>0, <2>1, <2>3, <2>4
<1>7. CASE Environment \/ UNCHANGED vars
  BY <1>7 DEF Environment, PublishStatus, PublishCmdVel, PublishManual, PublishOdom, threadVars,
              vars
<1>. QED BY <1>1, <1>2, <1>3, <1>4, <1>5, <1>6, <1>7 DEF Next, Loop

\* For any length of the poll and of the limit: a cmd_vel that falls silent counts as
\* received for the limit and one poll at most (velocity.c:203-233, 245-253).
THEOREM SilenceNoticed == Spec => []SilenceIsNoticed
<1>1. Init => SilenceInv
  BY B3rbVelocityAssumption DEF Init, SilenceInv
<1>2. TypeOK /\ SilenceInv => SilenceIsNoticed
  BY B3rbVelocityAssumption DEF TypeOK, SilenceInv, SilenceIsNoticed, SilenceMax
<1>. QED BY <1>1, <1>2, NextSilenceInv, Invariance, PTL DEF Spec
=============================================================================
