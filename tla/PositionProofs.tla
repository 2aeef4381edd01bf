---------------------------- MODULE PositionProofs ----------------------------
(***************************************************************************)
(* Proofs about Position: for any times, in any order, and trajectories of *)
(* any length.                                                             *)
(***************************************************************************)
EXTENDS Position, WellFoundedInduction, TLAPS

\* What the proofs need of the constants.
PositionConstants == Times \subseteq Nat /\ 0 \in Times /\ MaxCurves \in Nat

LEMMA MinFacts ==
  ASSUME NEW I \in SUBSET Nat, I # {}
  PROVE  Min(I) \in I /\ \A i \in I : Min(I) <= i
<1>1. \E x \in I : \A y \in I : ~(<<y, x>> \in OpToRel(<, Nat))
  BY NatLessThanWellFounded, WFMin
<1>2. PICK x \in I : \A y \in I : ~(<<y, x>> \in OpToRel(<, Nat))
  BY <1>1
<1>3. ASSUME NEW y \in I PROVE x <= y
  <2>1. <<y, x>> \in Nat \X Nat
    OBVIOUS
  <2>2. ~(y < x)
    BY <1>2, <2>1 DEF OpToRel
  <2>. QED BY <2>2
<1>. QED BY <1>3 DEF Min

\* The first curve that has not stopped: the one before it has.
LEMMA CurrentFacts ==
  ASSUME NEW tr, NEW now, Len(Stops(tr)) \in Nat, Current(tr, now) # 0
  PROVE  /\ Current(tr, now) \in 1 .. Len(Stops(tr))
         /\ now < Stops(tr)[Current(tr, now)]
         /\ \A i \in 1 .. Len(Stops(tr)) : i < Current(tr, now) => ~(now < Stops(tr)[i])
<1> DEFINE I == {i \in 1 .. Len(Stops(tr)) : now < Stops(tr)[i]}
<1>1. I \in SUBSET Nat
  OBVIOUS
<1>2. Current(tr, now) = IF I # {} THEN Min(I) ELSE 0
  BY DEF Current, SelectInSeq
<1>3. I # {}
  BY <1>2
<1>4. Current(tr, now) \in I /\ \A i \in I : Current(tr, now) <= i
  BY <1>1, <1>2, <1>3, MinFacts
<1>. QED BY <1>4

LEMMA TrajectoryFacts ==
  ASSUME PositionConstants, NEW tr \in Trajectories
  PROVE  /\ tr.start \in Nat
         /\ \E m \in Nat : tr.stops \in [1 .. m -> Nat]
<1>1. tr.start \in Times /\ tr.stops \in UNION {[1 .. m -> Times] : m \in 0 .. MaxCurves}
  BY DEF Trajectories, BoundedSeq, SeqOf
<1>2. PICK m \in 0 .. MaxCurves : tr.stops \in [1 .. m -> Times]
  BY <1>1
<1>3. tr.stops \in [1 .. m -> Nat]
  BY <1>2 DEF PositionConstants
<1>4. m \in Nat
  BY DEF PositionConstants
<1>. QED BY <1>1, <1>3, <1>4 DEF PositionConstants

LEMMA FollowFacts ==
  ASSUME PositionConstants, NEW tr \in Trajectories, NEW now \in Times,
         Follow(tr, now).curve # 0
  PROVE  LET c == Follow(tr, now)
         IN  c.curve \in DOMAIN tr.stops /\ 0 <= c.t /\ c.t < c.T
<1> DEFINE k == Current(tr, now)
<1>1. PICK m \in Nat : tr.stops \in [1 .. m -> Nat]
  BY TrajectoryFacts
<1>2. tr.start \in Nat /\ now \in Nat
  BY TrajectoryFacts DEF PositionConstants
<1>3. k # 0 /\ ~(now < tr.start)
      /\ Follow(tr, now) = [curve |-> k, t |-> now - Begin(tr, k), T |-> Stops(tr)[k] - Begin(tr, k)]
  BY DEF Follow, Halt
<1>4. Len(Stops(tr)) \in Nat
  <2>1. CASE tr.stops = <<>>
    BY <2>1 DEF Stops
  <2>2. CASE tr.stops # <<>>
    BY <1>1, <2>2 DEF Stops
  <2>. QED BY <2>1, <2>2
<1>5. /\ k \in 1 .. Len(Stops(tr)) /\ now < Stops(tr)[k]
      /\ \A i \in 1 .. Len(Stops(tr)) : i < k => ~(now < Stops(tr)[i])
  BY <1>3, <1>4, CurrentFacts
<1>6. tr.stops # <<>>
  <2>. SUFFICES ASSUME tr.stops = <<>> PROVE FALSE
    OBVIOUS
  <2>1. Stops(tr) = <<0>>
    BY DEF Stops
  <2>. QED BY <1>2, <1>5, <2>1
<1>7. Stops(tr) = tr.stops /\ Len(Stops(tr)) = m
  BY <1>1, <1>6 DEF Stops
<1>. HIDE DEF k
<1>8. k \in 1 .. m /\ tr.stops[k] \in Nat /\ now < tr.stops[k]
  BY <1>1, <1>5, <1>7
<1>9. Begin(tr, k) \in Nat /\ Begin(tr, k) <= now
  <2>1. CASE k = 1
    BY <1>2, <1>3, <2>1 DEF Begin
  <2>2. CASE k # 1
    <3>1. k - 1 \in 1 .. m /\ k - 1 < k
      BY <1>8, <2>2
    <3>2. tr.stops[k - 1] \in Nat /\ ~(now < tr.stops[k - 1])
      BY <1>1, <1>5, <1>7, <3>1
    <3>. QED BY <1>2, <2>2, <3>2 DEF Begin
  <2>. QED BY <2>1, <2>2
<1>. QED BY <1>1, <1>2, <1>3, <1>7, <1>8, <1>9

-----------------------------------------------------------------------------

LEMMA NextTrajectory ==
  trajectory \in Trajectories /\ [Next]_vars => (trajectory \in Trajectories)'
  BY DEF Next, Poll, PublishPose, Read, AutoMode, vars

LEMMA InitTrajectory == ASSUME PositionConstants, Init PROVE trajectory \in Trajectories
<1>1. <<>> \in [1 .. 0 -> Times]
  OBVIOUS
<1>2. <<>> \in BoundedSeq(Times, MaxCurves)
  BY <1>1 DEF PositionConstants, BoundedSeq, SeqOf
<1>. QED BY <1>2 DEF PositionConstants, Init, Trajectories

\* For any times a trajectory carries: the car follows a curve the trajectory has, at a
\* time inside it, and T is not zero (position.c:84-126).
THEOREM InsideCurve == ASSUME PositionConstants PROVE Spec => TimeInsideCurve
<1> DEFINE Inside ==
      cmdVel' # cmdVel /\ cmdVel'.curve # 0 =>
        /\ cmdVel'.curve \in DOMAIN trajectory.stops
        /\ 0 <= cmdVel'.t /\ cmdVel'.t < cmdVel'.T
<1>1. trajectory \in Trajectories /\ [Next]_vars => [Inside]_vars
  <2>. SUFFICES ASSUME trajectory \in Trajectories, [Next]_vars, cmdVel' # cmdVel,
                       cmdVel'.curve # 0
                PROVE  Inside
    OBVIOUS
  <2>1. PICK now \in Times : AutoMode(now)
    BY DEF Next, Poll, PublishPose, Read, vars
  <2>2. cmdVel' = Follow(trajectory, now)
    BY <2>1 DEF AutoMode
  <2>. QED BY <2>2, FollowFacts
<1>2. Init => trajectory \in Trajectories
  BY InitTrajectory
<1>3. trajectory \in Trajectories /\ [Next]_vars => (trajectory \in Trajectories)'
  BY NextTrajectory
<1>. QED BY <1>1, <1>2, <1>3, PTL DEF Spec, TimeInsideCurve
=============================================================================
