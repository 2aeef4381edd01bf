\* Liveness: no symmetry, calls are optional, threads inside the code go on.  A shell
\* walks the lists while a publisher and a subscriber come and go.
SPECIFICATION FairSpec
CONSTANTS
  p1 = p1
  p2 = p2
  s1 = s1
  s2 = s2
  sh = sh
  r1 = r1
  r2 = r2
  Publishers <- OnePublisher
  Subscribers <- OneSubscriber
  Shells <- OneShell
  Permits <- TwoPermits
  Period <- Limited
  MaxPublish = 1
  MaxLockCount = 1
  NoThread = NoThread
INVARIANTS
  NoRemovedElement
PROPERTIES
  CallsReturn
  EventuallyCurrent
CHECK_DEADLOCK FALSE
