\* The mutex stays with a thread whose lock call failed: a violation.
SPECIFICATION Spec
CONSTANTS
  p1 = p1
  p2 = p2
  s1 = s1
  s2 = s2
  sh = sh
  r1 = r1
  r2 = r2
  Publishers <- TwoPublishers
  Subscribers <- OneSubscriber
  Shells <- NoShell
  Permits <- TwoPermits
  Period <- Limited
  MaxPublish = 2
  MaxLockCount = 2
  NoThread = NoThread
INVARIANTS
  MutexOwnerInside
CHECK_DEADLOCK FALSE
