\* Two publishers and a rate-limited subscriber on a topic of two permits.
SPECIFICATION Spec
CONSTANTS
  p1 = p1
  p2 = p2
  s1 = s1
  s2 = s2
  sh = sh
  r1 = r1
  r2 = r2
  Publishers <- TwoPublishers
  Subscribers <- OneSubscriber
  Shells <- NoShell
  Permits <- TwoPermits
  Period <- Limited
  MaxPublish = 2
  MaxLockCount = 1
  NoThread = NoThread
SYMMETRY PermitPublisherSymmetry
INVARIANTS
  PermitsConserved
  WriterAlone
  NoTornRead
  NoLostUpdate
PROPERTIES
  RegisterSpec
CHECK_DEADLOCK FALSE
