SPECIFICATION Spec
CONSTANTS
  Statuses <- LapStatuses
  Speeds <- OneSpeed
  Positions <- ShortTrack
  NoStart = NoStart
  PollTicks = 1
  StaleTicks = 0
CONSTRAINT UntilLoss
INVARIANTS
  TypeOK
  LapHasStart
  DisarmStopsInTime
PROPERTIES
  DoneIsSlow
  StartIsKept
