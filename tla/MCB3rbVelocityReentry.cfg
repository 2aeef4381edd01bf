SPECIFICATION Spec
CONSTANTS
  Statuses <- DrivingStatuses
  Speeds <- TwoSpeeds
  Positions <- ShortTrack
  NoStart = NoStart
  PollTicks = 0
  StaleTicks = 0
CONSTRAINT UntilLoss
PROPERTIES
  ReentryResets
