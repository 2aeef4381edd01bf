SPECIFICATION Spec
CONSTANTS
  Statuses <- DrivingStatuses
  Speeds <- TwoSpeeds
  Positions <- ShortTrack
  NoStart = NoStart
  PollTicks = 1
  StaleTicks = 1
CONSTRAINT UntilLoss
PROPERTIES
  StartNeedsDriver
