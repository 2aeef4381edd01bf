SPECIFICATION DeadlinesSpec
CONSTANTS
  SenseSafety = TRUE
  SensePower = FALSE
  Joys = {{"arm"}}
  Batteries = {}
  Speeds = {150}
  PollTicks = 2
  JoyTicks = 0
  SeqModulus = 1
  MaxSpeed = 100
  NoStart = NoStart
  VelocityPollTicks = 1
  StaleTicks = 2
CONSTRAINT UntilLoss
INVARIANTS
  SwitchStopsMotor
  MotorStopsInTime
  SilenceIsNoticed
