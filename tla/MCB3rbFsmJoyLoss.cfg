SPECIFICATION Spec
CONSTANTS
  SenseSafety = FALSE
  SensePower = FALSE
  Joys <- ArmButton
  Batteries <- NominalVoltage
  PollTicks = 2
  JoyTicks = 2
  SeqModulus = 1
PROPERTIES
  JoyLossIsReal
