SPECIFICATION Spec
CONSTANTS
  SenseSafety = TRUE
  SensePower = TRUE
  Joys <- FewButtons
  Batteries <- NominalVoltage
  PollTicks = 1
  JoyTicks = 1
  SeqModulus = 1
CONSTRAINT UntilLoss
INVARIANTS
  TypeOK
  ArmedInDriveMode
  ArmedIsPermitted
  SafetyDisarmsInTime
  JoyLossInTime
PROPERTIES
  ArmsOnlyOnRequest
  DisarmIsHonoured
