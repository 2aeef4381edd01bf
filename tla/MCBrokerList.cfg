SPECIFICATION Spec
CONSTANTS
  Services = {"rx"}
PROPERTIES
  ListReturns
CHECK_DEADLOCK FALSE
