SPECIFICATION Spec
CONSTANTS
  Speeds = {0, 50, 150}
  MaxSpeed = 100
  PollTicks = 3
PROPERTIES
  TimeoutStopsMotor
