SPECIFICATION Spec
CONSTANTS
  WorkModes = {"manual", "calibration"}
  Samples = 1
  MaxSockets = 1
  MaxErrors = 2
  Sensors = {"imu", "battery_state"}
  Values = {0, 1}
  RingSize = 2
  TicksPerMs = 3
  SpeedUp = 1
  SlowDown = 2
  Limit = 2
  Thrusts <- MCThrusts
  PollTicks = 4
  MaxGap = 1
  LightModes = {"manual", "auto", "cmd_vel", "calibration"}
  Armings = {"disarmed", "armed"}
  LightSafeties = {"safe", "unsafe"}
  Batteries = {"critical", "nominal"}
  Joys = {{}, {"on"}, {"off"}, {"on", "off"}}
  SoundModes = {"manual"}
  SoundSafeties = {"safe", "unsafe"}
  Times = {0, 1, 2}
  MaxCurves = 2
  Rotations = {0, 1, 2}
  Sectors = 3
  Track = {0, 1, 2, 3, 4, 5, 6}
  Depart = 3
  Return = 2
CHECK_DEADLOCK FALSE
INVARIANTS
  TypeOK
  NodesAreAlive
  ThrustIsReached
  StoppedAtEnd
PROPERTIES
  PressServed
  CalibrationServed
  StopEnds
  ClosedIsNoticed
  LatestIsPublished
  SilenceReopens
  FilterStaysBetween
  StripFollowsStatus
  ArmingIsTold
  TimeInsideCurve
  RotationIsCounted
  CarFollowsLidar
  LapIsToldOnce
