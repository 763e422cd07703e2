SPECIFICATION Spec
CONSTANTS
  IdleTimeout = 5
  MaxDuration = 35
  MinBytes = 3
  MinWindow = 6
  MinGrace = 7
  Horizon = 180
INVARIANTS
  DetectionLatency
  EndedForCause
  FloorOverTwoWindows
CHECK_DEADLOCK FALSE
