SPECIFICATION Spec
CONSTANTS
  MaxSurface = 2
  MaxBind = 1
  MaxConfig = 1
  MaxFrame = 2
  MaxChange = 0
INVARIANTS
  KeyframesCarryConfig
CHECK_DEADLOCK FALSE
