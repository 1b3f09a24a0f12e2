SPECIFICATION ShellSpec
CONSTANTS
  Serials = {d1}
  Jobs = {j1}
  MaxGen = 2
  MaxTask = 2
  EventCap = 2
  PageDevices = {"s1", "s2"}
  Mirrored = {"s1"}
  StageSurfaces = 2
  StageLayouts = 1
  StageToggles = 2
  StageBinds = 1
  SeatSurfaces = 2
  SeatBinds = 1
  SeatConfigs = 1
  SeatFrames = 1
  SeatChanges = 1
  PaintSurfaces = 2
  PaintPosts = 2
  RingSize = 6
  RingKeeps = 2
  RingPlain = 1
INVARIANTS
  ShellTypeOK
  FinishedOnce
  StageAtRest
  SeatTellsTruth
  PicturesReachTheScreen
  HeadersAreRead
PROPERTIES
  ShellSettles
CHECK_DEADLOCK FALSE
