SPECIFICATION Spec
CONSTANTS
  LogWindows = {w1}
  Capacity = 3
  SmallerCapacity = 2
  MaxLine = 4
  MaxLogCalls = 2
  RepeatedLines = {4}
  MaxHits = 6
  Devices = {d1, d2}
  Steps = 2
  Pushes = {t1}
  Pulls = {t2}
  MaxProgress = 2
  MaxDownload = 2
  InstallerSize = 2
  DOWNLOAD_ATTEMPTS = 2
  OutLines = 1
  ErrLines = 3
  PipeCap = 1
  ChanCap = 1
  LineCap = 1
  Windows = {w1, w2}
  MaxGen = 2
  MaxClick = 3
  ClientEventCap = 2
  Frames = {"f", "g"}
  MaxDepth = 2
  MaxCauses = 2
  FirstLibrary <- DefaultLibrary
  Libraries <- SampleLibraries
  MaxCalls = 2
  Keys = {"capacity", "adb"}
  Values = {0, 1}
  Calls = {p1, p2}
  Closing = closing
  EventCap = 1
  SinkCap = 1
INVARIANT LinesAreWhole
CHECK_DEADLOCK FALSE
