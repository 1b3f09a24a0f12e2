SPECIFICATION PathSpec
CONSTANTS
  Starters = {c1, c2}
  Stoppers = {c2}
  Joiners = {c1}
  MaxGen = 2
  MaxWarm = 2
  MaxTask = 3
  QUEUE_CAP = 2
  MaxPts = 3
  MaxConfig = 2
  Serials = {s1, s2}
  MaxTouch = 3
INVARIANTS
  PathTypeOK
  OrphansAreCancelled
  EndIsToldOnce
  TunnelsInUseAreUp
  CancelledWarmupsAreUnused
  FingersFollowTheHand
PROPERTIES
  FramesDecode
  PathEnds
CHECK_DEADLOCK FALSE
