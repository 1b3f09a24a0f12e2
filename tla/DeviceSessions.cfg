SPECIFICATION FairSpec
CONSTANTS
  Serials = {d1}
  Openers = {c1, c2}
  Listers = {c2}
  Enders = {c3}
  Refreshers = {r1, r2}
  NightCallers = {n1}
  MaxGen = 2
  MaxTool = 2
  MaxTurn = 2
  PipeCap = 2
  HANDSHAKE_LINE_LIMIT = 2
  DrainTimesOut = FALSE
  MaxAppear = 2
  MaxOpens = 1
  MaxSlot = 2
  MaxWrites = 2
  EventCap = 1
INVARIANTS
  TypeOK
  ShellIsTruthful
  CatalogIsShown
  OnePoller
PROPERTIES
  BrowseKeepsItsSessions
  CallsReturn
  DeviceConverges
CHECK_DEADLOCK FALSE
