SPECIFICATION Spec
CONSTANTS
  Serials = {d1}
  Jobs = {j1, j2}
  MaxGen = 1
  MaxTask = 2
  EventCap = 2
INVARIANTS
  ShownAtRest
CHECK_DEADLOCK FALSE
