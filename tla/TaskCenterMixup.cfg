SPECIFICATION Spec
CONSTANTS
  Serials = {d1}
  Jobs = {j1}
  MaxGen = 2
  MaxTask = 2
  EventCap = 2
INVARIANTS
  TaskEndsWithItsCapture
CHECK_DEADLOCK FALSE
