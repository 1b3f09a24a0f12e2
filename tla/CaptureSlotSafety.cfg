SPECIFICATION MCSpec
CONSTANTS
  Serials = {d1}
  Tasks = {t1, t2, t3}
  FairTasks = {f1, f2}
  MaxGen = 2
  SinkCap = 1
  JoinTimesOut = TRUE
SYMMETRY TaskSymmetry
INVARIANTS
  TypeOK
  SlotHasItsTask
  LiveIsFed
  OneFollower
  StoppedIsUnique
PROPERTIES
  GenerationOnlyGrows
  AbstractSlot
  FairCallsReturn
  FairStopIsDelivered
