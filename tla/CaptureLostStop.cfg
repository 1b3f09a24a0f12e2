SPECIFICATION FairSpec
CONSTANTS
  Serials = {d1}
  Tasks = {t1, t2}
  MaxGen = 2
  SinkCap = 1
  JoinTimesOut = TRUE
PROPERTIES
  EveryStopIsDelivered
