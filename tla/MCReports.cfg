SPECIFICATION Spec
CONSTANTS
  Devices = {d1, d2}
  Types = {t1, t2}
  Components = {c1, c2}
  Day = 2
  Month = 1
  Threshold = 1
  Skew = 1
  MaxMessages = 3
  MaxTime = 4
INVARIANTS
  QueriesAgree
  CriticalTimesCover
  CriticalTimesNear
SYMMETRY Interchangeable
CHECK_DEADLOCK FALSE
