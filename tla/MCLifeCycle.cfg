SPECIFICATION FairSpec
CONSTANTS
  Requests = {r1, r2}
  ShutdownTimeout = 2
  Grace = 4
INVARIANTS
  TypeOK
  ServedWithPool
  SuccessDrained
  CutOnlyBy
  SignalsAreGraceful
PROPERTIES
  SignalEndsProcess
CHECK_DEADLOCK FALSE
