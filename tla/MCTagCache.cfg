CONSTANTS
  i1 = i1
  i2 = i2
  w1 = w1
  w2 = w2
  w3 = w3
  NoWorker = NoWorker
  Instances <- OneProcess
  Workers <- TwoWorkers
  Home <- HomeOne
  Texts <- MCTexts
  DeviceIds <- MCDevices
  Compiles <- MCCompiles
  FindStringSubmatch <- MCFind
  ParseFloat <- MCFloat
  Creates <- MCCreates
  Edits <- MCEdits
  Arrivals <- MCArrivals
  PoolSize = 2
  MaxCommits = 2
  MaxMessages = 2
SPECIFICATION Spec
INVARIANTS
  TypeOK
  CacheIsSnapshot
  WindowOnlyLoses
  OrderOnlyPicks
SYMMETRY Clones
