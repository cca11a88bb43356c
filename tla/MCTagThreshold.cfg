CONSTANTS
  i1 = i1
  i2 = i2
  w1 = w1
  w2 = w2
  w3 = w3
  NoWorker = NoWorker
  Instances <- OneProcess
  Workers <- TwoWorkers
  Home <- HomeOne
  Texts <- MCTexts
  DeviceIds <- MCDevices
  Compiles <- MCCompiles
  FindStringSubmatch <- MCFind
  ParseFloat <- MCFloatE
  Creates <- MCThreshold
  Edits <- MCEdits
  Arrivals <- MCArrivals
  PoolSize = 2
  MaxCommits = 1
  MaxMessages = 1
SPECIFICATION Spec
INVARIANTS
  ThresholdHarmless
