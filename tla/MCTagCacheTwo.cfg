CONSTANTS
  i1 = i1
  i2 = i2
  w1 = w1
  w2 = w2
  w3 = w3
  NoWorker = NoWorker
  Instances <- TwoProcess
  Workers <- ThreeWorkers
  Home <- HomeTwo
  Texts <- MCTexts
  DeviceIds <- MCDevices
  Compiles <- MCCompiles
  FindStringSubmatch <- MCFind
  ParseFloat <- MCFloat
  Creates <- OneRule
  Edits <- OneEdit
  Arrivals <- MCArrivals
  PoolSize = 2
  MaxCommits = 1
  MaxMessages = 0
SPECIFICATION FairSpec
INVARIANTS
  RefreshExclusive
  AckedTagVisible
PROPERTIES
  ImplementsSessionView
  RequestsAnswered
