CONSTANTS
  i1 = i1
  w1 = w1
  w2 = w2
  NoWorker = NoWorker
  Instances <- MCInstances
  Workers <- MCWorkers
  Home <- MCHome
  Texts <- MCTexts
  DeviceIds <- MCDevices
  Compiles <- MCCompiles
  FindStringSubmatch <- MCFind
  ParseFloat <- MCFloat
  Creates <- MCCreates
  Edits <- MCEdits
  Arrivals <- MCArrivals
  Names <- MCNames
  Written <- MCWritten
  Inet <- MCInet
  PoolSize = 2
  MaxCommits = 2
  MaxDeviceStates = 2
  MaxMessages = 1
SPECIFICATION IngestionSpec
INVARIANTS
  FreshMapsClassify
  ClassifiedHadOwner
SYMMETRY Clones
VIEW Observed
