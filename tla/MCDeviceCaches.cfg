CONSTANTS
  i1 = i1
  w1 = w1
  w2 = w2
  NoWorker = NoWorker
  Instances <- OneProcess
  Workers <- TwoWorkers
  Home <- HomeOne
  Names <- MCNames
  Written <- MCWritten
  Inet <- MCInet
  MaxCommits = 3
  MaxMessages = 1
SPECIFICATION Spec
INVARIANTS
  TypeOK
  MapsAreCommitted
  AttributionSound
  ReportRowsTrue
  AckedDeviceShown
  MessagesKeepTheirDevice
PROPERTY ImplementsDeviceView
SYMMETRY Clones
