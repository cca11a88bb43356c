CONSTANTS
  i1 = i1
  w1 = w1
  w2 = w2
  NoWorker = NoWorker
  Instances <- OneProcess
  Workers <- TwoWorkers
  Home <- HomeOne
  Names <- OneName
  Written <- OneSpelling
  Inet <- MCInet
  MaxCommits = 3
  MaxMessages = 1
SPECIFICATION FairSpec
PROPERTIES
  DeviceRequestsAnswered
