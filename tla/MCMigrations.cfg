SPECIFICATION FairSpec
CONSTANTS
  p1 = p1
  p2 = p2
  b1 = b1
  b2 = b2
  Processes <- MCProcesses
  Backends <- MCBackends
  Own <- MCOwn
  NoBackend = NoBackend
  Files = 6
  MaxHeld = 3
INVARIANTS
  TypeOK
  ServesMigrated
  OneMigrator
  VersionTrue
  SchemaSettled
PROPERTY StartEnds
