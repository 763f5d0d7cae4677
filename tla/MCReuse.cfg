\* One SCSI id for three connections: it runs out, and is given out again while
\* the old device may still be listed; the third connection is rolled back after
\* its device already exists.
CONSTANTS
  IoctlThreads = {t1}
  SrbThreads = {s1}
  Names = {n1, n2}
  MaxConnections = 3
  MaxBuses = 1
  MaxTargets = 1
  Fitting = {1, 2}
  Scanned <- AllAddresses
  None = None
SPECIFICATION FairSpec
INVARIANTS
  CountIsConnected
  ListedEntryAllocated
  AddressNotShared
PROPERTIES
  RequestsReturn
  MissingDeleted
  ConnectedDiskFound
  ImplementsDiskService
