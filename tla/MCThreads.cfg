\* Two IOCTL threads and two processors over two connections.
CONSTANTS
  IoctlThreads = {t1, t2}
  SrbThreads = {s1, s2}
  Names = {n1, n2}
  MaxConnections = 2
  MaxBuses = 2
  MaxTargets = 2
  Fitting = {1, 2}
  Scanned <- FirstTwo
  None = None
SPECIFICATION Spec
SYMMETRY Symmetry
INVARIANTS
  TypeOK
  UniqueNames
  FoundEntryHasLocalInfo
  OutstandingIsInFlight
  UninitialisedOnlyInConnect
PROPERTIES
  NothingFreedInUse
  ImplementsDiskService
