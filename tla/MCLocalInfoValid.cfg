CONSTANTS
  IoctlThreads = {t1}
  SrbThreads = {s1, s2}
  Names = {n1}
  MaxConnections = 1
  MaxBuses = 1
  MaxTargets = 1
  Fitting = {1, 2}
  Scanned <- AllAddresses
  None = None
SPECIFICATION Spec
INVARIANT LocalInfoValid
