\* A client of the stream port that comes while the server is terminated.
CONSTANTS
  Handles = {h1}
  Invalid = Invalid
  Slots = 1
  MaxClients = 1
  MaxStarts = 1
  MaxArrivals = 0
  MaxStreams = 1
SPECIFICATION Spec
CHECK_DEADLOCK FALSE
INVARIANTS
  StreamingStopped
