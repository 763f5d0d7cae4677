\* Liveness of the client's threads.
CONSTANTS
  Handles = {h1, h2}
  Invalid = Invalid
  MaxConnections = 2
  MaxSent = 1
  RecordSize = 2
  Junk = Junk
SPECIFICATION FairSpec
CHECK_DEADLOCK FALSE
PROPERTIES
  ReceiveThreadsEnd
  QueueDrains
