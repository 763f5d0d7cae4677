\* One connection on which nothing is sent.
CONSTANTS
  Handles = {h1}
  Invalid = Invalid
  MaxConnections = 1
  MaxSent = 0
  RecordSize = 2
  Junk = Junk
SPECIFICATION FairSpec
CHECK_DEADLOCK FALSE
PROPERTIES
  ClientThreadsEnd
