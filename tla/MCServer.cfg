\* Two starts and three clients.
CONSTANTS
  Handles = {h1, h2, h3}
  Invalid = Invalid
  Slots = 2
  MaxClients = 2
  MaxStarts = 2
  MaxArrivals = 3
  MaxStreams = 1
SPECIFICATION FairSpec
CONSTRAINT OnlyCalm
CHECK_DEADLOCK FALSE
INVARIANTS
  TypeOK
  AtMostMaxClients
  SlotsKnowClients
  
PROPERTIES
  
  WaitingAccepted
  ListenersEnd
