\* Two connections in turn, on handles that may be the same, and two records.
CONSTANTS
  Handles = {h1, h2}
  Invalid = Invalid
  MaxConnections = 2
  MaxSent = 2
  RecordSize = 2
  Junk = Junk
SPECIFICATION Spec
SYMMETRY Symmetry
CHECK_DEADLOCK FALSE
INVARIANTS
  TypeOK
  QueueConserved
  InjectedInOrder
  NothingSkipped
  ButtonsFollow
PROPERTIES
  EndsForAReason
