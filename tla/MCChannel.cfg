\* Four records of four bytes, which recv may cut anywhere.
CONSTANTS
  InputSize = 4
  FirstFps = 30
  Unset = Unset
  Stray = Stray
  MaxSent = 4
SPECIFICATION Spec
CHECK_DEADLOCK FALSE
INVARIANTS
  TypeOK
  InStep
  InjectedContiguous
