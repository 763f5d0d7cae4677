\* Two processors at once on disks of two blocks and of none (a size that
\* wraps), with transfers that start on the disk, at its end and behind it.
CONSTANTS
  Processors = {p1, p2}
  DiskSizes = {1, 4}
  BlocksPerMB = 2
  BlocksPerUlong = 8
  UlongRange = 32
  CapacityStep = 2
  InquirySize = 2
  Starts <- UpTo3
  Counts <- UpTo2
  Rooms <- OneOrTwo
  ShortBuffers = FALSE
  Tags = {a, b}
  None = None
SPECIFICATION Spec
SYMMETRY Symmetry
INVARIANTS
  TypeOK
  CopyOnDisk
  CapacityHonoured
PROPERTIES
  ImplementsBlockStore
