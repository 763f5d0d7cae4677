\* Screens of two and three tiles, of which a full frame shows them in the
\* end; masks of two bits to the byte.
CONSTANTS
  Sizes <- SmallSizes
  ClientSize <- OwnSize
  Colours = {red, green}
  Blank = Blank
  MaskUnit = 2
  FullEvery = 3
  MaxQueued = 1
  MaxChanges = 2
  MaxOther = 1
SPECIFICATION FairSpec
CHECK_DEADLOCK FALSE
INVARIANTS
  TypeOK
  InStep
  TilesTrue
PROPERTIES
  PictureCompletes
