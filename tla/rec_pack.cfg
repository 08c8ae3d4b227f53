\* Three positions in two blocks of the next level; a ring shorter than the
\* long-term area.
SPECIFICATION Spec
CONSTANTS
  Size = 3
  HoldSize = 2
  BlockBits = 1
  BindSpan = 1
  Truncated = {}
  Block <- BitBlock
  GetBit <- BitOf
  BackSize = 2
  PerBlock = 2
  InitialBlocks <- Zeroed
  InitialPositions <- ZeroPosition
PROPERTY ImplementsPMWoram
