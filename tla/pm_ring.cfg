\* The target of the first slot is truncated: the first store of a round
\* refreshes no home, the second both.  Zeroed memory, with a position map
\* that starts with null positions, with zeros or with some of each.
SPECIFICATION FairSpec
CONSTANTS
  Size = 2
  HoldSize = 2
  BlockBits = 2
  BindSpan = 2
  Truncated = {0}
  Block <- BitBlock
  GetBit <- BitOf
  InitialBlocks <- Zeroed
  InitialPositions <- EmptyPosition
INVARIANTS TypeOK InStep HoldingReliable PositionInHand SlotReusable
PROPERTIES ImplementsDevice StoreReturns
