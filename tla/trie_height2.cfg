\* Four nodes in two rows; leaves at two depths; a ring shorter than the trie,
\* whose first slot the refresh reaches one node short, as the double
\* arithmetic may (at larger sizes).
SPECIFICATION Spec
CONSTANTS
  Branching = 2
  NumPositions = 6
  MaxLeaf = 1
  PtrBits = 8
  OneWrite = FALSE
  HoldSize = 2
  BindSpan = 16
  Truncated = {0}
  InitialNodes <- Garbage
  MaxStores = 4
INVARIANTS TypeOK ReadCacheTransparent NodeSlotReusable FixedSchedule StoredIsLoaded
