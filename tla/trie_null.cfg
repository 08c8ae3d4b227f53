\* maxleaf() is the largest number that ptrsize() bytes can hold.
SPECIFICATION Spec
CONSTANTS
  Branching = 2
  NumPositions = 4
  MaxLeaf = 255
  PtrBits = 8
  OneWrite = FALSE
  HoldSize = 3
  BindSpan = 16
  Truncated = {}
  InitialNodes <- ZeroedOrGarbage
  MaxStores = 1
INVARIANT StoredIsValid
