\* Four nodes in two rows, two of them below a third; the capacity is used up
\* half-way through the third store, with its deepest node written and the
\* one above not, and a fourth store is attempted.
SPECIFICATION Spec
CONSTANTS
  Branching = 2
  NumPositions = 6
  MaxLeaf = 1
  PtrBits = 8
  OneWrite = TRUE
  HoldSize = 5
  BindSpan = 16
  Truncated = {}
  InitialNodes <- Garbage
  MaxStores = 4
INVARIANT StoredIsLoaded
