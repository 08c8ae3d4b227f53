\* A flush of BMNOWoram.
SPECIFICATION Spec
CONSTANTS
  Rec = FALSE
  Size = 2
  K = 2
  PriSize = 5
  StashLen = 2
  Block = {zero, one}
  Zero = zero
  Garbled = garbled
  UnsetPositions <- NullPositions
  InitialOwners <- GarbageOwners
  MaxStores = 2
  MaxFlushes = 1
INVARIANT NothingLost
