\* BMNOWoramRec over a position map that is garbage to begin with: a stash of two for
\* three indices, five positions, one flush.
SPECIFICATION Spec
CONSTANTS
  Rec = TRUE
  Size = 3
  K = 2
  PriSize = 6
  StashLen = 2
  Block = {zero, one}
  Zero = zero
  Garbled = garbled
  UnsetPositions <- GarbagePositions
  InitialOwners <- GarbageOwners
  MaxStores = 3
  MaxFlushes = 1
INVARIANTS TypeOK OwnerKnown StashDistinct StoredIsLoaded LostOnlyAtPMax
\* A stash that overflows aborts the program.
CHECK_DEADLOCK FALSE
