\* Largest positions on both sides of a byte boundary.
SPECIFICATION Spec
CONSTANTS
  MaxSize = 20
  BlockSizes = {16, 20}
  Branchings = {2}
  PMaxes = {254, 255, 256}
  Memories = {1}
INVARIANTS PackedMapFits
CHECK_DEADLOCK FALSE
