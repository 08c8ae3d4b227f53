\* Up to 180 slots or positions: several heights for every branching factor,
\* recursions of several levels.  188 blocks of 256 bytes hold a trie whose
\* nodes need longer pointers than assumed; on 238 blocks of 32 bytes
\* PackPosMap rejects ppm_size for 100 indices.
SPECIFICATION Spec
CONSTANTS
  MaxSize = 180
  BlockSizes = {1, 5, 8, 32, 128, 256}
  Branchings = {2, 3, 5}
  PMaxes = {1}
  Memories = {9, 40, 150, 188, 238, 296, 1000, 4000}
INVARIANTS PointerFits PathsFit RecursionFits TrieMemoryFits BmnoFits
\* The sweep stops at MaxSize.
CHECK_DEADLOCK FALSE
