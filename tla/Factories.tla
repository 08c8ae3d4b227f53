----------------------------- MODULE Factories -----------------------------
(***************************************************************************)
(* How the factories divide a memory: RecWoramFactory (recursive.h),       *)
(* TPMWTrait with DetWoCryptTrie (triepm.h) and bmno_fact (bmno.h).  Each  *)
(* cuts blocks off for a position map before the ORAM that determines the  *)
(* width of the positions is known, and sizes the map for an ORAM on the   *)
(* whole memory instead.  The trie and bmno_fact encrypt the blocks of the *)
(* map, which takes another 16 bytes of each.                              *)
(*                                                                         *)
(* The behaviour goes from one size to the next.  At any size it may start *)
(* to instantiate one of the two recursive factories, whose levels are     *)
(* then its steps; a static_assert that fails stops the compilation.       *)
(***************************************************************************)
EXTENDS Sizes

VARIABLES
  factory,  \* "none" or the factory that is being instantiated
  blocks,   \* the blocks of the memory it is given
  indices,  \* the number of indices, or of positions of a map
  largest   \* the largest of these positions

vars == <<sizes, factory, blocks, indices, largest>>

\* DetWoram on m blocks for n indices: the blocks that are not long-term hold.
DetWoPMax(m, n) == PtrMax(m - n, blocksize)

\* The bytes that RandCrypt leaves of a block: the IV takes 16.
MapBytes == blocksize - 16
-----------------------------------------------------------------------------
\* RecWoTrait::pmblocks
PmBlocks(n) == PpmSize(blocksize, n, DetWoPMax(memory, n))

\* Mutant of DetWoPrefSize: growrat = 1 leaves no holding area.
DetWoPrefSizeBare(n) == n

\* DetWoramTrait::prefsize, growrat = 2
DetWoPrefSize(n) == 2 * n

\* RecWoTrait::prefsize and pmsize
RecPrefSize[n \in 0 .. memory - 1] ==
  IF n <= 1 THEN n ELSE RecPrefSize[PmBlocks(n)] + DetWoPrefSize(n)
PmSize(n) == RecPrefSize[PmBlocks(n)]

\* The number of blocks of the map is compared with the bytes of one.
BaseCase == PpmSize(blocksize, indices, DetWoPMax(blocks, indices)) <= blocksize

\* What a level sets apart for its map, computed with the whole memory, and
\* the largest position of the DetWoram on what is left (WT::pmax).
MapBlocks == IF BaseCase THEN PmBlocks(indices) ELSE PmSize(indices)
WoPMax == DetWoPMax(blocks - MapBlocks, indices)

\* The indices of RWF, the ORAM of the next level, and those of the ORAM that
\* the map is packed into: RWF, or a TrivialWoram on the blocks set apart.
NextIndices == PpmSize(blocksize, indices, WoPMax)
MapSize == IF BaseCase THEN MapBlocks ELSE NextIndices

\* The static_asserts of DetWoram (one block in the holding area), PackPosMap
\* ("something's wrong in calculation of ppm_size") and PackMem.
DetWoAssert == blocks - MapBlocks - indices >= 1
PackPosMapAssert ==
  BackBlocks(blocksize, indices, WoPMax) = PpmSize(blocksize, indices, WoPMax)
PackMemAssert ==
  /\ ByteLen[WoPMax + 1] <= blocksize
  /\ MapSize >= BackBlocks(blocksize, indices, WoPMax)

\* RecWoramFactory on a memory of prefsize(N) blocks or more; two pointers fit
\* into a block.
RecStart ==
  /\ factory = "none"
  /\ size > 1
  /\ memory > size
  /\ blocksize >= 2 * ByteLen[PtrMax(memory, blocksize)]
  /\ memory >= RecPrefSize[size]
  /\ factory' = "rec"
  /\ blocks' = memory
  /\ indices' = size
  /\ UNCHANGED <<sizes, largest>>

\* RWF, the ORAM that the map is packed into.
RecLevel ==
  /\ factory = "rec"
  /\ DetWoAssert /\ PackPosMapAssert /\ PackMemAssert
  /\ ~BaseCase
  /\ blocks' = MapBlocks
  /\ indices' = NextIndices
  /\ UNCHANGED <<sizes, factory, largest>>
-----------------------------------------------------------------------------
\* TriePM inside DetWoCryptTrie: the largest position, the bytes of a node, and
\* the blocks set apart by TriePMTrait::prefsize, in which the growth ratio is
\* heighthelp + 2.  It divides whole blocks, the nodes are packed into what
\* RandCrypt leaves of them.
MaxLeaf == DetWoPMax(memory, size)
NodeLength(ptrsize) == branching * ptrsize
TrieBlocks ==
  Ceiling((HeightHelp(size) + 2) * NumNodes,
          blocksize \div NodeLength(ByteLen[MaxLeaf]))

\* perblock() of the nodes' PackMem, and their holding area.
NodesPerBlock(ptrsize) == MapBytes \div NodeLength(ptrsize)
NodeHold(ptrsize) == TrieBlocks * NodesPerBlock(ptrsize) - NumNodes

\* Mutant of NodePtrSize: the positions of the nodes themselves are forgotten.
NodePtrSizeLeaf == ByteLen[MaxLeaf]

\* TrieNodePM::ptrsize, which assumes the smallest pointers to size them.
NodePtrSize ==
  LET small == ByteLen[MaxLeaf]
  IN  ByteLen[Max({MaxLeaf, PtrMax(NodeHold(small), NodeLength(small)) + 1})]
-----------------------------------------------------------------------------
\* bmno.h: stashlen(); the blocks of the metadata of m blocks, whose records
\* are an index and iv bytes; the room the static_assert of a class asks for.
StashLen(n) == 60 + BitLen[n]
MetaBlocks(m, bytes, iv) == Ceiling(m, bytes \div (ByteLen[m] + iv))
BmnoRoom(m, meta, n) == m - meta > StashLen(n) + n

\* Mutant of LevelBlocks: no room for the stash.
LevelBlocksBare(n) == 2 * n

\* bmno_pm_fact::size0
LevelBlocks(n) == 2 * n + 70

\* bmno_fact::size0
BmnoBlocks(m, n) == 2 * n + Ceiling(m, blocksize \div 24) + 70

\* The blocks of a level of the map, which is encrypted.
Packed == PpmSize(MapBytes, indices, largest)

\* The static_asserts of BMNOWoram, BMNOWoramRec and BasePosMap.
BmnoAsserts ==
  LET own == BmnoBlocks(blocks, indices)
  IN  /\ blocks >= own
      /\ BmnoRoom(own, MetaBlocks(own, MapBytes, 16), indices)

BmnoMapAsserts ==
  LET own == LevelBlocks(Packed)
  IN  IF Packed = 1 THEN blocks >= 1
      ELSE blocks >= own /\ BmnoRoom(own, MetaBlocks(own, MapBytes, 0), Packed)

\* bmno_fact on as many blocks as its test takes, of 128 bytes or more; sizes
\* are a size_t.
BmnoStart ==
  /\ factory = "none"
  /\ blocksize >= 128
  /\ ByteLen[5 * size + 200] <= 8
  /\ factory' = "bmno"
  /\ blocks' = 5 * size + 200
  /\ indices' = size
  /\ UNCHANGED <<sizes, largest>>

\* bmno_pm_fact on the other part, for the positions of bmno_fact's ORAM.
BmnoMap ==
  /\ factory = "bmno"
  /\ BmnoAsserts
  /\ factory' = "bmno_map"
  /\ blocks' = blocks - BmnoBlocks(blocks, indices)
  /\ largest' = BmnoBlocks(blocks, indices) - 1
  /\ UNCHANGED <<sizes, indices>>

\* The next level of the map; a map of one block is a BasePosMap.
BmnoLevel ==
  /\ factory = "bmno_map"
  /\ BmnoMapAsserts
  /\ Packed # 1
  /\ blocks' = blocks - LevelBlocks(Packed)
  /\ indices' = Packed
  /\ largest' = LevelBlocks(Packed)
  /\ UNCHANGED <<sizes, factory>>
-----------------------------------------------------------------------------
Init ==
  /\ InitSizes
  /\ factory = "none"
  /\ blocks = 0
  /\ indices = 0
  /\ largest = 0

SizeStep ==
  /\ factory = "none"
  /\ NextSize
  /\ UNCHANGED <<factory, blocks, indices, largest>>

Next ==
  \/ SizeStep
  \/ RecStart
  \/ RecLevel
  \/ BmnoStart
  \/ BmnoMap
  \/ BmnoLevel

Spec == Init /\ [][Next]_vars
-----------------------------------------------------------------------------
(***************************************************************************)
(* Of a recursive ORAM on prefsize(N) blocks or more one static_assert can *)
(* fail at any level, that of PackPosMap (PackedMapFits of Sizes.tla says  *)
(* when).  At every level that is reached the data are left a holding      *)
(* area, and if PackPosMap accepts ppm_size, the ORAM under the map has    *)
(* the blocks it needs and fewer of them than the indices, so that the     *)
(* recursion ends.                                                         *)
(***************************************************************************)
RecursionFits ==
  factory = "rec" =>
    /\ DetWoAssert
    /\ PackPosMapAssert =>
         /\ PackMemAssert
         /\ ~BaseCase => NextIndices < indices

(***************************************************************************)
(* DetWoCryptTrie, on blocks that are "divisible by the crypto block size":*)
(* if the data are left a holding area and a node fits into a block of the *)
(* map ("sufficiently large to store at least one node"), the nodes have a *)
(* holding area too, although the blocks for it have been counted without  *)
(* the IV and, maybe, with pointers that are too short; and the null       *)
(* position is none of theirs ("nptr has to be an invalid internal         *)
(* pointer").                                                              *)
(***************************************************************************)
TrieMemoryFits ==
  /\ MapBytes > 0
  /\ MapBytes % 16 = 0
  /\ NumNodes > 0
  /\ memory > size
  /\ NodesPerBlock(ByteLen[MaxLeaf]) > 0
  /\ memory - TrieBlocks > size
  /\ NodesPerBlock(NodePtrSize) > 0
  => /\ NodeHold(ByteLen[MaxLeaf]) >= 1
     /\ NodeHold(NodePtrSize) >= 1
     /\ PtrMax(NodeHold(NodePtrSize), NodeLength(NodePtrSize))
          < Shifted[8 * NodePtrSize] - 1

(***************************************************************************)
(* The levels of bmno_fact: at each of them blocks and stash have "room    *)
(* for stash and mem", and the next map is smaller.                        *)
(***************************************************************************)
BmnoFits ==
  /\ factory = "bmno" => BmnoAsserts
  /\ factory = "bmno_map" =>
       /\ BmnoMapAsserts
       /\ Packed # 1 => Packed < indices
=============================================================================
