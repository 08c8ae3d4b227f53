------------------------------- MODULE Sizes -------------------------------
(***************************************************************************)
(* The arithmetic that the compiler does on the template arguments: widths *)
(* of pointers (common.h, bytenum.h, detworam.h), blocks of a packed       *)
(* position map (pack.h), nodes and height of a trie (triepm.h), and the   *)
(* blocks that the factories set apart for each part of a composition      *)
(* (recursive.h, triepm.h, bmno.h).  Factories steps through instances of  *)
(* them, one size() after the other.                                       *)
(***************************************************************************)
EXTENDS Integers, FiniteSetsExt

CONSTANTS
  MaxSize,     \* bound on size (for TLC)
  BlockSizes,  \* blocksizes considered
  Branchings,  \* branching factors considered
  PMaxes,      \* largest positions considered
  Memories     \* numbers of blocks of the whole memory considered

ASSUME SizesAssumption ==
  /\ MaxSize \in Nat
  /\ BlockSizes \subseteq Nat \ {0}
  /\ Branchings \subseteq Nat \ {0, 1}
  /\ PMaxes \subseteq Nat \ {0}
  /\ Memories \subseteq Nat \ {0}

VARIABLES
  size,       \* the number of blocks, of positions or of slots
  blocksize,  \* the bytes of a block
  branching,  \* the branching factor of the trie
  pmax,       \* the largest position
  memory      \* the blocks of the memory that a composition is built on

sizes == <<size, blocksize, branching, pmax, memory>>

InitSizes ==
  /\ size = 1
  /\ blocksize \in BlockSizes
  /\ branching \in Branchings
  /\ pmax \in PMaxes
  /\ memory \in Memories

NextSize ==
  /\ size < MaxSize
  /\ size' = size + 1
  /\ UNCHANGED <<blocksize, branching, pmax, memory>>
-----------------------------------------------------------------------------
\* ceiling, for num > 0: at 0 the unsigned subtraction wraps.
Ceiling(num, denom) == 1 + (num - 1) \div denom

BitLen[n \in Nat] == IF n = 0 THEN 0 ELSE 1 + BitLen[n \div 2]

ByteLen[n \in Nat] == IF n = 0 THEN 0 ELSE 1 + ByteLen[n \div 256]

\* 1 << n
Shifted[n \in Nat] == IF n = 0 THEN 1 ELSE 2 * Shifted[n - 1]

\* Mutant of HoldBits: one bit short.
HoldBitsLess(holdsize) == IF holdsize = 1 THEN 0 ELSE BitLen[holdsize - 1] - 1

\* DWPointer<holdsize, bytes>
HoldBits(holdsize) == BitLen[holdsize - 1]
BindBits(bytes) == BitLen[8 * bytes - 1]
PtrBits(holdsize, bytes) == HoldBits(holdsize) + BindBits(bytes) + 1
PtrBytes(holdsize, bytes) == Ceiling(PtrBits(holdsize, bytes), 8)
PtrMax(holdsize, bytes) ==
  ((holdsize - 1) * Shifted[BindBits(bytes)] + 8 * bytes - 1) * 2 + 1

\* ppm_size, and what PackPosMap needs: it stores nptr() = pmax + 1 as well.
PpmSize(bytes, n, m) == Ceiling(n, bytes \div ByteLen[m])
BackBlocks(bytes, n, m) == Ceiling(n, bytes \div ByteLen[m + 1])

\* Mutant of NumNodes: the division is by the branching factor.
NumNodesByBranching == (Max({size, 2}) - 2) \div branching

\* numnodes() of TriePM, the root not counted.
NumNodes == (Max({size, 2}) - 2) \div (branching - 1)

\* heighthelp: SoFar[h] nodes fit into the h rows below the root; the first
\* height at which these are n.
SoFar[h \in Nat] == IF h = 0 THEN 0 ELSE branching * (SoFar[h - 1] + 1)

HeightHelp(n) == Min({h \in 0 .. BitLen[n] : SoFar[h] >= n})

Height == HeightHelp(NumNodes)

\* trie_ind and minind; maxindex.
TrieIndex(i) == NumNodes + i + 1
MaxIndex == branching * NumNodes + branching

\* pathto climbs by parentof until it is at the root.
Depth[index \in Nat] ==
  IF index = 0 THEN 0 ELSE 1 + Depth[(index - 1) \div branching]
-----------------------------------------------------------------------------
(***************************************************************************)
(* A pointer fits: its bit index and its slot have room, and the null      *)
(* position next to it needs one bit more at most.  DWPointer.tla assumes  *)
(* the first line.                                                         *)
(***************************************************************************)
PointerFits ==
  /\ 8 * blocksize <= Shifted[BindBits(blocksize)]
  /\ PtrMax(size, blocksize) < Shifted[PtrBits(size, blocksize)]
  /\ ByteLen[PtrMax(size, blocksize)] <= PtrBytes(size, blocksize)

(***************************************************************************)
(* The trie has room: every position has a child slot of an existing node, *)
(* and the path to it fits into the arrays of height() + 1 entries, which  *)
(* pathto fills from the end without a check of its own.  (A trie without  *)
(* nodes below the root is a specialisation that has no path.)             *)
(***************************************************************************)
PathsFit ==
  NumNodes > 0 =>
    /\ TrieIndex(size - 1) <= MaxIndex
    /\ \A i \in 0 .. size - 1 : Depth[TrieIndex(i)] \in 1 .. Height + 1
    /\ \A n \in 1 .. NumNodes : Depth[n] <= Height

(***************************************************************************)
(* "something's wrong in calculation of ppm_size": the blocks set apart    *)
(* for a packed position map are those it needs.                           *)
(***************************************************************************)
PackedMapFits ==
  blocksize > ByteLen[pmax + 1] =>
    BackBlocks(blocksize, size, pmax) = PpmSize(blocksize, size, pmax)
=============================================================================
