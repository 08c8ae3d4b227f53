----------------------------- MODULE TrieNodePM ----------------------------
(***************************************************************************)
(* The trie position map of triepm.h (TriePM over TrieNodePM): positions   *)
(* are kept in the nodes of a K-ary trie, the nodes other than the root    *)
(* live in a small plain ORAM of their own (nodestore), and the position   *)
(* of a node in nodestore is kept in its parent.  The plain ORAM is a      *)
(* DetWoram or, as in test_triepm.cpp, a OneWriteWoram, which throws when  *)
(* its capacity is used up.                                                *)
(*                                                                         *)
(* The root and the path last written stay in writecache; what a load had  *)
(* to fetch stays in readcache, from level rcsplit, where it leaves the    *)
(* path of writecache.  The hard part is store: it writes the path back    *)
(* bottom-up, and every one of these writes makes nodestore refresh other  *)
(* nodes, whose positions it asks this very trie for (store is called with *)
(* *this as the position map), while the path is half rewritten.           *)
(***************************************************************************)
EXTENDS Integers, Sequences, FiniteSetsExt, TLC

CONSTANTS
  Branching,     \* branching()
  NumPositions,  \* size() of TriePM: the number of positions kept
  MaxLeaf,       \* maxleaf(): the largest position that a leaf may hold
  PtrBits,       \* bits of a pointer in a node: 8 * ptrsize()
  OneWrite,      \* TRUE for a OneWriteWoram as nodestore
  HoldSize,      \* holding area of nodestore, or capacity of a OneWriteWoram
  BindSpan,      \* 1 << bind_bits() of nodestore's pointers
  Truncated,     \* see DetWoram
  InitialNodes,  \* what the memory of nodestore may hold at the start
  MaxStores      \* bound on the number of stores (for TLC)

ASSUME TrieAssumption ==
  /\ Branching \in Nat \ {0, 1}
  /\ NumPositions \in Nat
  /\ NumPositions > Branching
  /\ PtrBits \in Nat \ {0}
  /\ MaxLeaf \in Nat
  /\ MaxLeaf < 2 ^ PtrBits
  /\ OneWrite \in BOOLEAN
  /\ HoldSize \in Nat \ {0}
  /\ BindSpan \in Nat
  /\ Branching * PtrBits <= BindSpan
  /\ Truncated \subseteq 0 .. HoldSize - 1
  /\ MaxStores \in Nat

\* What the proofs need to know of powers of two.
ASSUME PowerAssumption == \A n \in 0 .. PtrBits - 1 : 2 ^ (n + 1) = 2 * 2 ^ n

VARIABLES
  longterm, longpos, holding, holdpos,  \* nodestore
  writecache,  \* the root and the nodes of the path last written
  readcache,   \* nodes below writecache that loads have fetched
  rcsplit,     \* the level at which readcache leaves writecache
  request,     \* {} or the store in progress
  pc,          \* where it is: "idle", "fetch", "level" or "ltws"
  level,       \* the level of the cache that is being written back
  todo,        \* turns left in the loop of ltws
  contents,    \* history: for every index what load may return
  stores       \* the number of stores so far

nodestoreVars == <<longterm, longpos, holding, holdpos>>
vars == <<longterm, longpos, holding, holdpos, writecache, readcache, rcsplit,
          request, pc, level, todo, contents, stores>>

\* numnodes() of TriePM: nodes besides the root.
NumNodes == (NumPositions - 2) \div (Branching - 1)

\* heighthelp: SoFar[h] nodes fit into the h rows below the root.
SoFar[h \in 0 .. NumNodes] ==
  IF h = 0 THEN 0 ELSE Branching * (SoFar[h - 1] + 1)

Height == Min({h \in 0 .. NumNodes : SoFar[h] >= NumNodes})

Level == 0 .. Height
Which == 0 .. Branching - 1

\* Leaf positions and positions in nodestore share the pointers of a node.
Nptr == 2 ^ PtrBits - 1
Data == [Which -> 0 .. Nptr]
NodeBit(data, i) == (data[i \div PtrBits] \div 2 ^ (i % PtrBits)) % 2

\* LocalMem is zeroed; under RandCrypt or in a FileMem a node may be anything.
ASSUME InitialAssumption == InitialNodes \subseteq Data

nodestore == INSTANCE DetWoram WITH
  BlockBits <- Branching * PtrBits, Size <- NumNodes,
  Block <- Data, GetBit <- NodeBit

\* maxintern(): the largest position of a node.
ASSUME MaxInternAssumption ==
  (IF OneWrite THEN HoldSize - 1 ELSE nodestore!PMax) < Nptr

\* A OneWriteWoram has no use for the other half of the variables.
onewrite == INSTANCE OneWrite WITH
  BackSize <- HoldSize, backend <- holding, nextpos <- holdpos

\* nodestore->load
NodeLoad(node, pos) ==
  IF OneWrite THEN onewrite!LoadBlock(pos) ELSE nodestore!Load(node, pos)

\* Turns of the loop with which nodestore->store begins.
NodeTurns == IF OneWrite THEN 0 ELSE nodestore!NumLtw

\* The position that nodestore->store returns.
NodePosition(node, data) ==
  IF OneWrite THEN holdpos ELSE nodestore!NewPosition(node, data)

\* The write with which nodestore->store and dummy_write end.
NodeWrite(data) ==
  IF OneWrite THEN onewrite!WriteBlock(data) /\ UNCHANGED <<longterm, longpos>>
  ELSE nodestore!HoldingWrite(data)

(***************************************************************************)
(* Node 0 is the root (and the mark of an empty cache entry, which the     *)
(* root is never looked up as), nodes 1 .. NumNodes are in nodestore, and  *)
(* the positions have the indices that follow (trie_ind, minind).          *)
(***************************************************************************)
NullInd == 0
TrieIndex(i) == NumNodes + i + 1
Leaf == {TrieIndex(i) : i \in 0 .. NumPositions - 1}
NodeInd(index) == index - 1

ParentOf(index) == (index - 1) \div Branching
WhichChild(index) == (index - 1) % Branching

\* pathto: the nodes from the root to the parent of index; the one at level l
\* is PathTo[index][l + 1].
PathTo[index \in 0 .. NumNodes + NumPositions] ==
  IF index = 0 THEN <<>>
  ELSE Append(PathTo[ParentOf(index)], ParentOf(index))

\* matchlen: the first level from sofar on at which the cache leaves the path.
MatchLen(path, sofar, cache) ==
  Min({l \in sofar .. Len(path) :
         l < Len(path) => cache[l].index # path[l + 1]})

NullNode == [c \in Which |-> Nptr]
Empty == [index |-> NullInd, data |-> NullNode]

\* The nodes of path from level from on: each is loaded from where its parent
\* says; a node that does not exist yet has no children.  top is the data at
\* level from - 1.
Descend(path, from, top) ==
  LET data[l \in from - 1 .. Len(path) - 1] ==
        IF l = from - 1 THEN top
        ELSE LET find == path[l + 1]
                 pos == data[l - 1][WhichChild(find)]
             IN  IF pos = Nptr THEN NullNode
                 ELSE NodeLoad(NodeInd(find), pos)
  IN  data

\* Mutant of FetchWrite: the entry below the path is not dropped.
FetchWriteKeep(index) ==
  LET path == PathTo[index]
      fetched == MatchLen(path, 1, writecache)
      data == Descend(path, fetched, writecache[fetched - 1].data)
  IN  [l \in Level |->
         IF fetched <= l /\ l < Len(path)
         THEN [index |-> path[l + 1], data |-> data[l]]
         ELSE writecache[l]]

(***************************************************************************)
(* fetch_write: the write cache once the path to index has been fetched.   *)
(* Entries below the path are dropped, unless nothing had to be fetched.   *)
(***************************************************************************)
FetchWrite(index) ==
  LET path == PathTo[index]
      fetched == MatchLen(path, 1, writecache)
      data == Descend(path, fetched, writecache[fetched - 1].data)
  IN  IF fetched = Len(path)
      THEN writecache
      ELSE [l \in Level |->
              IF l < fetched THEN writecache[l]
              ELSE IF l < Len(path)
              THEN [index |-> path[l + 1], data |-> data[l]]
              ELSE IF l = Len(path) THEN Empty
              ELSE writecache[l]]

(***************************************************************************)
(* fetch_read walks from the write cache, or from further down in the read *)
(* cache when that begins where the write cache ends, and stops at the     *)
(* first node that does not exist.                                         *)
(***************************************************************************)
ReadSplit(path) == MatchLen(path, 1, writecache)

ReadFetched(path) ==
  LET split == ReadSplit(path)
  IN  IF rcsplit = split THEN MatchLen(path, split, readcache) ELSE split

ReadData(path) ==
  LET fetched == ReadFetched(path)
      cache == IF fetched > ReadSplit(path) THEN readcache ELSE writecache
  IN  Descend(path, fetched, cache[fetched - 1].data)

\* The position that fetch_read returns.
ReadPosition(index) ==
  LET path == PathTo[index]
  IN  ReadData(path)[Len(path) - 1][WhichChild(index)]

\* The same, with the read cache after the look-up.
FetchRead(index) ==
  LET path == PathTo[index]
      split == ReadSplit(path)
      fetched == ReadFetched(path)
      data == ReadData(path)
      exists(l) == data[l - 1][WhichChild(path[l + 1])] # Nptr
      reached == Min({l \in fetched .. Len(path) : l = Len(path) \/ ~exists(l)})
      filled == [l \in Level |->
                   IF l < fetched THEN readcache[l]
                   ELSE IF l < reached
                   THEN [index |-> path[l + 1], data |-> data[l]]
                   ELSE IF l = reached THEN Empty
                   ELSE readcache[l]]
  IN  [pos |-> ReadPosition(index),
       readcache |-> IF fetched = Len(path) THEN readcache ELSE filled,
       rcsplit |-> IF split = Len(path) THEN rcsplit ELSE split]

RememberRead(result) ==
  /\ readcache' = result.readcache
  /\ rcsplit' = result.rcsplit

\* What load may return once the store in progress has returned, or thrown.
Acknowledged == [index \in Leaf |->
                   IF \E r \in request : r.index = index
                   THEN {r.buf : r \in request} ELSE contents[index]]
Refused == [index \in Leaf |->
              contents[index] \cup {r.buf : r \in {q \in request : q.index = index}}]

Init ==
  /\ nodestore!WoramInit(InitialNodes)
  /\ writecache = [l \in Level |-> Empty]
  /\ readcache = [l \in Level |-> Empty]
  /\ rcsplit = 1
  /\ request = {}
  /\ pc = "idle"
  /\ level = 0
  /\ todo = 0
  /\ contents = [index \in Leaf |-> {Nptr}]
  /\ stores = 0

\* TriePM::load
Load(index) ==
  /\ pc = "idle"
  /\ RememberRead(FetchRead(index))
  /\ UNCHANGED <<nodestoreVars, writecache, request, pc, level, todo, contents,
                 stores>>

\* TriePM::store is called.
StoreCall(index, pos) ==
  /\ pc = "idle"
  /\ stores < MaxStores
  /\ request' = {[index |-> index, buf |-> pos]}
  /\ pc' = "fetch"
  /\ stores' = stores + 1
  /\ UNCHANGED <<nodestoreVars, writecache, readcache, rcsplit, level, todo,
                 contents>>

\* fetch_write, and the position is set in the last node of the path.
StoreFetch ==
  /\ pc = "fetch"
  /\ \E r \in request :
       writecache' =
         [FetchWrite(r.index) EXCEPT
            ![Len(PathTo[r.index]) - 1].data[WhichChild(r.index)] = r.buf]
  /\ level' = Height
  /\ pc' = "level"
  /\ UNCHANGED <<nodestoreVars, readcache, rcsplit, request, todo, contents,
                 stores>>

\* The next turn of the write-back loop calls nodestore, which enters ltws.
WriteBack ==
  /\ pc = "level"
  /\ level > 0
  /\ todo' = NodeTurns
  /\ pc' = "ltws"
  /\ UNCHANGED <<nodestoreVars, writecache, readcache, rcsplit, request, level,
                 contents, stores>>

\* Mutant of Refresh: a storage index is taken for a node index.
RefreshStorageIndex ==
  /\ pc = "ltws"
  /\ todo # 0
  /\ LET pos == IF longpos = 0 THEN Nptr ELSE FetchRead(longpos).pos
     IN  nodestore!LongTermWrite(IF pos = Nptr THEN nodestore!NPtr ELSE pos)
  /\ todo' = todo - 1
  /\ UNCHANGED <<writecache, readcache, rcsplit, request, pc, level, contents,
                 stores>>

\* One turn of the loop of ltws: nodestore loads the position of the node it
\* refreshes from this trie.
Refresh ==
  /\ pc = "ltws"
  /\ todo # 0
  /\ LET found == FetchRead(longpos + 1)
     IN  /\ RememberRead(found)
         /\ nodestore!LongTermWrite(
              IF found.pos = Nptr THEN nodestore!NPtr ELSE found.pos)
  /\ todo' = todo - 1
  /\ UNCHANGED <<writecache, request, pc, level, contents, stores>>

\* Mutant of WriteNode: the new position is not set in the parent.
WriteNodeLost ==
  /\ pc = "ltws"
  /\ todo = 0
  /\ writecache[level].index # NullInd
  /\ NodeWrite(writecache[level].data)
  /\ level' = level - 1
  /\ pc' = "level"
  /\ UNCHANGED <<writecache, readcache, rcsplit, request, todo, contents,
                 stores>>

\* nodestore->store of the node at this level, whose new position goes into
\* its parent.
WriteNode ==
  /\ pc = "ltws"
  /\ todo = 0
  /\ writecache[level].index # NullInd
  /\ LET node == writecache[level]
     IN  /\ NodeWrite(node.data)
         /\ writecache' =
              [writecache EXCEPT ![level - 1].data[WhichChild(node.index)] =
                 NodePosition(NodeInd(node.index), node.data)]
  /\ level' = level - 1
  /\ pc' = "level"
  /\ UNCHANGED <<readcache, rcsplit, request, todo, contents, stores>>

\* Mutant of DummyWrite: a missing node is skipped.
DummyWriteSkipped ==
  /\ pc = "ltws"
  /\ todo = 0
  /\ writecache[level].index = NullInd
  /\ level' = level - 1
  /\ pc' = "level"
  /\ UNCHANGED <<nodestoreVars, writecache, readcache, rcsplit, request, todo,
                 contents, stores>>

\* nodestore->dummy_write, where the path has no node at this level.
DummyWrite ==
  /\ pc = "ltws"
  /\ todo = 0
  /\ writecache[level].index = NullInd
  /\ NodeWrite([c \in Which |-> 0])
  /\ level' = level - 1
  /\ pc' = "level"
  /\ UNCHANGED <<writecache, readcache, rcsplit, request, todo, contents,
                 stores>>

\* Mutant of StoreThrows: the position of the unwritten node is set all the
\* same.
StoreThrowsAfterSet ==
  /\ pc = "ltws"
  /\ OneWrite /\ onewrite!Exhausted
  /\ LET node == writecache[level]
     IN  writecache' =
           IF node.index = NullInd THEN writecache
           ELSE [writecache EXCEPT
                   ![level - 1].data[WhichChild(node.index)] = holdpos - 1]
  /\ contents' = Refused
  /\ request' = {}
  /\ pc' = "idle"
  /\ UNCHANGED <<nodestoreVars, readcache, rcsplit, level, todo, stores>>

\* nodestore->store or dummy_write throws, and store passes it on: the path
\* is left half written, and the read cache as it is.
StoreThrows ==
  /\ pc = "ltws"
  /\ OneWrite /\ onewrite!Exhausted
  /\ contents' = Refused
  /\ request' = {}
  /\ pc' = "idle"
  /\ UNCHANGED <<nodestoreVars, writecache, readcache, rcsplit, level, todo,
                 stores>>

\* Mutants of StoreReturn: the read cache is not cleared; it is said to leave
\* the write cache at the root.
StoreReturnUncleared ==
  /\ pc = "level"
  /\ level = 0
  /\ contents' = Acknowledged
  /\ request' = {}
  /\ pc' = "idle"
  /\ UNCHANGED <<nodestoreVars, writecache, readcache, rcsplit, level, todo,
                 stores>>

StoreReturnAtRoot ==
  /\ pc = "level"
  /\ level = 0
  /\ rcsplit' = 0
  /\ readcache' = [readcache EXCEPT ![0] = Empty]
  /\ contents' = Acknowledged
  /\ request' = {}
  /\ pc' = "idle"
  /\ UNCHANGED <<nodestoreVars, writecache, level, todo, stores>>

\* The read cache is cleared, and store returns.
StoreReturn ==
  /\ pc = "level"
  /\ level = 0
  /\ rcsplit' = 1
  /\ readcache' = [readcache EXCEPT ![1] = Empty]
  /\ contents' = Acknowledged
  /\ request' = {}
  /\ pc' = "idle"
  /\ UNCHANGED <<nodestoreVars, writecache, level, todo, stores>>

Next ==
  \/ \E index \in Leaf : Load(index)
  \/ \E index \in Leaf, pos \in 0 .. MaxLeaf : StoreCall(index, pos)
  \/ StoreFetch
  \/ WriteBack
  \/ Refresh
  \/ WriteNode
  \/ DummyWrite
  \/ StoreThrows
  \/ StoreReturn

Spec == Init /\ [][Next]_vars
-----------------------------------------------------------------------------
Node == 1 .. NumNodes

TypeOK ==
  /\ longterm \in [NodeInd(1) .. NodeInd(NumNodes) -> Data]
  /\ longpos \in NodeInd(1) .. NodeInd(NumNodes)
  /\ holding \in [0 .. HoldSize - 1 -> Data]
  /\ holdpos \in 0 .. HoldSize - (IF OneWrite THEN 0 ELSE 1)
  /\ writecache \in [Level -> [index : Node \cup {NullInd}, data : Data]]
  /\ readcache \in [Level -> [index : Node \cup {NullInd}, data : Data]]
  /\ rcsplit \in 1 .. Height
  /\ request \in SUBSET [index : Leaf, buf : 0 .. MaxLeaf]
  /\ pc \in {"idle", "fetch", "level", "ltws"}
  /\ level \in Level
  /\ todo \in 0 .. NumNodes
  /\ contents \in [Leaf -> SUBSET (0 .. MaxLeaf \cup {Nptr})]
  /\ stores \in 0 .. MaxStores

(***************************************************************************)
(* The read cache is transparent: at every step, also for the look-ups     *)
(* that nodestore makes in the middle of a write-back, the answer is the   *)
(* one obtained by walking down from the write cache through nodestore.    *)
(***************************************************************************)
WalkDown(index) ==
  LET path == PathTo[index]
      split == MatchLen(path, 1, writecache)
      data == Descend(path, split, writecache[split - 1].data)
  IN  data[Len(path) - 1][WhichChild(index)]

ReadCacheTransparent ==
  \A index \in Node \cup Leaf : ReadPosition(index) = WalkDown(index)

(***************************************************************************)
(* No node of the trie is read from the slot of nodestore's holding area   *)
(* that the current write-back is about to overwrite.                      *)
(***************************************************************************)
NodeSlotReusable ==
  pc = "ltws" /\ todo = 0 =>
    \A n \in Node :
      LET pos == ReadPosition(n)
          bit == nodestore!GetBind(pos)
      IN  /\ pos # Nptr
          /\ NodeBit(longterm[NodeInd(n)], bit) # nodestore!GetBitval(pos)
          => nodestore!GetHold(pos) # holdpos

(***************************************************************************)
(* Every store makes Height writes to the holding area, whatever the index *)
(* and whatever the caches hold, and the refresh of the long-term area is  *)
(* a function of the number of these writes: what is written where tells   *)
(* nothing about the request (the write-only obliviousness of README.md).  *)
(***************************************************************************)
FixedSchedule ==
  LET writes == stores * Height - (IF pc \in {"level", "ltws"} THEN level
                                   ELSE IF pc = "fetch" THEN Height ELSE 0)
      slot == writes % HoldSize
  IN  /\ holdpos = slot
      /\ pc # "ltws" =>
           longpos = IF slot = 0 THEN 0 ELSE nodestore!LtwTarget(slot - 1)

(***************************************************************************)
(* A position that has been stored is never mistaken for the null position *)
(* ("some value that indicates an invalid pointer", posmap.h).             *)
(***************************************************************************)
StoredIsValid ==
  \A r \in request : pc # "fetch" => ReadPosition(r.index) # Nptr

(***************************************************************************)
(* The trie is a position map: from the moment the path has been fetched,  *)
(* load returns the position stored last, the null position where none has *)
(* been stored, and this stays so while the path is written back, whatever *)
(* was loaded in between (TEST(pos == kvp.second) of pmtest.h).            *)
(*                                                                         *)
(* A store that throws half-way may or may not be seen afterwards, but no  *)
(* other index is lost or changed by it: all positions that have been      *)
(* acknowledged, of the same node and of nodes below, are still loaded.    *)
(***************************************************************************)
StoredIsLoaded ==
  \A index \in Leaf :
    LET current == {r \in request : pc # "fetch" /\ r.index = index}
    IN  ReadPosition(index) \in
          IF current # {} THEN {r.buf : r \in current} ELSE contents[index]
=============================================================================
