-------------------------- MODULE TrieNodePM_proofs ------------------------
(***************************************************************************)
(* Proofs about the trie position map, for every branching factor, number  *)
(* of positions, pointer size and size of the holding area, wherever the   *)
(* refresh of nodestore falls short and whatever its memory held at first. *)
(*                                                                         *)
(* The argument: with every node n goes the data D[n] that the trie means  *)
(* it to have.  The caches hold D[n] for the nodes they can be asked for,  *)
(* and what nodestore holds at the position that D[ParentOf(n)] gives is   *)
(* D[n], but for the nodes of the path in the write cache that have not    *)
(* been written back.  Walks down from a cache therefore find D, whatever  *)
(* is cached.  What nodestore holds at a position stays until the position *)
(* is replaced, because the refresh (which gets the positions from D as    *)
(* well) has gone past the node before the slot is used again; that is the *)
(* argument of PMWoram_proofs, whose lemmas are used here.                 *)
(*                                                                         *)
(* A OneWriteWoram as nodestore keeps every block, but may break off a      *)
(* write-back half-way, and the read cache is then not cleared: nodes are  *)
(* found in several versions.  In place of one map D there is a set C[n]   *)
(* of versions of every node; what any version of its parent says of n     *)
(* leads to a version in C[n], and what any version says of a leaf is a    *)
(* position that may be loaded.                                            *)
(*                                                                         *)
(* Recursive functions (the path, the rows of the trie, the descent) are   *)
(* reasoned about by taking the least number at which a claim fails.       *)
(***************************************************************************)
EXTENDS TrieNodePM, WellFoundedInduction, TLAPS

\* Of PMWoram only the lemmas about ring and positions are used: what its memory
\* and its map start with does not matter.
ring == INSTANCE PMWoram_proofs WITH
  BlockBits <- Branching * PtrBits, Size <- NumNodes,
  Block <- Data, GetBit <- NodeBit,
  InitialBlocks <- {[c \in Which |-> 0]},
  InitialPositions <- {nodestore!NPtr},
  posmap <- <<>>, request <- {}, newpos <- 0

\* There is a node besides the root.
LEMMA NumNodesFact == NumNodes \in Nat \ {0}
<1>1. NumPositions - 2 >= Branching - 1
  BY TrieAssumption
<1>. DEFINE b == Branching - 1
            n == NumPositions - 2
<1>2. b \in Nat \ {0} /\ n \in Nat /\ n >= b
  BY <1>1, TrieAssumption
<1>. HIDE DEF b, n
<1>3. n \div b \in Int /\ n % b \in 0 .. b - 1 /\ n = b * (n \div b) + (n % b)
  BY <1>2
<1>4. n \div b >= 1
  <2>1. SUFFICES ASSUME n \div b <= 0 PROVE FALSE
    BY <1>3
  <2>2. b * (n \div b) <= 0
    BY <1>2, <1>3, <2>1
  <2>. QED
    BY <1>2, <1>3, <2>2
<1>. QED
  BY <1>3, <1>4 DEF NumNodes, b, n

(***************************************************************************)
(* Induction, without an operator as a parameter: what fails somewhere     *)
(* fails at a least place.                                                 *)
(***************************************************************************)
LEMMA LeastElement ==
  ASSUME NEW T \in SUBSET Nat, T # {}
  PROVE  \E x \in T : \A y \in T : x <= y
<1>1. \E x \in T : \A y \in T : <<y, x>> \notin OpToRel(<, Nat)
  BY NatLessThanWellFounded, WFMin
<1>2. PICK x \in T : \A y \in T : <<y, x>> \notin OpToRel(<, Nat)
  BY <1>1
<1>3. ASSUME NEW y \in T PROVE x <= y
  <2>1. <<y, x>> \in Nat \X Nat
    OBVIOUS
  <2>2. ~(y < x)
    BY <1>2, <2>1 DEF OpToRel
  <2>. QED
    BY <2>2
<1>. QED
  BY <1>3

\* What Min chooses from a set of numbers.
LEMMA MinFact ==
  ASSUME NEW T \in SUBSET Nat, T # {}
  PROVE  Min(T) \in T /\ \A y \in T : Min(T) <= y
  BY LeastElement DEF Min

(***************************************************************************)
(* A function whose value at every place is computed from the one before   *)
(* exists.                                                                 *)
(***************************************************************************)
Computes(f, a, b, v, step) ==
  /\ f[a] = v
  /\ \A l \in a .. b : l # a => f[l] = step[<<l, f[l - 1]>>]

\* A recursively defined function on a stretch of numbers exists.
LEMMA Recursion ==
  ASSUME NEW a \in Nat, NEW b \in Nat, a <= b, NEW V, NEW v \in V,
         NEW step \in [Nat \X V -> V]
  PROVE  \E f \in [a .. b -> V] : Computes(f, a, b, v, step)
<1>. DEFINE Upto(m) == \E f \in [a .. m -> V] :
                         /\ f[a] = v
                         /\ \A l \in a .. m : l # a => f[l] = step[<<l, f[l - 1]>>]
            T == {m \in a .. b : ~Upto(m)}
<1>1. SUFFICES ASSUME T # {} PROVE FALSE
  <2>1. b \in a .. b
    OBVIOUS
  <2>2. Upto(b)
    BY <1>1, <2>1
  <2>. QED
    BY <2>2 DEF Computes
<1>2. PICK m \in T : \A y \in T : m <= y
  <2>1. T \in SUBSET Nat
    OBVIOUS
  <2>. QED
    BY <1>1, <2>1, LeastElement
<1>3. m \in a .. b /\ ~Upto(m)
  OBVIOUS
<1>4. m # a
  <2>1. SUFFICES ASSUME m = a PROVE FALSE
    OBVIOUS
  <2>2. [x \in a .. a |-> v] \in [a .. a -> V]
    OBVIOUS
  <2>3. Upto(a)
    <3>. DEFINE f == [x \in a .. a |-> v]
    <3>1. f \in [a .. a -> V] /\ f[a] = v /\ \A l \in a .. a : l = a
      OBVIOUS
    <3>. HIDE DEF f
    <3>. QED
      BY <3>1
  <2>. QED
    BY <1>3, <2>1, <2>3
<1>5. m - 1 \in a .. b /\ m - 1 \notin T
  <2>1. m - 1 \in a .. b /\ ~(m <= m - 1)
    BY <1>3, <1>4
  <2>. QED
    BY <1>2, <2>1
<1>6. PICK f \in [a .. m - 1 -> V] :
        /\ f[a] = v
        /\ \A l \in a .. m - 1 : l # a => f[l] = step[<<l, f[l - 1]>>]
  BY <1>5
<1>. DEFINE g == [x \in a .. m |-> IF x = m THEN step[<<m, f[m - 1]>>] ELSE f[x]]
<1>7. f[m - 1] \in V /\ step[<<m, f[m - 1]>>] \in V
  BY <1>3, <1>4, <1>5
<1>8. g \in [a .. m -> V]
  BY <1>3, <1>4, <1>7
<1>9. g[a] = v
  BY <1>3, <1>4, <1>6
<1>10. ASSUME NEW l \in a .. m, l # a PROVE g[l] = step[<<l, g[l - 1]>>]
  <2>1. l - 1 \in a .. m - 1 /\ l - 1 # m /\ g[l - 1] = f[l - 1]
    BY <1>3, <1>4, <1>10
  <2>2. CASE l = m
    BY <2>1, <2>2
  <2>3. CASE l # m
    <3>1. l \in a .. m - 1 /\ g[l] = f[l]
      BY <1>3, <1>10, <2>3
    <3>. QED
      BY <1>6, <1>10, <2>1, <3>1
  <2>. QED
    BY <2>2, <2>3
<1>11. Upto(m)
  <2>. HIDE DEF g
  <2>. QED
    BY <1>8, <1>9, <1>10
<1>. QED
  BY <1>3, <1>11

-----------------------------------------------------------------------------
(***************************************************************************)
(* The rows of the trie (heighthelp).                                      *)
(***************************************************************************)
LEMMA SoFarFact ==
  /\ SoFar[0] = 0
  /\ \A h \in 1 .. NumNodes : SoFar[h] = Branching * (SoFar[h - 1] + 1)
  /\ \A h \in 0 .. NumNodes : SoFar[h] \in Nat
<1>. DEFINE step == [p \in Nat \X Nat |-> Branching * (p[2] + 1)]
<1>0. NumNodes \in Nat \ {0} /\ Branching \in Nat
  BY NumNodesFact, TrieAssumption
<1>1. step \in [Nat \X Nat -> Nat]
  BY <1>0
<1>2. \A h \in Nat, x \in Nat : step[<<h, x>>] = Branching * (x + 1)
  OBVIOUS
<1>. HIDE DEF step
<1>3. \E f \in [0 .. NumNodes -> Nat] : Computes(f, 0, NumNodes, 0, step)
  <2>1. 0 \in Nat /\ NumNodes \in Nat /\ 0 <= NumNodes
    BY <1>0
  <2>. QED
    BY <1>1, <2>1, Recursion
<1>4. PICK f \in [0 .. NumNodes -> Nat] :
        /\ f[0] = 0
        /\ \A h \in 1 .. NumNodes : f[h] = Branching * (f[h - 1] + 1)
  <2>1. PICK f \in [0 .. NumNodes -> Nat] :
        /\ f[0] = 0
        /\ \A h \in 0 .. NumNodes : h # 0 => f[h] = step[<<h, f[h - 1]>>]
    BY <1>3 DEF Computes
  <2>2. \A h \in 1 .. NumNodes : h \in Nat /\ h # 0 /\ f[h - 1] \in Nat
    BY <1>0
  <2>3. ASSUME NEW h \in 1 .. NumNodes
        PROVE  f[h] = Branching * (f[h - 1] + 1)
    <3>1. h \in 0 .. NumNodes /\ h # 0 /\ h \in Nat /\ f[h - 1] \in Nat
      BY <1>0, <2>2
    <3>2. f[h] = step[<<h, f[h - 1]>>]
      BY <2>1, <3>1
    <3>. QED
      BY <1>2, <3>1, <3>2
  <2>. QED
    BY <2>1, <2>3
<1>5. f = [h \in 0 .. NumNodes |->
             IF h = 0 THEN 0 ELSE Branching * (f[h - 1] + 1)]
  <2>. DEFINE next(h) == IF h = 0 THEN 0 ELSE Branching * (f[h - 1] + 1)
  <2>1. ASSUME NEW h \in 0 .. NumNodes PROVE f[h] = next(h)
    <3>1. CASE h = 0
      BY <1>4, <3>1
    <3>2. CASE h # 0
      <4>1. h \in 1 .. NumNodes
        BY <1>0, <3>2
      <4>. QED
        BY <1>4, <3>2, <4>1
    <3>. QED
      BY <3>1, <3>2
  <2>. HIDE DEF next
  <2>2. f = [h \in 0 .. NumNodes |-> next(h)]
    BY <1>4, <2>1
  <2>. QED
    BY <2>2 DEF next
<1>6. SoFar = [h \in 0 .. NumNodes |->
                 IF h = 0 THEN 0 ELSE Branching * (SoFar[h - 1] + 1)]
  BY <1>5, Zenon DEF SoFar
<1>7. SoFar[0] = 0
  BY <1>0, <1>6
<1>8. ASSUME NEW h \in 1 .. NumNodes
      PROVE  SoFar[h] = Branching * (SoFar[h - 1] + 1)
  BY <1>0, <1>6
<1>. DEFINE T == {h \in 0 .. NumNodes : SoFar[h] \notin Nat}
<1>9. ASSUME T # {} PROVE FALSE
  <2>1. T \in SUBSET Nat
    BY <1>0
  <2>2. PICK h \in T : \A y \in T : h <= y
    BY <1>9, <2>1, LeastElement
  <2>3. h # 0 /\ h - 1 \in 0 .. NumNodes /\ h - 1 \notin T
    BY <1>0, <1>7, <2>2
  <2>4. SoFar[h - 1] \in Nat /\ h \in 1 .. NumNodes
    BY <1>0, <2>3
  <2>5. SoFar[h] \in Nat
    BY <1>0, <1>8, <2>4
  <2>. QED
    BY <2>5
<1>. QED
  BY <1>7, <1>8, <1>9
-----------------------------------------------------------------------------
\* As many rows as nodes are enough.
LEMMA RowsFact == \A h \in 0 .. NumNodes : SoFar[h] >= h
<1>0. NumNodes \in Nat \ {0} /\ Branching \in Nat /\ Branching >= 2
  BY NumNodesFact, TrieAssumption
<1>. DEFINE T == {h \in 0 .. NumNodes : SoFar[h] < h}
<1>1. SUFFICES ASSUME T # {} PROVE FALSE
  BY <1>0, SoFarFact
<1>2. T \in SUBSET Nat
  BY <1>0
<1>3. PICK h \in T : \A y \in T : h <= y
  BY <1>1, <1>2, LeastElement
<1>4. h \in 1 .. NumNodes /\ h - 1 \in 0 .. NumNodes /\ h - 1 \notin T
  BY <1>0, <1>3, SoFarFact
<1>5. SoFar[h - 1] \in Nat /\ SoFar[h - 1] >= h - 1
  BY <1>4, SoFarFact
<1>6. SoFar[h] = Branching * (SoFar[h - 1] + 1)
  BY <1>4, SoFarFact
<1>7. Branching * (SoFar[h - 1] + 1) >= 1 * (SoFar[h - 1] + 1)
  BY <1>0, <1>5
<1>8. h \in 0 .. NumNodes /\ SoFar[h] < h
  BY <1>3
<1>. QED
  BY <1>0, <1>4, <1>5, <1>6, <1>7, <1>8

\* heighthelp ends, and there is a row below the root.
LEMMA HeightFact ==
  /\ Height \in 1 .. NumNodes
  /\ SoFar[Height] >= NumNodes
  /\ SoFar[Height - 1] < NumNodes
<1>. DEFINE T == {h \in 0 .. NumNodes : SoFar[h] >= NumNodes}
<1>0. NumNodes \in Nat \ {0}
  BY NumNodesFact
<1>1. T \in SUBSET Nat /\ T # {}
  BY <1>0, RowsFact
<1>2. Height = Min(T)
  BY DEF Height
<1>. HIDE DEF T
<1>3. Height \in T /\ \A y \in T : Height <= y
  BY <1>1, <1>2, MinFact
<1>. USE DEF T
<1>4. Height \in 0 .. NumNodes /\ Height # 0
  BY <1>0, <1>3, SoFarFact
<1>5. Height - 1 \in 0 .. NumNodes /\ Height - 1 \notin T /\ SoFar[Height - 1] \in Nat
  BY <1>0, <1>3, <1>4, SoFarFact
<1>. QED
  BY <1>0, <1>3, <1>4, <1>5

-----------------------------------------------------------------------------
(***************************************************************************)
(* Nodes and paths (parentof, which_child, pathto).                        *)
(***************************************************************************)
AnyNode == 0 .. NumNodes
LastIndex == NumNodes + NumPositions
Depth(index) == Len(PathTo[index])

\* The indices of nodes and of leaves make up 1 .. LastIndex.
LEMMA IndexFacts ==
  /\ AnyNode = Node \cup {0} /\ 0 \notin Node
  /\ Node \cup Leaf = 1 .. LastIndex /\ Node \cap Leaf = {}
  /\ LastIndex \in Nat
<1>0. NumNodes \in Nat \ {0} /\ NumPositions \in Nat
  BY NumNodesFact, TrieAssumption
<1>1. Leaf = NumNodes + 1 .. NumNodes + NumPositions
  <2>1. ASSUME NEW x \in NumNodes + 1 .. NumNodes + NumPositions PROVE x \in Leaf
    <3>1. x - NumNodes - 1 \in 0 .. NumPositions - 1 /\ x = NumNodes + (x - NumNodes - 1) + 1
      BY <1>0
    <3>. QED
      BY <3>1 DEF Leaf, TrieIndex
  <2>2. ASSUME NEW x \in Leaf PROVE x \in NumNodes + 1 .. NumNodes + NumPositions
    <3>1. PICK i \in 0 .. NumPositions - 1 : x = NumNodes + i + 1
      BY DEF Leaf, TrieIndex
    <3>. QED
      BY <1>0, <3>1
  <2>. QED
    BY <2>1, <2>2
<1>. QED
  BY <1>0, <1>1 DEF AnyNode, Node, LastIndex

\* Where ParentOf and WhichChild lie.
LEMMA ParentFacts ==
  ASSUME NEW i \in 1 .. LastIndex
  PROVE  /\ ParentOf(i) \in AnyNode
         /\ ParentOf(i) < i
         /\ WhichChild(i) \in Which
         /\ i = Branching * ParentOf(i) + WhichChild(i) + 1
         /\ \A s \in Nat : ParentOf(i) <= s <=> i <= Branching * (s + 1)
<1>. DEFINE B == Branching
            N == NumNodes
            p == (i - 1) \div B
            r == (i - 1) % B
<1>0. B \in Nat /\ B >= 2 /\ N \in Nat \ {0} /\ NumPositions \in Nat /\ i \in Nat
      /\ i >= 1 /\ i <= N + NumPositions
  BY NumNodesFact, TrieAssumption DEF LastIndex
<1>1. p \in Int /\ r \in 0 .. B - 1 /\ i - 1 = B * p + r
  BY <1>0
<1>2. ParentOf(i) = p /\ WhichChild(i) = r
  BY DEF ParentOf, WhichChild
<1>3. NumPositions - 2 < (B - 1) * (N + 1)
  <2>. DEFINE b == B - 1
              n == NumPositions - 2
  <2>1. b \in Nat \ {0} /\ n \in Int
    BY <1>0
  <2>. HIDE DEF b, n, N
  <2>2. n \div b \in Int /\ n % b \in 0 .. b - 1 /\ n = b * (n \div b) + (n % b)
    BY <2>1
  <2>3. N = n \div b
    BY DEF N, NumNodes, n, b
  <2>4. b * (N + 1) = b * N + b /\ b * N \in Int
    BY <2>1, <2>2, <2>3
  <2>5. n < b * (N + 1)
    BY <2>1, <2>2, <2>3, <2>4
  <2>. QED
    BY <2>5 DEF n, b
<1>. HIDE DEF B, N, p, r
<1>4. p >= 0
  <2>1. SUFFICES ASSUME p <= -1 PROVE FALSE
    BY <1>1
  <2>2. B * p <= B * (-1)
    BY <1>0, <1>1, <2>1
  <2>. QED
    BY <1>0, <1>1, <2>2
<1>5. \A s \in Nat : p <= s <=> i <= B * (s + 1)
  <2>. TAKE s \in Nat
  <2>1. ASSUME p <= s PROVE i <= B * (s + 1)
    <3>1. B * p <= B * s /\ B * (s + 1) = B * s + B
      BY <1>0, <1>1, <2>1
    <3>. QED
      BY <1>0, <1>1, <3>1
  <2>2. ASSUME p >= s + 1 PROVE i > B * (s + 1)
    <3>1. B * p >= B * (s + 1)
      BY <1>0, <1>1, <2>2
    <3>. QED
      BY <1>0, <1>1, <3>1
  <2>. QED
    BY <1>0, <1>1, <2>1, <2>2
<1>6. p <= N
  <2>1. (B - 1) * (N + 1) = B * (N + 1) - (N + 1)
    BY <1>0
  <2>2. i <= B * (N + 1)
    BY <1>0, <1>3, <2>1
  <2>. QED
    BY <1>0, <1>5, <2>2
<1>7. p < i
  <2>1. B * p >= p
    BY <1>0, <1>1, <1>4
  <2>. QED
    BY <1>0, <1>1, <2>1
<1>. QED
  BY <1>0, <1>1, <1>2, <1>4, <1>5, <1>6, <1>7 DEF AnyNode, Which, B, N

\* Different indices have different parents or are different children.
LEMMA ChildUnique ==
  ASSUME NEW i \in 1 .. LastIndex, NEW j \in 1 .. LastIndex,
         ParentOf(i) = ParentOf(j), WhichChild(i) = WhichChild(j)
  PROVE  i = j
  BY ParentFacts

Paths(g, m) ==
  /\ g[0] = <<>>
  /\ \A x \in 1 .. m : g[x] = Append(g[ParentOf(x)], ParentOf(x))

\* The recursion that defines PathTo has a solution.
LEMMA PathToExists == \E g \in [0 .. LastIndex -> Seq(AnyNode)] : Paths(g, LastIndex)
<1>. DEFINE Upto(m) == \E g \in [0 .. m -> Seq(AnyNode)] : Paths(g, m)
            T == {m \in 0 .. LastIndex : ~Upto(m)}
<1>0. LastIndex \in Nat
  BY IndexFacts
<1>1. SUFFICES ASSUME T # {} PROVE FALSE
  <2>1. LastIndex \in 0 .. LastIndex
    BY <1>0
  <2>2. Upto(LastIndex)
    BY <1>1, <2>1
  <2>. QED
    BY <2>2
<1>2. T \in SUBSET Nat
  BY <1>0
<1>3. PICK m \in T : \A y \in T : m <= y
  BY <1>1, <1>2, LeastElement
<1>4. m # 0
  <2>. DEFINE g == [x \in 0 .. 0 |-> <<>>]
  <2>1. g \in [0 .. 0 -> Seq(AnyNode)] /\ g[0] = <<>> /\ 1 .. 0 = {}
    OBVIOUS
  <2>. HIDE DEF g
  <2>2. Upto(0)
    BY <2>1 DEF Paths
  <2>. QED
    BY <1>3, <2>2
<1>5. m \in 1 .. LastIndex /\ m - 1 \in 0 .. LastIndex /\ m - 1 \notin T
  <2>1. m - 1 \in 0 .. LastIndex /\ ~(m <= m - 1) /\ m \in 1 .. LastIndex
    BY <1>0, <1>3, <1>4
  <2>. QED
    BY <1>3, <2>1
<1>6. PICK g \in [0 .. m - 1 -> Seq(AnyNode)] : Paths(g, m - 1)
  BY <1>5
<1>7. ParentOf(m) \in AnyNode /\ ParentOf(m) \in 0 .. m - 1
  BY <1>5, ParentFacts, NumNodesFact DEF AnyNode
<1>. DEFINE new == Append(g[ParentOf(m)], ParentOf(m))
            f == [x \in 0 .. m |-> IF x = m THEN new ELSE g[x]]
<1>8. g[ParentOf(m)] \in Seq(AnyNode) /\ new \in Seq(AnyNode)
  BY <1>7
<1>9. f \in [0 .. m -> Seq(AnyNode)]
  BY <1>0, <1>3, <1>8
<1>10. f[0] = <<>> /\ f[ParentOf(m)] = g[ParentOf(m)] /\ f[m] = new
  <2>1. 0 \in 0 .. m /\ m \in 0 .. m /\ ParentOf(m) \in 0 .. m /\ ParentOf(m) # m
    BY <1>0, <1>5, <1>7
  <2>2. f[0] = g[0] /\ g[0] = <<>>
    BY <1>4, <1>6, <2>1 DEF Paths
  <2>. QED
    BY <2>1, <2>2
<1>11. ASSUME NEW x \in 1 .. m - 1
       PROVE  f[x] = Append(f[ParentOf(x)], ParentOf(x))
  <2>1. x \in 1 .. LastIndex /\ x \in 0 .. m /\ x # m
    BY <1>5, <1>0
  <2>2. ParentOf(x) \in 0 .. m - 1
    BY <2>1, ParentFacts, NumNodesFact DEF AnyNode
  <2>3. f[x] = g[x] /\ f[ParentOf(x)] = g[ParentOf(x)]
    BY <1>5, <2>1, <2>2
  <2>. QED
    BY <1>6, <2>3 DEF Paths
<1>. HIDE DEF f, new
<1>12. ASSUME NEW x \in 1 .. m
       PROVE  f[x] = Append(f[ParentOf(x)], ParentOf(x))
  <2>1. x = m \/ x \in 1 .. m - 1
    BY <1>5
  <2>. QED
    BY <1>10, <1>11, <2>1 DEF new
<1>13. Upto(m)
  BY <1>9, <1>10, <1>12 DEF Paths
<1>. QED
  BY <1>3, <1>13

\* PathTo is that solution.
LEMMA PathToFact ==
  /\ PathTo[0] = <<>>
  /\ \A x \in 1 .. LastIndex :
       PathTo[x] = Append(PathTo[ParentOf(x)], ParentOf(x))
<1>1. PICK g \in [0 .. LastIndex -> Seq(AnyNode)] : Paths(g, LastIndex)
  BY PathToExists
<1>2. g = [index \in 0 .. LastIndex |->
             IF index = 0 THEN <<>>
             ELSE Append(g[ParentOf(index)], ParentOf(index))]
  BY <1>1, IndexFacts DEF Paths
<1>3. PathTo = [index \in 0 .. LastIndex |->
                  IF index = 0 THEN <<>>
                  ELSE Append(PathTo[ParentOf(index)], ParentOf(index))]
  BY <1>2, Zenon DEF PathTo, LastIndex
<1>4. 0 \in 0 .. LastIndex
  BY IndexFacts
<1>5. ASSUME NEW x \in 1 .. LastIndex
      PROVE  PathTo[x] = Append(PathTo[ParentOf(x)], ParentOf(x))
  <2>1. x \in 0 .. LastIndex /\ x # 0
    BY IndexFacts
  <2>. QED
    BY <1>3, <2>1
<1>. QED
  BY <1>3, <1>4, <1>5
-----------------------------------------------------------------------------
\* What the path to index i is.
PathOK(i) ==
  /\ PathTo[i] \in Seq(AnyNode)
  /\ Depth(i) = 0 <=> i = 0
  /\ i # 0 => /\ Depth(i) = Depth(ParentOf(i)) + 1
              /\ PathTo[i][Depth(i)] = ParentOf(i)
  /\ \A l \in 0 .. Depth(i) - 1 :
       LET n == PathTo[i][l + 1]
       IN  /\ n \in AnyNode /\ n < i
           /\ Depth(n) = l
           /\ l = 0 <=> n = 0
           /\ l # 0 => ParentOf(n) = PathTo[i][l]
           /\ \A k \in 1 .. l : PathTo[n][k] = PathTo[i][k]

\* Every path is as PathOK says.
LEMMA PathFacts == ASSUME NEW i \in 0 .. LastIndex PROVE PathOK(i)
<1>. DEFINE T == {x \in 0 .. LastIndex : ~PathOK(x)}
<1>0. LastIndex \in Nat /\ NumNodes \in Nat \ {0}
  BY IndexFacts, NumNodesFact
<1>1. SUFFICES ASSUME T # {} PROVE FALSE
  OBVIOUS
<1>2. PICK m \in T : \A y \in T : m <= y
  <2>1. T \in SUBSET Nat
    BY <1>0
  <2>. QED
    BY <1>1, <2>1, LeastElement
<1>3. m \in 0 .. LastIndex /\ ~PathOK(m)
  OBVIOUS
<1>4. m # 0
  <2>1. SUFFICES ASSUME m = 0 PROVE FALSE
    OBVIOUS
  <2>2. PathTo[0] = <<>> /\ <<>> \in Seq(AnyNode)
    BY PathToFact
  <2>3. Depth(0) = 0 /\ 0 .. Depth(0) - 1 = {}
    BY <2>2 DEF Depth
  <2>4. PathOK(0)
    BY <2>2, <2>3 DEF PathOK
  <2>. QED
    BY <1>3, <2>1, <2>4
<1>. DEFINE p == ParentOf(m)
<1>5. m \in 1 .. LastIndex /\ p \in 0 .. LastIndex /\ p < m /\ p \in AnyNode
      /\ m \in Nat /\ p \in Nat
  <2>1. m \in 1 .. LastIndex
    BY <1>0, <1>3, <1>4
  <2>. QED
    BY <1>0, <2>1, ParentFacts DEF AnyNode
<1>6. PathOK(p)
  <2>1. p \notin T
    BY <1>2, <1>5
  <2>. QED
    BY <1>5, <2>1
<1>. DEFINE s == PathTo[p]
            t == PathTo[m]
<1>7. s \in Seq(AnyNode) /\ t = Append(s, p)
  BY <1>5, <1>6, PathToFact DEF PathOK
<1>8. /\ t \in Seq(AnyNode)
      /\ Len(s) \in Nat /\ Len(t) = Len(s) + 1
      /\ t[Len(s) + 1] = p
      /\ \A k \in 1 .. Len(s) : t[k] = s[k]
  BY <1>5, <1>7
<1>9. Depth(m) = Len(s) + 1 /\ Depth(p) = Len(s)
  BY <1>8 DEF Depth
<1>10. ASSUME NEW l \in 0 .. Depth(m) - 1
       PROVE  /\ t[l + 1] \in AnyNode /\ t[l + 1] < m
              /\ Depth(t[l + 1]) = l
              /\ l = 0 <=> t[l + 1] = 0
              /\ l # 0 => ParentOf(t[l + 1]) = t[l]
              /\ \A k \in 1 .. l : PathTo[t[l + 1]][k] = t[k]
  <2>1. CASE l = Len(s)
    <3>1. t[l + 1] = p
      BY <1>8, <2>1
    <3>2. l # 0 => t[l] = s[l] /\ p # 0 /\ s[Depth(p)] = ParentOf(p)
      <4>1. l # 0 => p # 0 /\ l = Depth(p) /\ l \in 1 .. Len(s)
        <5>1. Depth(p) = 0 <=> p = 0
          BY <1>6 DEF PathOK
        <5>. QED
          BY <1>8, <1>9, <2>1, <5>1
      <4>2. p # 0 => s[Depth(p)] = ParentOf(p)
        BY <1>6 DEF PathOK
      <4>. QED
        BY <1>8, <4>1, <4>2
    <3>. QED
      BY <1>5, <1>6, <1>8, <1>9, <2>1, <3>1, <3>2 DEF PathOK
  <2>2. CASE l # Len(s)
    <3>1. l \in 0 .. Depth(p) - 1 /\ l + 1 \in 1 .. Len(s) /\ l \in Nat
      BY <1>8, <1>9, <2>2
    <3>2. t[l + 1] = s[l + 1] /\ (l # 0 => t[l] = s[l])
      BY <1>8, <3>1
    <3>3. \A k \in 1 .. l : k \in 1 .. Len(s) /\ t[k] = s[k]
      BY <1>8, <3>1
    <3>. DEFINE n == s[l + 1]
    <3>4. /\ n \in AnyNode /\ n < p
          /\ Depth(n) = l
          /\ l = 0 <=> n = 0
          /\ l # 0 => ParentOf(n) = s[l]
          /\ \A k \in 1 .. l : PathTo[n][k] = s[k]
      BY <1>6, <3>1 DEF PathOK
    <3>5. n < m
      <4>1. n \in Nat
        BY <1>0, <3>4 DEF AnyNode
      <4>. QED
        BY <1>5, <3>4, <4>1
    <3>. HIDE DEF n
    <3>. QED
      BY <3>2, <3>3, <3>4, <3>5 DEF n
  <2>. QED
    BY <2>1, <2>2
<1>11. PathOK(m)
  BY <1>4, <1>8, <1>9, <1>10 DEF PathOK
<1>. QED
  BY <1>3, <1>11

-----------------------------------------------------------------------------
\* The indices of depth h and less are those that SoFar counts.
LEMMA DepthRows ==
  ASSUME NEW h \in 0 .. NumNodes, NEW i \in 0 .. LastIndex
  PROVE  Depth(i) \in Nat /\ (Depth(i) <= h <=> i <= SoFar[h])
<1>. DEFINE P(g) == \A x \in 0 .. LastIndex : Depth(x) <= g <=> x <= SoFar[g]
            T == {g \in 0 .. NumNodes : ~P(g)}
<1>0. LastIndex \in Nat /\ NumNodes \in Nat \ {0} /\ Branching \in Nat
  BY IndexFacts, NumNodesFact, TrieAssumption
<1>1. \A x \in 0 .. LastIndex :
        /\ Depth(x) \in Nat
        /\ Depth(x) = 0 <=> x = 0
        /\ x # 0 => Depth(x) = Depth(ParentOf(x)) + 1
  <2>. TAKE x \in 0 .. LastIndex
  <2>1. PathOK(x)
    BY PathFacts
  <2>2. PathTo[x] \in Seq(AnyNode)
    BY <2>1 DEF PathOK
  <2>3. Depth(x) \in Nat
    BY <2>2 DEF Depth
  <2>. QED
    BY <2>1, <2>3 DEF PathOK
<1>2. ASSUME T # {} PROVE FALSE
  <2>1. T \in SUBSET Nat
    BY <1>0
  <2>2. PICK g \in T : \A y \in T : g <= y
    BY <1>2, <2>1, LeastElement
  <2>3. g \in 0 .. NumNodes /\ ~P(g)
    OBVIOUS
  <2>4. PICK x \in 0 .. LastIndex : ~(Depth(x) <= g <=> x <= SoFar[g])
    BY <2>3
  <2>5. g # 0
    <3>1. SUFFICES ASSUME g = 0 PROVE FALSE
      OBVIOUS
    <3>2. SoFar[g] = 0
      BY <3>1, SoFarFact
    <3>. QED
      BY <1>0, <1>1, <2>4, <3>1, <3>2
  <2>6. g \in 1 .. NumNodes /\ g - 1 \in 0 .. NumNodes /\ P(g - 1)
    <3>1. g \in 1 .. NumNodes /\ g - 1 \in 0 .. NumNodes /\ ~(g <= g - 1)
      BY <1>0, <2>3, <2>5
    <3>2. g - 1 \notin T
      BY <2>2, <3>1
    <3>. QED
      BY <3>1, <3>2
  <2>7. SoFar[g - 1] \in Nat /\ SoFar[g] = Branching * (SoFar[g - 1] + 1)
        /\ SoFar[g] \in Nat
    BY <2>3, <2>6, SoFarFact
  <2>8. x # 0
    BY <1>1, <2>3, <2>4, <2>7
  <2>9. x \in 1 .. LastIndex
    BY <1>0, <2>8
  <2>10. ParentOf(x) \in 0 .. LastIndex
         /\ (ParentOf(x) <= SoFar[g - 1] <=> x <= SoFar[g])
    <3>1. ParentOf(x) \in AnyNode /\ ParentOf(x) < x
          /\ (ParentOf(x) <= SoFar[g - 1] <=> x <= Branching * (SoFar[g - 1] + 1))
      BY <2>7, <2>9, ParentFacts
    <3>. QED
      BY <1>0, <2>7, <2>9, <3>1 DEF AnyNode
  <2>11. Depth(ParentOf(x)) <= g - 1 <=> ParentOf(x) <= SoFar[g - 1]
    BY <2>6, <2>10
  <2>12. Depth(x) <= g <=> Depth(ParentOf(x)) <= g - 1
    <3>1. Depth(x) = Depth(ParentOf(x)) + 1 /\ Depth(ParentOf(x)) \in Nat /\ g \in Int
      BY <1>0, <1>1, <2>3, <2>8, <2>10
    <3>. QED
      BY <3>1
  <2>. QED
    BY <2>4, <2>10, <2>11, <2>12
<1>. QED
  BY <1>1, <1>2

\* The nodes are in the Height rows below the root, and the leaves hang on
\* the last two of these rows.
LEMMA DepthFacts ==
  /\ \A n \in AnyNode : Depth(n) \in Level /\ (Depth(n) = 0 <=> n = 0)
  /\ \A n \in Leaf : Depth(n) \in Height .. Height + 1
<1>0. /\ LastIndex \in Nat /\ NumNodes \in Nat \ {0}
      /\ Height \in 1 .. NumNodes /\ Height \in 0 .. NumNodes
      /\ Height - 1 \in 0 .. NumNodes
      /\ SoFar[Height] \in Nat /\ SoFar[Height - 1] \in Nat
      /\ SoFar[Height] >= NumNodes /\ SoFar[Height - 1] < NumNodes
  BY IndexFacts, NumNodesFact, HeightFact, SoFarFact
<1>1. ASSUME NEW n \in AnyNode
      PROVE  n \in 0 .. LastIndex /\ Depth(n) \in Level /\ (Depth(n) = 0 <=> n = 0)
  <2>1. n \in 0 .. LastIndex /\ n <= NumNodes /\ n \in Nat
    <3>1. NumPositions \in Nat
      BY TrieAssumption
    <3>. QED
      BY <1>0, <3>1 DEF AnyNode, LastIndex
  <2>2. n <= SoFar[Height]
    BY <1>0, <2>1
  <2>3. Depth(n) \in Nat /\ Depth(n) <= Height
    BY <1>0, <2>1, <2>2, DepthRows
  <2>4. PathOK(n)
    BY <2>1, PathFacts
  <2>. QED
    BY <1>0, <2>1, <2>3, <2>4 DEF Level, PathOK
<1>2. ASSUME NEW n \in Leaf PROVE Depth(n) \in Height .. Height + 1
  <2>1. n \in 1 .. LastIndex /\ n > NumNodes /\ n \in 0 .. LastIndex
    <3>1. n \in 1 .. LastIndex /\ n \notin 1 .. NumNodes
      BY IndexFacts DEF Node
    <3>. QED
      BY <1>0, <3>1
  <2>2. Depth(n) \in Nat /\ ~(Depth(n) <= Height - 1)
    <3>1. ~(n <= SoFar[Height - 1])
      BY <1>0, <2>1
    <3>. QED
      BY <1>0, <2>1, <3>1, DepthRows
  <2>3. PathOK(n) /\ n # 0 /\ ParentOf(n) \in AnyNode
    BY <2>1, PathFacts, ParentFacts
  <2>4. Depth(n) = Depth(ParentOf(n)) + 1 /\ Depth(ParentOf(n)) \in Level
    BY <1>1, <2>3 DEF PathOK
  <2>. QED
    BY <1>0, <2>2, <2>4 DEF Level
<1>. QED
  BY <1>1, <1>2
-----------------------------------------------------------------------------
(***************************************************************************)
(* The pointers of a node: powers of two, bits.                            *)
(***************************************************************************)
LEMMA DivUnique ==
  ASSUME NEW d \in Nat \ {0}, NEW a \in Nat, NEW q \in Nat, NEW r \in Nat,
         r < d, a = d * q + r
  PROVE  a \div d = q /\ a % d = r
<1>. DEFINE Q == a \div d
            R == a % d
<1>1. Q \in Int /\ R \in 0 .. d - 1 /\ a = d * Q + R
  OBVIOUS
<1>. HIDE DEF Q, R
<1>2. d * (Q - q) = r - R
  BY <1>1
<1>3. Q = q
  <2>1. CASE Q - q >= 1
    <3>1. d * (Q - q) >= d * 1
      BY <1>1, <2>1
    <3>. QED
      BY <1>1, <1>2, <3>1
  <2>2. CASE Q - q <= -1
    <3>1. d * (Q - q) <= d * (-1)
      BY <1>1, <2>2
    <3>. QED
      BY <1>1, <1>2, <3>1
  <2>. QED
    BY <1>1, <2>1, <2>2
<1>. QED
  BY <1>1, <1>3 DEF Q, R

\* Division by a product, in two steps.
LEMMA DivDiv ==
  ASSUME NEW d \in Nat \ {0}, NEW a \in Nat
  PROVE  a \div (2 * d) = (a \div d) \div 2
<1>. DEFINE q == a \div d
            s == a % d
            h == q \div 2
            r == q % 2
<1>1. q \in Int /\ s \in 0 .. d - 1 /\ a = d * q + s
  OBVIOUS
<1>2. q >= 0
  <2>1. SUFFICES ASSUME q <= -1 PROVE FALSE
    BY <1>1
  <2>. HIDE DEF q, s
  <2>2. d * q <= d * (-1)
    BY <1>1, <2>1
  <2>. QED
    BY <1>1, <2>2
<1>3. h \in Nat /\ r \in 0 .. 1 /\ q = 2 * h + r
  <2>. HIDE DEF q
  <2>. QED
    BY <1>1, <1>2
<1>. HIDE DEF q, s, h, r
<1>4. d * r \in {0, d}
  BY <1>3
<1>5. a = (2 * d) * h + (d * r + s)
  <2>1. d * q = d * (2 * h) + d * r
    BY <1>3
  <2>2. d * (2 * h) = (2 * d) * h
    BY <1>3
  <2>. QED
    BY <1>1, <1>3, <1>4, <2>1, <2>2
<1>6. d * r + s \in Nat /\ d * r + s < 2 * d /\ 2 * d \in Nat \ {0}
  BY <1>1, <1>4
<1>7. a \div (2 * d) = h
  BY <1>3, <1>5, <1>6, DivUnique
<1>. QED
  BY <1>7 DEF h, q

\* Powers of two that fit into a pointer are positive numbers.
LEMMA PowerFact == \A n \in 0 .. PtrBits : 2 ^ n \in Nat \ {0}
<1>. DEFINE T == {n \in 0 .. PtrBits : 2 ^ n \notin Nat \ {0}}
<1>0. PtrBits \in Nat
  BY TrieAssumption
<1>1. SUFFICES ASSUME T # {} PROVE FALSE
  OBVIOUS
<1>2. PICK n \in T : \A y \in T : n <= y
  <2>1. T \in SUBSET Nat
    BY <1>0
  <2>. QED
    BY <1>1, <2>1, LeastElement
<1>3. n # 0
  <2>1. 2 ^ 0 = 1
    OBVIOUS
  <2>2. n = 0 => 2 ^ n = 1
    BY <2>1, Zenon
  <2>. QED
    BY <1>2, <2>2
<1>4. n - 1 \in 0 .. PtrBits - 1 /\ n - 1 \in 0 .. PtrBits /\ n - 1 \notin T
  BY <1>0, <1>2, <1>3
<1>5. 2 ^ ((n - 1) + 1) = 2 * 2 ^ (n - 1) /\ (n - 1) + 1 = n
  BY <1>0, <1>4, PowerAssumption
<1>6. 2 ^ (n - 1) \in Nat \ {0}
  BY <1>4
<1>7. 2 ^ n \in Nat \ {0}
  BY <1>5, <1>6
<1>. QED
  BY <1>2, <1>7

\* Pointers with the same bits are the same.
LEMMA BitsFact ==
  ASSUME NEW x \in 0 .. Nptr, NEW y \in 0 .. Nptr,
         \A j \in 0 .. PtrBits - 1 : (x \div 2 ^ j) % 2 = (y \div 2 ^ j) % 2
  PROVE  x = y
<1>. DEFINE Same(n) == x \div 2 ^ n = y \div 2 ^ n
            T == {k \in 0 .. PtrBits : ~Same(PtrBits - k)}
<1>0. /\ PtrBits \in Nat \ {0} /\ 2 ^ PtrBits \in Nat \ {0}
      /\ x \in Nat /\ y \in Nat /\ x < 2 ^ PtrBits /\ y < 2 ^ PtrBits
  BY TrieAssumption, PowerFact DEF Nptr
<1>1. ASSUME T # {} PROVE FALSE
  <2>1. T \in SUBSET Nat
    BY <1>0
  <2>2. PICK k \in T : \A z \in T : k <= z
    BY <1>1, <2>1, LeastElement
  <2>3. k # 0
    <3>1. SUFFICES ASSUME k = 0 PROVE FALSE
      OBVIOUS
    <3>2. PtrBits - k = PtrBits
      BY <1>0, <3>1
    <3>3. x \div 2 ^ PtrBits = 0 /\ y \div 2 ^ PtrBits = 0
      <4>. DEFINE d == 2 ^ PtrBits
      <4>1. d \in Nat \ {0} /\ x < d /\ y < d
        BY <1>0
      <4>. HIDE DEF d
      <4>2. x = d * 0 + x /\ y = d * 0 + y
        BY <1>0, <4>1
      <4>3. x \div d = 0
        BY <1>0, <4>1, <4>2, DivUnique
      <4>4. y \div d = 0
        BY <1>0, <4>1, <4>2, DivUnique
      <4>. QED
        BY <4>3, <4>4 DEF d
    <3>. QED
      BY <2>2, <3>2, <3>3
  <2>. DEFINE j == PtrBits - k
  <2>4. /\ j \in 0 .. PtrBits - 1 /\ j \in 0 .. PtrBits /\ j + 1 \in 0 .. PtrBits
        /\ k - 1 \in 0 .. PtrBits /\ PtrBits - (k - 1) = j + 1 /\ k - 1 \notin T
        /\ ~Same(j)
    <3>1. k \in 1 .. PtrBits /\ ~Same(j)
      BY <1>0, <2>2, <2>3
    <3>2. k - 1 \in 0 .. PtrBits /\ ~(k <= k - 1)
      BY <1>0, <3>1
    <3>3. k - 1 \notin T
      BY <2>2, <3>2
    <3>. QED
      BY <1>0, <3>1, <3>2, <3>3
  <2>. HIDE DEF j
  <2>. DEFINE d == 2 ^ j
              u == x \div d
              v == y \div d
  <2>5. 2 ^ (j + 1) = 2 * d /\ d \in Nat \ {0}
    BY <2>4, PowerAssumption, PowerFact
  <2>. HIDE DEF d
  <2>6. x \div (2 * d) = u \div 2 /\ y \div (2 * d) = v \div 2
    BY <1>0, <2>5, DivDiv
  <2>7. x \div (2 * d) = y \div (2 * d)
    <3>1. Same(j + 1)
      BY <2>4
    <3>. QED
      BY <2>5, <3>1
  <2>8. u \in Int /\ v \in Int
    BY <1>0, <2>5
  <2>9. u % 2 = v % 2
    BY <2>4 DEF d
  <2>10. u # v
    BY <2>4 DEF d
  <2>. HIDE DEF u, v
  <2>. QED
    BY <2>6, <2>7, <2>8, <2>9, <2>10
<1>2. PtrBits \in 0 .. PtrBits /\ PtrBits - PtrBits = 0
  BY <1>0
<1>3. Same(0)
  BY <1>1, <1>2
<1>4. x \div 1 = x /\ y \div 1 = y
  <2>1. x = 1 * x + 0 /\ y = 1 * y + 0
    BY <1>0
  <2>. QED
    BY <1>0, <2>1, DivUnique
<1>. QED
  BY <1>3, <1>4
-----------------------------------------------------------------------------
\* Members of Data.
LEMMA DataFacts ==
  /\ Nptr \in Nat
  /\ NullNode \in Data
  /\ [c \in Which |-> 0] \in Data
  /\ \A d \in Data, c \in Which : d[c] \in 0 .. Nptr
  /\ \A d \in Data, c \in Which, p \in 0 .. Nptr : [d EXCEPT ![c] = p] \in Data
<1>1. Nptr \in Nat
  <2>1. PtrBits \in 0 .. PtrBits
    BY TrieAssumption
  <2>. QED
    BY <2>1, PowerFact DEF Nptr
<1>. QED
  BY <1>1 DEF Data, NullNode

\* A bit of a node is a bit of one of its pointers.
LEMMA BitIndexFacts ==
  /\ \A i \in 0 .. Branching * PtrBits - 1 :
       i \div PtrBits \in Which /\ i % PtrBits \in 0 .. PtrBits - 1
  /\ \A c \in Which, j \in 0 .. PtrBits - 1 :
       \E i \in 0 .. Branching * PtrBits - 1 :
         i \div PtrBits = c /\ i % PtrBits = j
<1>. DEFINE B == Branching
            P == PtrBits
<1>0. B \in Nat \ {0} /\ P \in Nat \ {0}
  BY TrieAssumption
<1>. HIDE DEF B, P
<1>1. ASSUME NEW i \in 0 .. B * P - 1
      PROVE  i \div P \in 0 .. B - 1 /\ i % P \in 0 .. P - 1
  <2>. DEFINE q == i \div P
              r == i % P
  <2>1. i \in Nat /\ i < B * P /\ B * P \in Nat
    BY <1>0
  <2>2. q \in Int /\ r \in 0 .. P - 1 /\ i = P * q + r
    BY <1>0, <2>1
  <2>. HIDE DEF q, r
  <2>3. q >= 0
    <3>1. SUFFICES ASSUME q <= -1 PROVE FALSE
      BY <2>2
    <3>2. P * q <= P * (-1)
      BY <1>0, <2>2, <3>1
    <3>. QED
      BY <1>0, <2>1, <2>2, <3>2
  <2>4. q <= B - 1
    <3>1. SUFFICES ASSUME q >= B PROVE FALSE
      BY <1>0, <2>2
    <3>2. P * q >= P * B
      BY <1>0, <2>2, <3>1
    <3>. QED
      BY <1>0, <2>1, <2>2, <3>2
  <2>. QED
    BY <2>2, <2>3, <2>4, <1>0 DEF q, r
<1>2. ASSUME NEW c \in 0 .. B - 1, NEW j \in 0 .. P - 1
      PROVE  \E i \in 0 .. B * P - 1 : i \div P = c /\ i % P = j
  <2>. DEFINE i == P * c + j
  <2>1. P * c \in Nat /\ P * c <= P * (B - 1) /\ P * (B - 1) = B * P - P
    BY <1>0
  <2>2. i \in 0 .. B * P - 1 /\ i \in Nat
    BY <1>0, <2>1
  <2>3. c \in Nat /\ j \in Nat /\ j < P /\ i = P * c + j
    BY <1>0
  <2>. HIDE DEF i
  <2>4. i \div P = c /\ i % P = j
    BY <1>0, <2>2, <2>3, DivUnique
  <2>. QED
    BY <2>2, <2>4
<1>. QED
  BY <1>1, <1>2 DEF B, P, Which

\* What PMWoram assumes holds for the ORAM of the nodes.
LEMMA RingOK ==
  ring!PointerAssumption /\ ring!WoramAssumption /\ ring!InitialAssumption
<1>0. /\ Branching \in Nat \ {0} /\ PtrBits \in Nat \ {0}
      /\ HoldSize \in Nat \ {0} /\ BindSpan \in Nat
      /\ Branching * PtrBits <= BindSpan
  BY TrieAssumption
<1>1. ring!PointerAssumption
  <2>1. Branching * PtrBits \in Nat \ {0}
    BY <1>0
  <2>. QED
    BY <1>0, <2>1 DEF ring!PointerAssumption
<1>2. ASSUME NEW d \in Data, NEW i \in ring!BitIndex
      PROVE  NodeBit(d, i) \in {0, 1}
  <2>. DEFINE x == d[i \div PtrBits]
              w == 2 ^ (i % PtrBits)
  <2>1. x \in Nat
    BY BitIndexFacts, DataFacts DEF ring!BitIndex
  <2>2. w \in Nat \ {0}
    <3>1. i % PtrBits \in 0 .. PtrBits
      BY <1>0, BitIndexFacts DEF ring!BitIndex
    <3>. QED
      BY <3>1, PowerFact
  <2>3. NodeBit(d, i) = (x \div w) % 2
    BY DEF NodeBit
  <2>. HIDE DEF x, w
  <2>. QED
    BY <2>1, <2>2, <2>3
<1>3. ASSUME NEW d \in Data, NEW e \in Data,
             \A i \in ring!BitIndex : NodeBit(d, i) = NodeBit(e, i)
      PROVE  d = e
  <2>1. ASSUME NEW c \in Which PROVE d[c] = e[c]
    <3>1. ASSUME NEW j \in 0 .. PtrBits - 1
          PROVE  (d[c] \div 2 ^ j) % 2 = (e[c] \div 2 ^ j) % 2
      <4>1. PICK i \in ring!BitIndex : i \div PtrBits = c /\ i % PtrBits = j
        BY BitIndexFacts DEF ring!BitIndex
      <4>2. NodeBit(d, i) = NodeBit(e, i)
        BY <1>3
      <4>. QED
        BY <4>1, <4>2, Zenon DEF NodeBit
    <3>2. d[c] \in 0 .. Nptr /\ e[c] \in 0 .. Nptr
      BY DataFacts
    <3>. QED
      BY <3>1, <3>2, BitsFact
  <2>. QED
    BY <2>1 DEF Data
<1>4. ring!WoramAssumption
  <2>1. Truncated \subseteq ring!Slot
    BY TrieAssumption DEF ring!Slot
  <2>. QED
    BY <1>2, <1>3, <2>1, NumNodesFact, DataFacts DEF ring!WoramAssumption
<1>5. ring!InitialAssumption
  BY DataFacts DEF ring!InitialAssumption, ring!NPtr, nodestore!NPtr,
     ring!PMax, nodestore!PMax, ring!Build, nodestore!Build
<1>. QED
  BY <1>1, <1>4, <1>5

\* DetWoram is instanced twice.
LEMMA SameStore ==
  /\ nodestore!NPtr = ring!NPtr /\ nodestore!Pointer = ring!Pointer
  /\ \A p : /\ nodestore!GetHold(p) = ring!GetHold(p)
            /\ nodestore!GetBind(p) = ring!GetBind(p)
            /\ nodestore!GetBitval(p) = ring!GetBitval(p)
  /\ \A k : nodestore!LtwTarget(k) = ring!LtwTarget(k)
  /\ \A i, b : nodestore!NewPosition(i, b) = ring!NewPosition(i, b)
  /\ \A b, c : nodestore!MismatchBit(b, c) = ring!MismatchBit(b, c)
  BY DEF nodestore!NPtr, ring!NPtr, nodestore!PMax, ring!PMax,
     nodestore!Build, ring!Build, nodestore!Pointer, ring!Pointer,
     nodestore!Slot, ring!Slot, nodestore!BitIndex, ring!BitIndex,
     nodestore!GetHold, ring!GetHold, nodestore!GetBind, ring!GetBind,
     nodestore!GetBitval, ring!GetBitval, nodestore!LtwTarget, ring!LtwTarget,
     nodestore!NewPosition, ring!NewPosition, nodestore!MismatchBit,
     ring!MismatchBit
-----------------------------------------------------------------------------
\* What nodestore holds for node n where its parent says pos.
Stored(n, pos) == IF pos = Nptr THEN NullNode ELSE NodeLoad(NodeInd(n), pos)

\* Induction along a stretch of numbers, with a set for every number in place
\* of a predicate.
LEMMA Along ==
  ASSUME NEW a \in Nat, NEW b \in Nat, NEW f, NEW In,
         f[a] \in In[a],
         \A l \in a .. b : l # a /\ f[l - 1] \in In[l - 1] => f[l] \in In[l]
  PROVE  \A l \in a .. b : f[l] \in In[l]
<1>. DEFINE T == {l \in a .. b : f[l] \notin In[l]}
<1>1. SUFFICES ASSUME T # {} PROVE FALSE
  OBVIOUS
<1>2. T \in SUBSET Nat
  OBVIOUS
<1>3. PICK l \in T : \A y \in T : l <= y
  BY <1>1, <1>2, LeastElement
<1>4. l \in a .. b /\ f[l] \notin In[l] /\ l # a
  BY <1>3
<1>5. l - 1 \in a .. b /\ ~(l <= l - 1)
  BY <1>4
<1>6. f[l - 1] \in In[l - 1]
  BY <1>3, <1>5
<1>. QED
  BY <1>4, <1>6

(***************************************************************************)
(* A walk down the path: C says what may be found in each node, and what   *)
(* the walk finds is among it.                                             *)
(***************************************************************************)
LEMMA DescendIn ==
  ASSUME NEW i \in 1 .. LastIndex, NEW from \in 1 .. Depth(i),
         NEW C \in [AnyNode -> SUBSET Data],
         NEW top \in C[PathTo[i][from]],
         \A l \in from .. Depth(i) - 1 :
           \A d \in C[PathTo[i][l]] :
             Stored(PathTo[i][l + 1], d[WhichChild(PathTo[i][l + 1])])
               \in C[PathTo[i][l + 1]]
  PROVE  LET data == Descend(PathTo[i], from, top)
         IN  \A l \in from - 1 .. Depth(i) - 1 : data[l] \in C[PathTo[i][l + 1]]
<1>. DEFINE path == PathTo[i]
            L == Depth(i)
            next(l, d) == Stored(path[l + 1], d[WhichChild(path[l + 1])])
            step == [p \in Nat \X Data |->
                       IF next(p[1], p[2]) \in Data THEN next(p[1], p[2]) ELSE top]
            In == [l \in from - 1 .. L - 1 |-> C[path[l + 1]]]
            data == Descend(path, from, top)
<1>0. /\ L \in Nat /\ L = Len(path) /\ path \in Seq(AnyNode)
      /\ from \in Nat /\ from - 1 \in Nat /\ L - 1 \in Nat /\ from - 1 <= L - 1
      /\ from - 1 + 1 = from
  <2>1. PathOK(i)
    BY PathFacts, IndexFacts
  <2>. QED
    BY <2>1 DEF PathOK, Depth
<1>1. \A l \in from - 1 .. L - 1 : l \in Nat /\ C[path[l + 1]] \in SUBSET Data
  <2>. SUFFICES ASSUME NEW l \in from - 1 .. L - 1
                PROVE  l \in Nat /\ path[l + 1] \in AnyNode
    OBVIOUS
  <2>1. l \in Nat /\ l + 1 \in 1 .. Len(path)
    BY <1>0
  <2>. QED
    BY <1>0, <2>1
<1>2. top \in Data /\ top \in C[path[from]]
  <2>1. from - 1 \in from - 1 .. L - 1
    BY <1>0
  <2>. QED
    BY <1>0, <1>1, <2>1
<1>3. ASSUME NEW l \in from - 1 .. L - 1, l # from - 1,
             NEW d \in C[path[l]]
      PROVE  next(l, d) \in C[path[l + 1]]
  <2>1. l \in from .. L - 1
    BY <1>0, <1>3
  <2>. QED
    BY <2>1
<1>. HIDE DEF next
<1>4. step \in [Nat \X Data -> Data]
  BY <1>2
<1>5. \A l \in Nat, d \in Data :
        step[<<l, d>>] = IF next(l, d) \in Data THEN next(l, d) ELSE top
  OBVIOUS
<1>. HIDE DEF step
<1>6. \E f \in [from - 1 .. L - 1 -> Data] : Computes(f, from - 1, L - 1, top, step)
  BY <1>0, <1>2, <1>4, Recursion
<1>7. PICK f \in [from - 1 .. L - 1 -> Data] :
        Computes(f, from - 1, L - 1, top, step)
  BY <1>6
<1>. HIDE DEF path, L
<1>8. \A l \in from - 1 .. L - 1 : f[l] \in In[l]
  <2>1. from - 1 \in from - 1 .. L - 1
    BY <1>0
  <2>2. f[from - 1] \in In[from - 1]
    BY <1>0, <1>2, <1>7, <2>1 DEF Computes
  <2>3. ASSUME NEW l \in from - 1 .. L - 1, l # from - 1, f[l - 1] \in In[l - 1]
        PROVE  f[l] \in In[l]
    <3>1. l - 1 \in from - 1 .. L - 1 /\ l - 1 + 1 = l /\ l \in Nat
      BY <1>0, <2>3
    <3>2. f[l - 1] \in C[path[l]] /\ f[l - 1] \in Data
      BY <2>3, <3>1
    <3>3. next(l, f[l - 1]) \in C[path[l + 1]]
      BY <1>3, <2>3, <3>2
    <3>4. next(l, f[l - 1]) \in Data
      BY <1>1, <3>3
    <3>5. f[l] = step[<<l, f[l - 1]>>]
      BY <1>7, <2>3 DEF Computes
    <3>. QED
      BY <1>5, <3>1, <3>2, <3>3, <3>4, <3>5
  <2>. HIDE DEF In
  <2>. QED
    BY <1>0, <2>2, <2>3, Along
<1>9. ASSUME NEW l \in from - 1 .. L - 1
      PROVE  f[l] = IF l = from - 1 THEN top ELSE next(l, f[l - 1])
  <2>1. CASE l = from - 1
    BY <1>7, <2>1 DEF Computes
  <2>2. CASE l # from - 1
    <3>1. l - 1 \in from - 1 .. L - 1 /\ l - 1 + 1 = l /\ l \in Nat
      BY <1>0, <2>2
    <3>2. f[l - 1] \in C[path[l]] /\ f[l - 1] \in Data
      BY <1>8, <3>1
    <3>3. next(l, f[l - 1]) \in Data
      BY <1>1, <1>3, <2>2, <3>2
    <3>4. f[l] = step[<<l, f[l - 1]>>]
      BY <1>7, <2>2 DEF Computes
    <3>. QED
      BY <1>5, <2>2, <3>1, <3>2, <3>3, <3>4
  <2>. QED
    BY <2>1, <2>2
<1>10. f = [l \in from - 1 .. L - 1 |->
              IF l = from - 1 THEN top ELSE next(l, f[l - 1])]
  BY <1>9
<1>11. data = [l \in from - 1 .. Len(path) - 1 |->
                 IF l = from - 1 THEN top ELSE next(l, data[l - 1])]
  BY <1>0, <1>10, Zenon DEF Descend, next, Stored
<1>. HIDE DEF data
<1>12. \A l \in from - 1 .. L - 1 : data[l] \in In[l]
  <2>1. from - 1 \in from - 1 .. L - 1
    BY <1>0
  <2>2. data[from - 1] \in In[from - 1]
    BY <1>0, <1>2, <1>11, <2>1
  <2>3. ASSUME NEW l \in from - 1 .. L - 1, l # from - 1,
               data[l - 1] \in In[l - 1]
        PROVE  data[l] \in In[l]
    <3>1. l - 1 \in from - 1 .. L - 1 /\ l - 1 + 1 = l
      BY <1>0, <2>3
    <3>2. data[l - 1] \in C[path[l]]
      BY <2>3, <3>1
    <3>3. data[l] = next(l, data[l - 1])
      BY <1>0, <1>11, <2>3
    <3>. QED
      BY <1>3, <2>3, <3>2, <3>3
  <2>. HIDE DEF In
  <2>. QED
    BY <1>0, <2>2, <2>3, Along
<1>. QED
  BY <1>12 DEF path, L, data
-----------------------------------------------------------------------------
Entry == [index : Node \cup {NullInd}, data : Data]

CachesOK ==
  /\ writecache \in [Level -> Entry]
  /\ readcache \in [Level -> Entry]
  /\ rcsplit \in 1 .. Height

\* A node is in the write cache, with the whole path to it.
InWrite(n) == \E l \in Level : writecache[l].index = n

WriteChain ==
  /\ writecache[0].index = NullInd
  /\ \A l \in 1 .. Height :
       LET n == writecache[l].index
       IN  n # NullInd =>
             /\ Depth(n) = l
             /\ \A k \in 0 .. l - 1 : writecache[k].index = PathTo[n][k + 1]

\* An entry of the read cache that can be reached from level rcsplit is on
\* one path with those in between.
ReadConnected(l) ==
  /\ l >= rcsplit
  /\ \A k \in rcsplit .. l : readcache[k].index # NullInd

ReadChain ==
  \A l \in Level : ReadConnected(l) =>
    LET n == readcache[l].index
    IN  /\ Depth(n) = l
        /\ \A k \in rcsplit .. l - 1 : readcache[k].index = PathTo[n][k + 1]

\* C says which data each node may have.
ReadIn(C) ==
  \A l \in Level : ReadConnected(l) => readcache[l].data \in C[readcache[l].index]

\* The read cache is off the path of the write cache: it may be used.
Aside ==
  \/ readcache[rcsplit].index = NullInd
  \/ readcache[rcsplit].index # writecache[rcsplit].index

Reaches(C) ==
  /\ C \in [AnyNode -> SUBSET Data]
  /\ \A l \in Level : (l = 0 \/ writecache[l].index # NullInd) =>
       writecache[l].data \in C[writecache[l].index]
  /\ \A n \in Node : ~InWrite(n) =>
       \A d \in C[ParentOf(n)] : Stored(n, d[WhichChild(n)]) \in C[n]

\* The level that MatchLen finds.
LEMMA MatchFact ==
  ASSUME NEW path, Len(path) \in Nat, NEW sofar \in Nat, sofar <= Len(path),
         NEW cache
  PROVE  LET m == MatchLen(path, sofar, cache)
         IN  /\ m \in sofar .. Len(path)
             /\ m < Len(path) => cache[m].index # path[m + 1]
             /\ \A l \in sofar .. m - 1 : cache[l].index = path[l + 1]
<1>. DEFINE T == {l \in sofar .. Len(path) :
                    l < Len(path) => cache[l].index # path[l + 1]}
            m == MatchLen(path, sofar, cache)
<1>1. T \in SUBSET Nat /\ Len(path) \in T
  OBVIOUS
<1>2. m = Min(T)
  BY DEF MatchLen
<1>. HIDE DEF m
<1>3. m \in T /\ \A y \in T : m <= y
  <2>. HIDE DEF T
  <2>. QED
    BY <1>1, <1>2, MinFact
<1>4. ASSUME NEW l \in sofar .. m - 1 PROVE cache[l].index = path[l + 1]
  <2>1. l \in sofar .. Len(path) /\ ~(m <= l)
    BY <1>3
  <2>2. l \notin T
    BY <1>3, <2>1
  <2>. QED
    BY <2>1, <2>2
<1>. QED
  BY <1>3, <1>4 DEF m

\* The path to an index: a node at every level.
LEMMA PathLevels ==
  ASSUME NEW i \in 1 .. LastIndex
  PROVE  /\ Depth(i) = Len(PathTo[i]) /\ Depth(i) \in 1 .. Height + 1
         /\ PathTo[i][1] = 0 /\ PathTo[i][Depth(i)] = ParentOf(i)
         /\ \A l \in 0 .. Depth(i) - 1 : l \in Level /\ PathTo[i][l + 1] \in AnyNode
         /\ \A l \in 1 .. Depth(i) - 1 :
              LET n == PathTo[i][l + 1]
              IN  /\ n \in Node /\ n # 0 /\ Depth(n) = l
                  /\ ParentOf(n) = PathTo[i][l]
                  /\ \A k \in 1 .. l : PathTo[n][k] = PathTo[i][k]
<1>0. PathOK(i) /\ i # 0 /\ i \in Nat
  BY PathFacts, IndexFacts
<1>1. Depth(i) \in Nat /\ Depth(i) # 0 /\ Depth(i) = Len(PathTo[i])
  BY <1>0 DEF PathOK, Depth
<1>2. Height \in Nat /\ Depth(i) <= Height + 1
  <2>1. Height \in Nat
    BY HeightFact, NumNodesFact
  <2>2. CASE i \in Leaf
    BY <2>1, <2>2, <1>1, DepthFacts
  <2>3. CASE i \in AnyNode
    BY <2>1, <2>3, <1>1, DepthFacts DEF Level
  <2>. QED
    BY <2>1, <2>2, <2>3, IndexFacts
<1>3. ASSUME NEW l \in 0 .. Depth(i) - 1
      PROVE  /\ l \in Level /\ PathTo[i][l + 1] \in AnyNode
             /\ Depth(PathTo[i][l + 1]) = l
             /\ l = 0 <=> PathTo[i][l + 1] = 0
             /\ l # 0 => ParentOf(PathTo[i][l + 1]) = PathTo[i][l]
             /\ \A k \in 1 .. l : PathTo[PathTo[i][l + 1]][k] = PathTo[i][k]
  <2>1. l \in Level
    BY <1>1, <1>2 DEF Level
  <2>. QED
    BY <1>0, <2>1 DEF PathOK
<1>4. ASSUME NEW l \in 1 .. Depth(i) - 1
      PROVE  l \in 0 .. Depth(i) - 1 /\ PathTo[i][l + 1] \in Node
             /\ PathTo[i][l + 1] # 0 /\ l # 0
  <2>1. l \in 0 .. Depth(i) - 1 /\ l # 0
    BY <1>1
  <2>. QED
    BY <1>3, <2>1, IndexFacts
<1>5. PathTo[i][1] = 0
  <2>1. 0 \in 0 .. Depth(i) - 1
    BY <1>1
  <2>2. PathTo[i][0 + 1] = 0
    BY <1>3, <2>1
  <2>. QED
    BY <2>2
<1>6. PathTo[i][Depth(i)] = ParentOf(i)
  BY <1>0 DEF PathOK
<1>. QED
  BY <1>1, <1>2, <1>3, <1>4, <1>5, <1>6

(***************************************************************************)
(* Where a path leaves the write cache.                                    *)
(***************************************************************************)
LEMMA SplitFact ==
  ASSUME CachesOK, WriteChain, NEW i \in 1 .. LastIndex
  PROVE  LET path == PathTo[i]
             split == MatchLen(path, 1, writecache)
         IN  /\ split \in 1 .. Depth(i)
             /\ split # Depth(i) => /\ split \in 1 .. Height
                                    /\ writecache[split].index # path[split + 1]
             /\ \A l \in 0 .. split - 1 : writecache[l].index = path[l + 1]
             /\ \A l \in split .. Depth(i) - 1 : ~InWrite(path[l + 1])
<1>. DEFINE path == PathTo[i]
            L == Depth(i)
            split == MatchLen(path, 1, writecache)
<1>0. /\ L = Len(path) /\ L \in 1 .. Height + 1 /\ Height \in Nat /\ L \in Nat
      /\ path[1] = 0
  BY PathLevels, HeightFact, NumNodesFact
<1>1. /\ split \in 1 .. L
      /\ split < L => writecache[split].index # path[split + 1]
      /\ \A l \in 1 .. split - 1 : writecache[l].index = path[l + 1]
  <2>1. Len(path) \in Nat /\ 1 \in Nat /\ 1 <= Len(path)
    BY <1>0
  <2>. HIDE DEF path
  <2>. QED
    BY <1>0, <2>1, MatchFact
<1>. HIDE DEF split
<1>2. ASSUME NEW l \in 0 .. split - 1 PROVE writecache[l].index = path[l + 1]
  <2>1. CASE l = 0
    BY <1>0, <2>1 DEF WriteChain, NullInd
  <2>2. CASE l # 0
    <3>1. l \in 1 .. split - 1
      BY <1>1, <2>2
    <3>. QED
      BY <1>1, <3>1
  <2>. QED
    BY <2>1, <2>2
<1>3. ASSUME NEW l \in split .. L - 1, InWrite(path[l + 1]) PROVE FALSE
  <2>. DEFINE n == path[l + 1]
  <2>1. l \in 1 .. L - 1
    BY <1>0, <1>1
  <2>2. /\ n # 0 /\ Depth(n) = l
        /\ \A k \in 1 .. l : PathTo[n][k] = path[k]
    BY <2>1, PathLevels
  <2>3. PICK k \in Level : writecache[k].index = n
    BY <1>3 DEF InWrite
  <2>. HIDE DEF n
  <2>4. k # 0
    BY <2>2, <2>3 DEF WriteChain, NullInd
  <2>5. k \in 1 .. Height
    BY <1>0, <2>4 DEF Level
  <2>6. k = l /\ \A j \in 0 .. l - 1 : writecache[j].index = PathTo[n][j + 1]
    BY <2>2, <2>3, <2>5 DEF WriteChain, NullInd
  <2>7. CASE split = l
    BY <1>0, <1>1, <2>3, <2>6, <2>7 DEF n
  <2>8. CASE split # l
    <3>1. split \in 0 .. l - 1 /\ split + 1 \in 1 .. l /\ split < L
      BY <1>0, <1>1, <2>8
    <3>2. writecache[split].index = path[split + 1]
      BY <2>2, <2>6, <3>1
    <3>. QED
      BY <1>1, <3>1, <3>2
  <2>. QED
    BY <2>7, <2>8
<1>4. split # L => split \in 1 .. Height /\ split < L
  BY <1>0, <1>1
<1>. QED
  BY <1>1, <1>2, <1>3, <1>4 DEF split

\* From there on nothing is cached, and what the parents say is what is found.
LEMMA BelowSplit ==
  ASSUME CachesOK, WriteChain, NEW C, Reaches(C), NEW i \in 1 .. LastIndex,
         NEW l \in MatchLen(PathTo[i], 1, writecache) .. Depth(i) - 1,
         NEW d \in C[PathTo[i][l]]
  PROVE  Stored(PathTo[i][l + 1], d[WhichChild(PathTo[i][l + 1])])
           \in C[PathTo[i][l + 1]]
<1>1. MatchLen(PathTo[i], 1, writecache) \in 1 .. Depth(i)
      /\ ~InWrite(PathTo[i][l + 1])
  BY SplitFact
<1>2. l \in 1 .. Depth(i) - 1
  BY <1>1
<1>3. PathTo[i][l + 1] \in Node /\ ParentOf(PathTo[i][l + 1]) = PathTo[i][l]
  BY <1>2, PathLevels
<1>. QED
  BY <1>1, <1>3 DEF Reaches
-----------------------------------------------------------------------------
\* A walk down from where the path leaves the write cache.
LEMMA WalkIn ==
  ASSUME CachesOK, WriteChain, NEW C, Reaches(C), NEW i \in 1 .. LastIndex,
         NEW from \in MatchLen(PathTo[i], 1, writecache) .. Depth(i),
         NEW top \in C[PathTo[i][from]]
  PROVE  \A l \in from - 1 .. Depth(i) - 1 :
           Descend(PathTo[i], from, top)[l] \in C[PathTo[i][l + 1]]
<1>1. MatchLen(PathTo[i], 1, writecache) \in 1 .. Depth(i) /\ Depth(i) \in Nat
  BY SplitFact, PathLevels, HeightFact, NumNodesFact
<1>2. from \in 1 .. Depth(i) /\ C \in [AnyNode -> SUBSET Data]
  BY <1>1 DEF Reaches
<1>3. \A l \in from .. Depth(i) - 1 :
        l \in MatchLen(PathTo[i], 1, writecache) .. Depth(i) - 1
  BY <1>1
<1>4. \A l \in from .. Depth(i) - 1 :
        \A d \in C[PathTo[i][l]] :
          Stored(PathTo[i][l + 1], d[WhichChild(PathTo[i][l + 1])])
            \in C[PathTo[i][l + 1]]
  BY <1>3, BelowSplit
<1>. QED
  BY <1>2, <1>4, DescendIn

\* The data at the end of what the write cache holds of a path.
LEMMA SplitTop ==
  ASSUME CachesOK, WriteChain, NEW C, Reaches(C), NEW i \in 1 .. LastIndex
  PROVE  LET split == MatchLen(PathTo[i], 1, writecache)
         IN  writecache[split - 1].data \in C[PathTo[i][split]]
<1>. DEFINE split == MatchLen(PathTo[i], 1, writecache)
<1>1. /\ split \in 1 .. Depth(i) /\ Depth(i) \in 1 .. Height + 1 /\ Height \in Nat
      /\ \A l \in 0 .. split - 1 : writecache[l].index = PathTo[i][l + 1]
  BY SplitFact, PathLevels, HeightFact, NumNodesFact
<1>. HIDE DEF split
<1>2. split - 1 \in Level /\ split - 1 \in 0 .. split - 1 /\ split - 1 + 1 = split
      /\ split - 1 \in 0 .. Depth(i) - 1
  BY <1>1 DEF Level
<1>3. writecache[split - 1].index = PathTo[i][split]
  BY <1>1, <1>2
<1>4. split - 1 = 0 \/ writecache[split - 1].index # NullInd
  <2>1. CASE split - 1 = 0
    BY <2>1
  <2>2. CASE split - 1 # 0
    <3>1. split - 1 \in 1 .. Depth(i) - 1
      BY <1>2, <2>2
    <3>. QED
      BY <1>2, <1>3, <3>1, PathLevels DEF NullInd
  <2>. QED
    BY <2>1, <2>2
<1>. QED
  BY <1>2, <1>3, <1>4 DEF Reaches, split

(***************************************************************************)
(* What a walk from the write cache finds, and what is read.               *)
(***************************************************************************)
Answers(C, i) == {d[WhichChild(i)] : d \in C[ParentOf(i)]}

\* What a look-up finds that does not use the read cache.
LEMMA WalkDownIn ==
  ASSUME CachesOK, WriteChain, NEW C, Reaches(C), NEW i \in 1 .. LastIndex
  PROVE  WalkDown(i) \in Answers(C, i)
<1>. DEFINE L == Depth(i)
            split == MatchLen(PathTo[i], 1, writecache)
            data == Descend(PathTo[i], split, writecache[split - 1].data)
<1>1. /\ split \in 1 .. L /\ L = Len(PathTo[i]) /\ L \in Nat
      /\ PathTo[i][L] = ParentOf(i)
  BY SplitFact, PathLevels, HeightFact, NumNodesFact
<1>2. writecache[split - 1].data \in C[PathTo[i][split]] /\ split \in split .. L
  BY <1>1, SplitTop
<1>3. \A l \in split - 1 .. L - 1 : data[l] \in C[PathTo[i][l + 1]]
  BY <1>2, WalkIn
<1>4. WalkDown(i) = data[L - 1][WhichChild(i)]
  BY <1>1, Zenon DEF WalkDown
<1>. HIDE DEF data, split, L
<1>5. L - 1 \in split - 1 .. L - 1 /\ L - 1 + 1 = L
  BY <1>1
<1>6. data[L - 1] \in C[ParentOf(i)]
  BY <1>1, <1>3, <1>5
<1>. QED
  BY <1>4, <1>6 DEF Answers

\* From where fetch_read has to fetch.
LEMMA FetchedFact ==
  ASSUME CachesOK, WriteChain, NEW i \in 1 .. LastIndex
  PROVE  LET path == PathTo[i]
             split == ReadSplit(path)
             fetched == ReadFetched(path)
         IN  /\ fetched \in split .. Depth(i)
             /\ fetched # split =>
                  /\ rcsplit = split
                  /\ Aside
                  /\ \A l \in split .. fetched - 1 :
                       ReadConnected(l) /\ readcache[l].index = path[l + 1]
<1>. DEFINE path == PathTo[i]
            L == Depth(i)
            split == ReadSplit(path)
            fetched == ReadFetched(path)
<1>1. /\ L = Len(path) /\ L \in 1 .. Height + 1 /\ Height \in Nat /\ L \in Nat
      /\ split \in 1 .. L
      /\ split # L => writecache[split].index # path[split + 1]
  BY PathLevels, SplitFact, HeightFact, NumNodesFact DEF ReadSplit
<1>2. CASE fetched = split
  BY <1>1, <1>2
<1>3. CASE fetched # split
  <2>1. rcsplit = split /\ fetched = MatchLen(path, split, readcache)
    BY <1>3 DEF ReadFetched
  <2>2. /\ fetched \in split .. L
        /\ \A l \in split .. fetched - 1 : readcache[l].index = path[l + 1]
    <3>1. Len(path) \in Nat /\ split \in Nat /\ split <= Len(path)
      BY <1>1
    <3>. HIDE DEF path, split, fetched
    <3>. QED
      BY <1>1, <2>1, <3>1, MatchFact
  <2>. HIDE DEF split, fetched
  <2>3. \A l \in split .. fetched - 1 : readcache[l].index # NullInd
    <3>. TAKE l \in split .. fetched - 1
    <3>1. l \in 1 .. L - 1
      BY <1>1, <2>2
    <3>. QED
      BY <2>2, <3>1, PathLevels DEF NullInd
  <2>4. \A l \in split .. fetched - 1 : ReadConnected(l)
    <3>. TAKE l \in split .. fetched - 1
    <3>1. l >= split /\ \A k \in split .. l : k \in split .. fetched - 1
      BY <1>1, <2>2
    <3>. QED
      BY <2>1, <2>3, <3>1 DEF ReadConnected
  <2>5. Aside
    <3>1. split # L /\ split \in split .. fetched - 1
      BY <1>1, <1>3, <2>2
    <3>. QED
      BY <1>1, <2>1, <2>2, <3>1 DEF Aside
  <2>. QED
    BY <2>1, <2>2, <2>4, <2>5 DEF split, fetched
<1>. QED
  BY <1>2, <1>3

\* The data that fetch_read walks along.
LEMMA ReadDataIn ==
  ASSUME CachesOK, WriteChain, NEW C, Reaches(C), Aside => ReadIn(C),
         NEW i \in 1 .. LastIndex
  PROVE  \A l \in ReadFetched(PathTo[i]) - 1 .. Depth(i) - 1 :
           ReadData(PathTo[i])[l] \in C[PathTo[i][l + 1]]
<1>. DEFINE path == PathTo[i]
            L == Depth(i)
            split == ReadSplit(path)
            fetched == ReadFetched(path)
            cache == IF fetched > split THEN readcache ELSE writecache
            top == cache[fetched - 1].data
<1>1. /\ L = Len(path) /\ L \in 1 .. Height + 1 /\ Height \in Nat /\ L \in Nat
      /\ split \in 1 .. L /\ split = MatchLen(path, 1, writecache)
  BY PathLevels, SplitFact, HeightFact, NumNodesFact DEF ReadSplit
<1>2. fetched \in split .. L
  BY FetchedFact
<1>3. top \in C[path[fetched]]
  <2>1. CASE fetched = split
    <3>1. cache = writecache
      BY <1>1, <2>1
    <3>2. writecache[split - 1].data \in C[path[split]]
      BY <1>1, SplitTop
    <3>. HIDE DEF cache, split, fetched
    <3>. QED
      BY <2>1, <3>1, <3>2
  <2>2. CASE fetched # split
    <3>1. /\ Aside
          /\ \A l \in split .. fetched - 1 :
               ReadConnected(l) /\ readcache[l].index = path[l + 1]
      BY <2>2, FetchedFact
    <3>. HIDE DEF split, fetched
    <3>2. fetched > split /\ fetched - 1 \in split .. fetched - 1
          /\ fetched - 1 + 1 = fetched /\ fetched - 1 \in Level
      BY <1>1, <1>2, <2>2 DEF Level
    <3>3. readcache[fetched - 1].data \in C[readcache[fetched - 1].index]
      BY <3>1, <3>2 DEF ReadIn
    <3>. QED
      BY <3>1, <3>2, <3>3
  <2>. QED
    BY <2>1, <2>2
<1>4. ReadData(path) = Descend(path, fetched, top)
  BY Zenon DEF ReadData
<1>. HIDE DEF top, fetched, split
<1>. QED
  BY <1>1, <1>2, <1>3, <1>4, WalkIn DEF fetched

\* What a look-up finds with the read cache.
LEMMA ReadIsIn ==
  ASSUME CachesOK, WriteChain, NEW C, Reaches(C), Aside => ReadIn(C),
         NEW i \in 1 .. LastIndex
  PROVE  ReadPosition(i) \in Answers(C, i)
<1>. DEFINE L == Depth(i)
<1>1. L = Len(PathTo[i]) /\ L \in Nat /\ PathTo[i][L] = ParentOf(i)
  BY PathLevels, HeightFact, NumNodesFact
<1>2. ReadFetched(PathTo[i]) \in 1 .. L
  <2>1. ReadSplit(PathTo[i]) \in 1 .. L
    BY SplitFact DEF ReadSplit
  <2>. QED
    BY <1>1, <2>1, FetchedFact
<1>3. L - 1 \in ReadFetched(PathTo[i]) - 1 .. L - 1 /\ L - 1 + 1 = L
  BY <1>1, <1>2
<1>4. ReadData(PathTo[i])[L - 1] \in C[PathTo[i][L - 1 + 1]]
  BY <1>3, ReadDataIn
<1>5. ReadPosition(i) = ReadData(PathTo[i])[L - 1][WhichChild(i)]
  BY <1>1, Zenon DEF ReadPosition
<1>. HIDE DEF L
<1>6. ReadData(PathTo[i])[L - 1] \in C[ParentOf(i)]
  BY <1>1, <1>3, <1>4
<1>. QED
  BY <1>5, <1>6 DEF Answers
-----------------------------------------------------------------------------
\* FetchRead where something has to be fetched.
ReadReached(i) ==
  Min({l \in ReadFetched(PathTo[i]) .. Len(PathTo[i]) :
         \/ l = Len(PathTo[i])
         \/ ~(ReadData(PathTo[i])[l - 1][WhichChild(PathTo[i][l + 1])] # Nptr)})

ReadFilled(i) ==
  [l \in Level |->
     IF l < ReadFetched(PathTo[i]) THEN readcache[l]
     ELSE IF l < ReadReached(i)
     THEN [index |-> PathTo[i][l + 1], data |-> ReadData(PathTo[i])[l]]
     ELSE IF l = ReadReached(i) THEN Empty
     ELSE readcache[l]]

\* The result of FetchRead, in parts.
LEMMA FetchReadParts ==
  ASSUME NEW i \in 1 .. LastIndex
  PROVE  /\ FetchRead(i).pos = ReadPosition(i)
         /\ FetchRead(i).readcache =
              IF ReadFetched(PathTo[i]) = Depth(i) THEN readcache ELSE ReadFilled(i)
         /\ FetchRead(i).rcsplit =
              IF ReadSplit(PathTo[i]) = Depth(i) THEN rcsplit
              ELSE ReadSplit(PathTo[i])
  BY DEF FetchRead, ReadReached, ReadFilled, Depth

\* Where fetch_read stops filling the read cache.
LEMMA ReachedFact ==
  ASSUME NEW i \in 1 .. LastIndex, ReadFetched(PathTo[i]) \in 1 .. Depth(i)
  PROVE  ReadReached(i) \in ReadFetched(PathTo[i]) .. Depth(i)
<1>. DEFINE L == Depth(i)
            fetched == ReadFetched(PathTo[i])
            T == {l \in fetched .. Len(PathTo[i]) :
                    \/ l = Len(PathTo[i])
                    \/ ~(ReadData(PathTo[i])[l - 1][WhichChild(PathTo[i][l + 1])] # Nptr)}
<1>1. L \in Nat /\ L = Len(PathTo[i])
  BY PathLevels, HeightFact, NumNodesFact
<1>2. L \in fetched .. L /\ \A l \in fetched .. L : l \in Nat
  BY <1>1
<1>3. L \in T /\ T \in SUBSET Nat /\ T \in SUBSET (fetched .. L)
  <2>. HIDE DEF fetched
  <2>. QED
    BY <1>1, <1>2
<1>. HIDE DEF T
<1>4. Min(T) \in T
  BY <1>3, MinFact
<1>. QED
  BY <1>3, <1>4 DEF ReadReached, T

\* The read cache once it has been filled.
LEMMA FilledFact ==
  ASSUME CachesOK, WriteChain, NEW C, Reaches(C), Aside => ReadIn(C),
         NEW i \in 1 .. LastIndex, ReadFetched(PathTo[i]) # Depth(i),
         readcache' = ReadFilled(i), rcsplit' = ReadSplit(PathTo[i]),
         writecache' = writecache
  PROVE  /\ CachesOK' /\ Aside' /\ ReadChain' /\ ReadIn(C)'
<1>. DEFINE path == PathTo[i]
            L == Depth(i)
            split == ReadSplit(path)
            fetched == ReadFetched(path)
            reached == ReadReached(i)
            data == ReadData(path)
<1>1. /\ L \in 1 .. Height + 1 /\ Height \in Nat /\ L \in Nat
      /\ split \in 1 .. L
      /\ split # L => split \in 1 .. Height /\ writecache[split].index # path[split + 1]
  BY PathLevels, SplitFact, HeightFact, NumNodesFact DEF ReadSplit
<1>2. /\ fetched \in split .. L
      /\ fetched # split =>
           /\ rcsplit = split
           /\ Aside
           /\ \A l \in split .. fetched - 1 :
                ReadConnected(l) /\ readcache[l].index = path[l + 1]
  BY FetchedFact
<1>3. reached \in fetched .. L
  BY <1>1, <1>2, ReachedFact
<1>4. \A l \in fetched - 1 .. L - 1 : data[l] \in C[path[l + 1]]
  BY ReadDataIn
<1>5. \A l \in 1 .. L - 1 :
        /\ path[l + 1] \in Node /\ path[l + 1] # 0 /\ Depth(path[l + 1]) = l
        /\ C[path[l + 1]] \in SUBSET Data
        /\ \A k \in 1 .. l : PathTo[path[l + 1]][k] = path[k]
  BY PathLevels, IndexFacts DEF Reaches
<1>6. \A l \in Level :
        readcache'[l] = IF l < fetched THEN readcache[l]
                        ELSE IF l < reached
                        THEN [index |-> path[l + 1], data |-> data[l]]
                        ELSE IF l = reached THEN Empty
                        ELSE readcache[l]
  BY DEF ReadFilled
<1>7. rcsplit' = split /\ fetched # L
  OBVIOUS
<1>. HIDE DEF path, L, split, fetched, reached, data
<1>8. split \in 1 .. Height /\ split < L /\ writecache[split].index # path[split + 1]
  BY <1>1, <1>2, <1>7
<1>9. ASSUME NEW l \in split .. reached - 1
      PROVE  /\ l \in Level /\ l \in 1 .. L - 1
             /\ readcache'[l].index = path[l + 1]
             /\ readcache'[l].data \in C[path[l + 1]]
  <2>1. l \in Level /\ l \in 1 .. L - 1 /\ l \in Nat
    BY <1>1, <1>2, <1>3 DEF Level
  <2>2. CASE l < fetched
    <3>1. l \in split .. fetched - 1 /\ fetched # split
      BY <1>1, <1>2, <2>2
    <3>2. readcache'[l] = readcache[l]
      BY <1>6, <2>1, <2>2
    <3>3. ReadConnected(l) /\ readcache[l].index = path[l + 1] /\ ReadIn(C)
      BY <1>2, <3>1
    <3>. QED
      BY <2>1, <3>2, <3>3 DEF ReadIn
  <2>3. CASE ~(l < fetched)
    <3>1. l < reached /\ l \in fetched - 1 .. L - 1
      BY <1>1, <1>2, <1>3, <2>1, <2>3
    <3>2. readcache'[l] = [index |-> path[l + 1], data |-> data[l]]
      BY <1>6, <2>1, <2>3, <3>1
    <3>. QED
      BY <1>4, <2>1, <3>1, <3>2
  <2>. QED
    BY <2>2, <2>3
<1>10. ASSUME reached \in Level PROVE readcache'[reached].index = NullInd
  <2>1. ~(reached < fetched) /\ ~(reached < reached)
    BY <1>1, <1>2, <1>3
  <2>2. readcache'[reached] = Empty
    BY <1>6, <1>10, <2>1
  <2>. QED
    BY <2>2 DEF Empty
<1>11. CachesOK'
  <2>1. ASSUME NEW l \in Level PROVE readcache'[l] \in Entry
    <3>1. CASE fetched <= l /\ l < reached
      <4>1. l \in 1 .. L - 1 /\ l \in fetched - 1 .. L - 1 /\ ~(l < fetched)
        BY <1>1, <1>2, <1>3, <3>1 DEF Level
      <4>2. data[l] \in Data /\ path[l + 1] \in Node
        BY <1>4, <1>5, <4>1
      <4>3. readcache'[l] = [index |-> path[l + 1], data |-> data[l]]
        BY <1>6, <3>1, <4>1
      <4>. QED
        BY <4>2, <4>3 DEF Entry
    <3>2. CASE ~(fetched <= l /\ l < reached)
      <4>1. readcache'[l] = readcache[l] \/ readcache'[l] = Empty
        <5>1. l < fetched \/ ~(l < reached)
          BY <1>1, <1>2, <1>3, <3>2 DEF Level
        <5>2. CASE l < fetched
          BY <1>6, <5>2
        <5>3. CASE ~(l < fetched) /\ ~(l < reached)
          BY <1>6, <5>3
        <5>. QED
          BY <5>1, <5>2, <5>3
      <4>. QED
        BY <4>1, DataFacts DEF CachesOK, Entry, Empty
    <3>. QED
      BY <3>1, <3>2
  <2>2. readcache' = [l \in Level |-> readcache'[l]]
    BY DEF ReadFilled
  <2>3. readcache' \in [Level -> Entry]
    BY <2>1, <2>2
  <2>. QED
    BY <1>7, <1>8, <2>3 DEF CachesOK
<1>12. ASSUME NEW l \in Level, ReadConnected(l)' PROVE l \in split .. reached - 1
  <2>1. l >= split /\ \A k \in split .. l : readcache'[k].index # NullInd
    BY <1>7, <1>12 DEF ReadConnected
  <2>2. ASSUME l >= reached PROVE FALSE
    <3>1. reached \in Level /\ reached \in split .. l
      BY <1>1, <1>2, <1>3, <2>2 DEF Level
    <3>. QED
      BY <1>10, <2>1, <3>1
  <2>. QED
    BY <1>1, <1>2, <1>3, <2>1, <2>2 DEF Level
<1>13. ReadIn(C)'
  BY <1>9, <1>12 DEF ReadIn
<1>14. ReadChain'
  <2>. SUFFICES ASSUME NEW l \in Level, ReadConnected(l)'
                PROVE  /\ Depth(readcache'[l].index) = l
                       /\ \A k \in split .. l - 1 :
                            readcache'[k].index = PathTo[readcache'[l].index][k + 1]
    BY <1>7 DEF ReadChain
  <2>1. l \in split .. reached - 1
    BY <1>12
  <2>2. l \in 1 .. L - 1 /\ readcache'[l].index = path[l + 1]
    BY <1>9, <2>1
  <2>3. ASSUME NEW k \in split .. l - 1
        PROVE  readcache'[k].index = PathTo[readcache'[l].index][k + 1]
    <3>1. k \in split .. reached - 1 /\ k + 1 \in 1 .. l
      BY <1>1, <1>2, <1>3, <2>1, <2>2
    <3>. QED
      BY <1>5, <1>9, <2>2, <3>1
  <2>. QED
    BY <1>5, <2>2, <2>3
<1>15. Aside'
  <2>1. CASE split = reached
    BY <1>7, <1>8, <1>10, <2>1 DEF Aside, Level
  <2>2. CASE split # reached
    <3>1. split \in split .. reached - 1
      BY <1>1, <1>2, <1>3, <2>2
    <3>. QED
      BY <1>7, <1>8, <1>9, <3>1 DEF Aside
  <2>. QED
    BY <2>1, <2>2
<1>. QED
  BY <1>11, <1>13, <1>14, <1>15

(***************************************************************************)
(* A look-up leaves the read cache as it is, or puts it aside from the     *)
(* path of the write cache, with right data.                               *)
(***************************************************************************)
LEMMA FetchReadKeeps ==
  ASSUME CachesOK, WriteChain, ReadChain, NEW C, Reaches(C), Aside => ReadIn(C),
         NEW i \in 1 .. LastIndex,
         readcache' = FetchRead(i).readcache, rcsplit' = FetchRead(i).rcsplit,
         writecache' = writecache
  PROVE  /\ CachesOK' /\ ReadChain'
         /\ Aside' => ReadIn(C)'
         /\ Aside => Aside'
         /\ ReadIn(C) => ReadIn(C)'
<1>. DEFINE L == Depth(i)
            split == ReadSplit(PathTo[i])
            fetched == ReadFetched(PathTo[i])
<1>1. /\ L \in Nat /\ split \in 1 .. L
      /\ fetched \in split .. L
      /\ fetched # split => rcsplit = split
  BY PathLevels, SplitFact, FetchedFact, HeightFact, NumNodesFact DEF ReadSplit
<1>2. CASE fetched = L
  <2>1. readcache' = readcache /\ rcsplit' = rcsplit
    <3>1. readcache' = readcache /\ rcsplit' = IF split = L THEN rcsplit ELSE split
      BY <1>2, FetchReadParts
    <3>. HIDE DEF L, split, fetched
    <3>. QED
      BY <1>1, <1>2, <3>1
  <2>. QED
    BY <2>1 DEF CachesOK, ReadChain, ReadConnected, Aside, ReadIn
<1>3. CASE fetched # L
  <2>1. readcache' = ReadFilled(i) /\ rcsplit' = split
    <3>1. /\ readcache' = ReadFilled(i)
          /\ rcsplit' = IF split = L THEN rcsplit ELSE split
      BY <1>3, FetchReadParts
    <3>. HIDE DEF L, split, fetched
    <3>. QED
      BY <1>1, <1>3, <3>1
  <2>. QED
    BY <1>3, <2>1, FilledFact
<1>. QED
  BY <1>2, <1>3
-----------------------------------------------------------------------------
\* The write cache after fetch_write: the whole path to a leaf, and below it
\* nothing, or at most what was there before when nothing had to be fetched.
LEMMA FetchWriteFact ==
  ASSUME CachesOK, WriteChain, NEW C, Reaches(C), NEW i \in Leaf
  PROVE  LET W == FetchWrite(i)
             L == Depth(i)
         IN  /\ W \in [Level -> Entry]
             /\ \A l \in 0 .. L - 1 : /\ W[l].index = PathTo[i][l + 1]
                                      /\ W[l].data \in C[PathTo[i][l + 1]]
             /\ \A l \in Level : l >= L =>
                  /\ l = Height /\ l = L
                  /\ \/ W[l].index = NullInd
                     \/ /\ W[l] = writecache[l]
                        /\ \A k \in 0 .. L - 1 :
                             writecache[k].index = PathTo[i][k + 1]
<1>. DEFINE W == FetchWrite(i)
            path == PathTo[i]
            L == Depth(i)
            split == MatchLen(path, 1, writecache)
            data == Descend(path, split, writecache[split - 1].data)
<1>0. i \in 1 .. LastIndex
  BY IndexFacts
<1>1. /\ L \in Height .. Height + 1 /\ Height \in Nat \ {0} /\ L \in Nat
      /\ L = Len(path)
      /\ split \in 1 .. L
      /\ \A l \in 0 .. split - 1 : writecache[l].index = path[l + 1]
  BY <1>0, PathLevels, SplitFact, HeightFact, NumNodesFact, DepthFacts
<1>2. writecache[split - 1].data \in C[path[split]] /\ split \in split .. L
  BY <1>0, <1>1, SplitTop
<1>3. \A l \in split - 1 .. L - 1 : data[l] \in C[path[l + 1]]
  BY <1>0, <1>2, WalkIn
<1>4. /\ \A l \in 0 .. L - 1 : l \in Level /\ C[path[l + 1]] \in SUBSET Data
      /\ \A l \in 1 .. L - 1 : path[l + 1] \in Node /\ path[l + 1] # 0
  BY <1>0, PathLevels DEF Reaches
<1>5. ASSUME NEW l \in 0 .. split - 1
      PROVE  writecache[l].index = path[l + 1] /\ writecache[l].data \in C[path[l + 1]]
  <2>1. writecache[l].index = path[l + 1] /\ l \in 0 .. L - 1 /\ l \in Level
    BY <1>1, <1>4
  <2>2. l = 0 \/ writecache[l].index # NullInd
    <3>1. l = 0 \/ l \in 1 .. L - 1
      BY <1>1, <2>1
    <3>. QED
      BY <1>4, <2>1, <3>1 DEF NullInd
  <2>. QED
    BY <2>1, <2>2 DEF Reaches
<1>6. W = IF split = L THEN writecache
          ELSE [l \in Level |->
                  IF l < split THEN writecache[l]
                  ELSE IF l < L
                  THEN [index |-> path[l + 1], data |-> data[l]]
                  ELSE IF l = L THEN Empty
                  ELSE writecache[l]]
  BY <1>1, Zenon DEF FetchWrite
<1>. HIDE DEF W, path, L, split, data
<1>7. \A l \in Level : l >= L => l = Height /\ l = L
  BY <1>1 DEF Level
<1>8. CASE split = L
  <2>1. W = writecache
    BY <1>6, <1>8
  <2>2. \A l \in 0 .. L - 1 : W[l].index = path[l + 1] /\ W[l].data \in C[path[l + 1]]
    BY <1>5, <1>8, <2>1
  <2>3. \A k \in 0 .. L - 1 : writecache[k].index = path[k + 1]
    BY <1>1, <1>8
  <2>. QED
    BY <1>7, <2>1, <2>2, <2>3 DEF CachesOK, W, L, path
<1>9. CASE split # L
  <2>1. \A l \in Level :
          W[l] = IF l < split THEN writecache[l]
                 ELSE IF l < L
                 THEN [index |-> path[l + 1], data |-> data[l]]
                 ELSE IF l = L THEN Empty
                 ELSE writecache[l]
    BY <1>6, <1>9
  <2>2. ASSUME NEW l \in 0 .. L - 1
        PROVE  W[l].index = path[l + 1] /\ W[l].data \in C[path[l + 1]]
               /\ W[l] \in Entry
    <3>1. CASE l < split
      <4>1. l \in 0 .. split - 1 /\ l \in Level
        BY <1>1, <1>4, <3>1
      <4>2. W[l] = writecache[l]
        BY <2>1, <3>1, <4>1
      <4>. QED
        BY <1>5, <4>1, <4>2 DEF CachesOK
    <3>2. CASE ~(l < split)
      <4>1. l \in 1 .. L - 1 /\ l \in split - 1 .. L - 1 /\ l \in Level /\ l < L
        BY <1>1, <1>4, <3>2
      <4>2. W[l] = [index |-> path[l + 1], data |-> data[l]]
        BY <2>1, <3>2, <4>1
      <4>3. data[l] \in C[path[l + 1]] /\ data[l] \in Data /\ path[l + 1] \in Node
        BY <1>3, <1>4, <4>1
      <4>. QED
        BY <4>2, <4>3 DEF Entry
    <3>. QED
      BY <3>1, <3>2
  <2>3. ASSUME NEW l \in Level, l >= L
        PROVE  W[l].index = NullInd /\ W[l] \in Entry
    <3>1. l = L /\ ~(l < split) /\ ~(l < L)
      BY <1>1, <1>7, <2>3
    <3>2. W[l] = Empty
      BY <2>1, <3>1
    <3>. QED
      BY <3>2, DataFacts DEF Empty, Entry
  <2>4. W = [l \in Level |-> W[l]]
    BY <1>6, <1>9
  <2>5. \A l \in Level : l \in 0 .. L - 1 \/ l >= L
    BY <1>1 DEF Level
  <2>6. W \in [Level -> Entry]
    BY <2>2, <2>3, <2>4, <2>5
  <2>. QED
    BY <1>7, <2>2, <2>3, <2>6 DEF W, L, path
<1>. QED
  BY <1>8, <1>9

-----------------------------------------------------------------------------
\* The data of every node, as the caches and nodestore have it together.
Only(D) == [n \in AnyNode |-> {D[n]}]

\* The position of index i.
Pos(D, i) == D[ParentOf(i)][WhichChild(i)]

CacheInv(D) ==
  /\ D \in [AnyNode -> Data]
  /\ WriteChain
  /\ ReadChain
  /\ Reaches(Only(D))
  /\ Aside => ReadIn(Only(D))

\* What nodestore holds changes with nodestore only.
LEMMA StoredSame ==
  ASSUME UNCHANGED nodestoreVars, NEW n, NEW p
  PROVE  Stored(n, p)' = Stored(n, p)
  BY DEF nodestoreVars, Stored, NodeLoad, onewrite!LoadBlock, nodestore!Load

\* Pos is what the parent of an index answers.
LEMMA PosFacts ==
  ASSUME NEW D \in [AnyNode -> Data], NEW i \in 1 .. LastIndex
  PROVE  Pos(D, i) \in 0 .. Nptr /\ Answers(Only(D), i) = {Pos(D, i)}
<1>1. ParentOf(i) \in AnyNode /\ WhichChild(i) \in Which
  BY ParentFacts
<1>. QED
  BY <1>1, DataFacts DEF Pos, Answers, Only

\* With and without the read cache a look-up returns Pos.
LEMMA ReadIs ==
  ASSUME CachesOK, NEW D, CacheInv(D), NEW i \in 1 .. LastIndex
  PROVE  ReadPosition(i) = Pos(D, i) /\ WalkDown(i) = Pos(D, i)
<1>1. Answers(Only(D), i) = {Pos(D, i)}
  BY PosFacts DEF CacheInv
<1>2. ReadPosition(i) \in Answers(Only(D), i)
  BY ReadIsIn DEF CacheInv
<1>3. WalkDown(i) \in Answers(Only(D), i)
  BY WalkDownIn DEF CacheInv
<1>. QED
  BY <1>1, <1>2, <1>3

\* The position of one index is set.
Placed(D, i, q) == [D EXCEPT ![ParentOf(i)][WhichChild(i)] = q]

\* Setting the position of one index changes no other.
LEMMA PlacedFacts ==
  ASSUME NEW D \in [AnyNode -> Data], NEW i \in 1 .. LastIndex,
         NEW q \in 0 .. Nptr
  PROVE  /\ Placed(D, i, q) \in [AnyNode -> Data]
         /\ \A n \in AnyNode : n # ParentOf(i) => Placed(D, i, q)[n] = D[n]
         /\ Pos(Placed(D, i, q), i) = q
         /\ \A j \in 1 .. LastIndex : j # i => Pos(Placed(D, i, q), j) = Pos(D, j)
<1>. DEFINE E == Placed(D, i, q)
            p == ParentOf(i)
            c == WhichChild(i)
<1>1. p \in AnyNode /\ c \in Which
  BY ParentFacts
<1>2. D[p] \in Data /\ [D[p] EXCEPT ![c] = q] \in Data
  BY <1>1, DataFacts
<1>3. /\ E \in [AnyNode -> Data]
      /\ E[p] = [D[p] EXCEPT ![c] = q]
      /\ \A n \in AnyNode : n # p => E[n] = D[n]
  BY <1>1, <1>2 DEF Placed
<1>. HIDE DEF E
<1>4. E[p][c] = q /\ \A x \in Which : x # c => E[p][x] = D[p][x]
  BY <1>1, <1>2, <1>3 DEF Data
<1>5. ASSUME NEW j \in 1 .. LastIndex, j # i PROVE Pos(E, j) = Pos(D, j)
  <2>1. ParentOf(j) \in AnyNode /\ WhichChild(j) \in Which
    BY ParentFacts
  <2>2. ParentOf(j) # p \/ WhichChild(j) # c
    BY <1>5, ChildUnique
  <2>. QED
    BY <1>3, <1>4, <2>1, <2>2 DEF Pos
<1>. QED
  BY <1>3, <1>4, <1>5 DEF Pos, E

\* The same with the whole data of the node.
LEMMA SetPosition ==
  ASSUME NEW D \in [AnyNode -> Data], NEW i \in 1 .. LastIndex,
         NEW q \in 0 .. Nptr
  PROVE  /\ Placed(D, i, q) \in [AnyNode -> Data]
         /\ Placed(D, i, q)[ParentOf(i)] = [D[ParentOf(i)] EXCEPT ![WhichChild(i)] = q]
         /\ \A n \in AnyNode : n # ParentOf(i) => Placed(D, i, q)[n] = D[n]
         /\ \A j \in 1 .. LastIndex : j # i => Pos(Placed(D, i, q), j) = Pos(D, j)
<1>1. ParentOf(i) \in AnyNode
  BY ParentFacts
<1>2. Placed(D, i, q)[ParentOf(i)] = [D[ParentOf(i)] EXCEPT ![WhichChild(i)] = q]
  BY <1>1 DEF Placed
<1>. QED
  BY <1>2, PlacedFacts
-----------------------------------------------------------------------------
\* With Only(D) the caches and nodestore agree with D.
LEMMA OnlyFacts ==
  ASSUME NEW D \in [AnyNode -> Data]
  PROVE  /\ Only(D) \in [AnyNode -> SUBSET Data]
         /\ \A n \in AnyNode : \A d : d \in Only(D)[n] <=> d = D[n]
         /\ \A n \in Node : n \in AnyNode /\ n \in 1 .. LastIndex /\ n # 0
                            /\ ParentOf(n) \in AnyNode
<1>1. ASSUME NEW n \in Node
      PROVE  n \in AnyNode /\ n \in 1 .. LastIndex /\ n # 0 /\ ParentOf(n) \in AnyNode
  BY IndexFacts, ParentFacts
<1>. QED
  BY <1>1 DEF Only

\* What Reaches(Only(D)) says.
LEMMA ReachesOnly ==
  ASSUME CachesOK, NEW D \in [AnyNode -> Data]
  PROVE  Reaches(Only(D)) <=>
           /\ \A l \in Level : (l = 0 \/ writecache[l].index # NullInd) =>
                writecache[l].data = D[writecache[l].index]
           /\ \A n \in Node : ~InWrite(n) => Stored(n, Pos(D, n)) = D[n]
<1>1. \A l \in Level : writecache[l].index \in AnyNode
  BY IndexFacts DEF CachesOK, Entry, NullInd
<1>. QED
  BY <1>1, OnlyFacts DEF Reaches, Pos

\* The path to a node in the write cache is there with it.
LEMMA WriteLevel ==
  ASSUME CachesOK, WriteChain, NEW l \in Level, NEW n \in Node,
         writecache[l].index = n
  PROVE  /\ l \in 1 .. Height /\ Depth(n) = l
         /\ \A k \in 0 .. l - 1 : writecache[k].index = PathTo[n][k + 1]
<1>1. n # 0 /\ Height \in Nat
  BY OnlyFacts, IndexFacts, HeightFact, NumNodesFact
<1>2. l # 0
  BY <1>1 DEF WriteChain, NullInd
<1>3. l \in 1 .. Height
  BY <1>1, <1>2 DEF Level
<1>. QED
  BY <1>1, <1>3 DEF WriteChain, NullInd

\* A node that the read cache holds is not on a path that the write cache
\* holds, as long as the read cache is aside.
LEMMA AsideOff ==
  ASSUME CachesOK, ReadChain, Aside, NEW l \in Level, ReadConnected(l),
         \A k \in rcsplit .. l - 1 :
           writecache[k].index = PathTo[readcache[l].index][k + 1],
         writecache[l].index = readcache[l].index
  PROVE  FALSE
<1>0. rcsplit \in 1 .. Height /\ Height \in Nat /\ l >= rcsplit /\ l \in Int
  BY HeightFact, NumNodesFact DEF CachesOK, ReadConnected, Level
<1>1. readcache[rcsplit].index # NullInd
  BY <1>0 DEF ReadConnected
<1>2. CASE l = rcsplit
  BY <1>1, <1>2 DEF Aside
<1>3. CASE l # rcsplit
  <2>1. rcsplit \in rcsplit .. l - 1
    BY <1>0, <1>3
  <2>2. readcache[rcsplit].index = PathTo[readcache[l].index][rcsplit + 1]
    BY <2>1 DEF ReadChain
  <2>. QED
    BY <1>1, <2>1, <2>2 DEF Aside
<1>. QED
  BY <1>2, <1>3

With(d, c, p) == [d EXCEPT ![c] = p]

(***************************************************************************)
(* The path of a store is fetched, and the position set in its last node:  *)
(* what the write cache is then, where C says what nodes may be.           *)
(***************************************************************************)
LEMMA FetchShape ==
  ASSUME CachesOK, WriteChain, NEW C, Reaches(C),
         NEW i \in Leaf, NEW buf \in 0 .. Nptr,
         writecache' = [FetchWrite(i) EXCEPT
                          ![Len(PathTo[i]) - 1].data[WhichChild(i)] = buf],
         UNCHANGED <<readcache, rcsplit>>
  PROVE  /\ CachesOK' /\ WriteChain'
         /\ \A l \in 0 .. Depth(i) - 1 :
              /\ writecache'[l].index = PathTo[i][l + 1]
              /\ l # Depth(i) - 1 => writecache'[l].data \in C[PathTo[i][l + 1]]
         /\ \E w \in C[ParentOf(i)] :
              writecache'[Depth(i) - 1].data = With(w, WhichChild(i), buf)
         /\ \A l \in Level : l >= Depth(i) /\ writecache'[l].index # NullInd =>
              /\ l = Height /\ l = Depth(i) /\ writecache'[l] = writecache[l]
              /\ l \in 1 .. Height
<1>. DEFINE W == FetchWrite(i)
            path == PathTo[i]
            L == Depth(i)
            p == ParentOf(i)
<1>0. C \in [AnyNode -> SUBSET Data] /\ i \in 1 .. LastIndex /\ i \notin Node
  BY IndexFacts DEF Reaches
<1>1. /\ L = Len(path) /\ L \in 1 .. Height + 1 /\ Height \in Nat /\ L \in Nat
      /\ path[L] = p /\ path[1] = 0
      /\ \A l \in 0 .. L - 1 : l \in Level /\ path[l + 1] \in AnyNode
      /\ \A l \in 1 .. L - 1 :
           /\ path[l + 1] \in Node /\ path[l + 1] # 0 /\ Depth(path[l + 1]) = l
           /\ \A k \in 1 .. l : PathTo[path[l + 1]][k] = path[k]
  BY <1>0, PathLevels, HeightFact, NumNodesFact
<1>2. /\ W \in [Level -> Entry]
      /\ \A l \in 0 .. L - 1 : W[l].index = path[l + 1] /\ W[l].data \in C[path[l + 1]]
      /\ \A l \in Level : l >= L =>
                  /\ l = Height /\ l = L
                  /\ \/ W[l].index = NullInd
                     \/ /\ W[l] = writecache[l]
                        /\ \A k \in 0 .. L - 1 :
                             writecache[k].index = path[k + 1]
  BY FetchWriteFact
<1>4. L - 1 \in Level /\ L - 1 \in 0 .. L - 1 /\ L - 1 + 1 = L
  BY <1>1
<1>5. writecache' = [W EXCEPT ![L - 1].data[WhichChild(i)] = buf]
  BY <1>1
<1>. HIDE DEF W, path, L
<1>6. /\ \A l \in Level : writecache'[l].index = W[l].index
      /\ \A l \in Level : l # L - 1 => writecache'[l] = W[l]
      /\ writecache'[L - 1].data = [W[L - 1].data EXCEPT ![WhichChild(i)] = buf]
      /\ writecache'[L - 1].index = W[L - 1].index
      /\ writecache' = [l \in Level |-> writecache'[l]]
      /\ writecache'[L - 1] = [index |-> W[L - 1].index, data |-> writecache'[L - 1].data]
  <2>. DEFINE e == [W[L - 1] EXCEPT !.data[WhichChild(i)] = buf]
  <2>1. e.index = W[L - 1].index
        /\ e.data = [W[L - 1].data EXCEPT ![WhichChild(i)] = buf]
        /\ e = [index |-> W[L - 1].index, data |-> e.data]
    BY <1>2, <1>4 DEF Entry
  <2>2. writecache' = [l \in Level |-> IF l = L - 1 THEN e ELSE W[l]]
    BY <1>2, <1>4, <1>5
  <2>. HIDE DEF e
  <2>. QED
    BY <1>4, <2>1, <2>2
<1>7. W[L - 1].index = p /\ W[L - 1].data \in C[p] /\ p \in AnyNode
  BY <1>1, <1>2, <1>4
<1>8. CachesOK'
  <2>1. W[L - 1].data \in Data /\ WhichChild(i) \in Which
    BY <1>0, <1>7, ParentFacts
  <2>2. writecache'[L - 1].data \in Data
    BY <1>6, <2>1, DataFacts
  <2>3. W[L - 1].index \in Node \cup {NullInd}
    BY <1>2, <1>4 DEF Entry
  <2>5. writecache'[L - 1] \in Entry
    BY <1>6, <2>2, <2>3 DEF Entry
  <2>6. \A l \in Level : writecache'[l] \in Entry
    BY <1>2, <1>6, <2>5
  <2>7. writecache' \in [Level -> Entry]
    BY <1>6, <2>6
  <2>. QED
    BY <2>7 DEF CachesOK
<1>9. \A l \in 0 .. L - 1 :
        /\ writecache'[l].index = path[l + 1]
        /\ l # L - 1 => writecache'[l].data \in C[path[l + 1]]
  BY <1>1, <1>2, <1>6
<1>10. ASSUME NEW l \in Level, l >= L, writecache'[l].index # NullInd
       PROVE  /\ l = Height /\ l = L /\ writecache'[l] = writecache[l]
              /\ \A k \in 0 .. L - 1 : writecache[k].index = path[k + 1]
              /\ l \in 1 .. Height /\ l # L - 1
  <2>1. l = Height /\ l = L /\ l # L - 1 /\ l \in 1 .. Height
    BY <1>1, <1>2, <1>10
  <2>2. W[l].index # NullInd
    BY <1>6, <1>10
  <2>. QED
    BY <1>2, <1>6, <1>10, <2>1, <2>2
<1>11. \A l \in Level : l \in 0 .. L - 1 \/ l >= L
  BY <1>1 DEF Level
<1>12. WriteChain'
  <2>1. writecache'[0].index = NullInd
    <3>1. 0 \in 0 .. L - 1 /\ path[0 + 1] = 0
      BY <1>1
    <3>. QED
      BY <1>9, <3>1 DEF NullInd
  <2>2. ASSUME NEW l \in 1 .. Height, writecache'[l].index # NullInd
        PROVE  /\ Depth(writecache'[l].index) = l
               /\ \A k \in 0 .. l - 1 :
                    writecache'[k].index = PathTo[writecache'[l].index][k + 1]
    <3>1. l \in Level
      BY <1>1, <2>2 DEF Level
    <3>2. CASE l \in 0 .. L - 1
      <4>1. l \in 1 .. L - 1 /\ writecache'[l].index = path[l + 1]
        BY <1>1, <1>9, <3>2
      <4>2. \A k \in 0 .. l - 1 : k \in 0 .. L - 1 /\ k + 1 \in 1 .. l
        BY <1>1, <4>1
      <4>3. \A k \in 0 .. l - 1 : writecache'[k].index = path[k + 1]
        BY <1>9, <4>2
      <4>. QED
        BY <1>1, <4>1, <4>2, <4>3
    <3>3. CASE l >= L
      <4>1. /\ l = L /\ writecache'[l] = writecache[l]
            /\ \A k \in 0 .. L - 1 : writecache[k].index = path[k + 1]
        BY <1>10, <2>2, <3>1, <3>3
      <4>2. /\ Depth(writecache[l].index) = l
            /\ \A k \in 0 .. l - 1 :
                 writecache[k].index = PathTo[writecache[l].index][k + 1]
        BY <2>2, <4>1 DEF WriteChain
      <4>. QED
        BY <1>9, <4>1, <4>2
    <3>. QED
      BY <1>11, <3>1, <3>2, <3>3
  <2>. QED
    BY <2>1, <2>2 DEF WriteChain
<1>13. \E w \in C[p] : writecache'[L - 1].data = With(w, WhichChild(i), buf)
  BY <1>6, <1>7 DEF With
<1>14. \A l \in Level : l >= L /\ writecache'[l].index # NullInd =>
         /\ l = Height /\ l = L /\ writecache'[l] = writecache[l]
         /\ l \in 1 .. Height
  BY <1>10
<1>. QED
  BY <1>8, <1>9, <1>12, <1>13, <1>14 DEF L, path

(***************************************************************************)
(* With the data D of all nodes before, it is Placed(D, i, buf) afterwards. *)
(***************************************************************************)
LEMMA FetchCaches ==
  ASSUME CachesOK, NEW D, CacheInv(D), Aside,
         \A n \in Node : D[n] = Stored(n, Pos(D, n)),
         NEW i \in Leaf, NEW buf \in 0 .. Nptr,
         writecache' = [FetchWrite(i) EXCEPT
                          ![Len(PathTo[i]) - 1].data[WhichChild(i)] = buf],
         UNCHANGED nodestoreVars, UNCHANGED <<readcache, rcsplit>>
  PROVE  /\ CachesOK'
         /\ CacheInv(Placed(D, i, buf))'
<1>. DEFINE E == Placed(D, i, buf)
            path == PathTo[i]
            L == Depth(i)
            p == ParentOf(i)
<1>0. D \in [AnyNode -> Data] /\ i \in 1 .. LastIndex /\ i \notin Node
  BY IndexFacts DEF CacheInv
<1>1. /\ L = Len(path) /\ L \in 1 .. Height + 1 /\ Height \in Nat /\ L \in Nat
      /\ path[L] = p /\ path[1] = 0
      /\ \A l \in 0 .. L - 1 : l \in Level /\ path[l + 1] \in AnyNode
      /\ \A l \in 1 .. L - 1 :
           /\ path[l + 1] \in Node /\ path[l + 1] # 0 /\ Depth(path[l + 1]) = l
           /\ \A k \in 1 .. l : PathTo[path[l + 1]][k] = path[k]
  BY <1>0, PathLevels, HeightFact, NumNodesFact
<1>2. /\ CachesOK' /\ WriteChain'
      /\ \A l \in 0 .. L - 1 :
              /\ writecache'[l].index = path[l + 1]
              /\ l # L - 1 => writecache'[l].data \in Only(D)[path[l + 1]]
      /\ \E w \in Only(D)[p] : writecache'[L - 1].data = With(w, WhichChild(i), buf)
      /\ \A l \in Level : l >= L /\ writecache'[l].index # NullInd =>
              /\ l = Height /\ l = L /\ writecache'[l] = writecache[l]
              /\ l \in 1 .. Height
  <2>1. Reaches(Only(D)) /\ WriteChain
    BY DEF CacheInv
  <2>. QED
    BY <2>1, FetchShape
<1>3. /\ E \in [AnyNode -> Data]
      /\ E[p] = [D[p] EXCEPT ![WhichChild(i)] = buf]
      /\ \A n \in AnyNode : n # p => E[n] = D[n]
      /\ \A j \in 1 .. LastIndex : j # i => Pos(E, j) = Pos(D, j)
  BY <1>0, SetPosition
<1>4. L - 1 \in Level /\ L - 1 \in 0 .. L - 1 /\ L - 1 + 1 = L
  BY <1>1
<1>. HIDE DEF E, path, L
<1>7. writecache'[L - 1].data = E[p]
  <2>1. \A w \in Only(D)[p] : w = D[p]
    BY <1>0, OnlyFacts, ParentFacts
  <2>. QED
    BY <1>2, <1>3, <2>1 DEF With
<1>9. \A l \in 0 .. L - 1 : writecache'[l].index = path[l + 1]
                            /\ writecache'[l].data = E[path[l + 1]]
  <2>. SUFFICES ASSUME NEW l \in 0 .. L - 1
                PROVE  writecache'[l].data = E[path[l + 1]]
    BY <1>2
  <2>2. CASE l = L - 1
    BY <1>1, <1>4, <1>7, <2>2
  <2>3. CASE l # L - 1
    <3>1. path[l + 1] # p
      <4>1. L - 1 \in 1 .. L - 1 /\ (l = 0 \/ l \in 1 .. L - 1)
        BY <1>1, <2>3
      <4>2. path[L - 1 + 1] # 0 /\ Depth(path[L - 1 + 1]) = L - 1
            /\ (l # 0 => Depth(path[l + 1]) = l)
        BY <1>1, <4>1
      <4>3. CASE l = 0
        BY <1>1, <1>4, <4>2, <4>3
      <4>4. CASE l # 0
        BY <1>1, <1>4, <4>2, <4>4, <2>3
      <4>. QED
        BY <4>3, <4>4
    <3>2. path[l + 1] \in AnyNode /\ writecache'[l].data \in Only(D)[path[l + 1]]
      BY <1>1, <1>2, <2>3
    <3>. QED
      BY <1>0, <1>3, <3>1, <3>2, OnlyFacts
  <2>. QED
    BY <2>2, <2>3
<1>10. ASSUME NEW l \in Level, l >= L, writecache'[l].index # NullInd
       PROVE  /\ l = Height /\ l = L /\ writecache'[l] = writecache[l]
              /\ l \in 1 .. Height /\ l # L - 1
  BY <1>1, <1>2, <1>10
<1>11. \A l \in Level : l \in 0 .. L - 1 \/ l >= L
  BY <1>1 DEF Level
<1>13. ReadChain'
  BY DEF CacheInv, ReadChain, ReadConnected
<1>14. ASSUME p # 0 PROVE InWrite(p)'
  BY <1>1, <1>4, <1>9 DEF InWrite
<1>15. ASSUME NEW l \in Level, l = 0 \/ writecache'[l].index # NullInd
       PROVE  writecache'[l].data = E[writecache'[l].index]
  <2>1. CASE l \in 0 .. L - 1
    BY <1>9, <2>1
  <2>2. CASE l >= L
    <3>1. l # 0
      BY <1>1, <2>2
    <3>2. l = L /\ writecache'[l] = writecache[l] /\ l \in 1 .. Height
      BY <1>10, <1>15, <2>2, <3>1
    <3>3. writecache[l].data = D[writecache[l].index]
      BY <1>0, <1>15, <3>1, <3>2, ReachesOnly DEF CacheInv
    <3>4. writecache[l].index # p /\ writecache[l].index \in AnyNode
      <4>1. Depth(writecache[l].index) = l
        BY <1>15, <3>1, <3>2 DEF CacheInv, WriteChain
      <4>2. p # 0 => Depth(p) = L - 1
        <5>1. SUFFICES ASSUME p # 0 PROVE Depth(p) = L - 1
          OBVIOUS
        <5>2. L - 1 # 0
          BY <1>1, <1>4, <5>1
        <5>3. L - 1 \in 1 .. L - 1
          BY <1>1, <5>2
        <5>4. Depth(path[L - 1 + 1]) = L - 1
          BY <1>1, <5>3
        <5>. QED
          BY <1>1, <1>4, <5>4
      <4>3. writecache[l].index # 0
        BY <1>15, <3>1, <3>2 DEF NullInd
      <4>4. writecache[l].index \in AnyNode
        BY IndexFacts DEF CachesOK, Entry, NullInd
      <4>. QED
        BY <1>1, <3>2, <4>1, <4>2, <4>3, <4>4
    <3>. QED
      BY <1>3, <3>2, <3>3, <3>4
  <2>. QED
    BY <1>11, <2>1, <2>2
<1>16. ASSUME NEW n \in Node, ~InWrite(n)'
       PROVE  Stored(n, Pos(E, n))' = E[n]
  <2>1. n # p /\ n \in AnyNode /\ n \in 1 .. LastIndex /\ n # i
    BY <1>0, <1>14, <1>16, OnlyFacts
  <2>2. Stored(n, Pos(D, n))' = Stored(n, Pos(D, n))
    BY StoredSame
  <2>. QED
    BY <1>3, <2>1, <2>2
<1>17. Reaches(Only(E))'
  <2>1. /\ \A l \in Level : (l = 0 \/ writecache'[l].index # NullInd) =>
             writecache'[l].data \in Only(E)[writecache'[l].index]
        /\ \A n \in Node : ~InWrite(n)' =>
             \A d \in Only(E)[ParentOf(n)] : Stored(n, d[WhichChild(n)])' \in Only(E)[n]
    <3>1. \A l \in Level : writecache'[l].index \in AnyNode
      BY <1>2, IndexFacts DEF CachesOK, Entry, NullInd
    <3>. QED
      BY <1>3, <1>15, <1>16, <3>1, OnlyFacts DEF Pos
  <2>. QED
    BY <1>3, <2>1, OnlyFacts DEF Reaches
<1>18. ASSUME Aside' PROVE ReadIn(Only(E))'
  <2>. SUFFICES ASSUME NEW l \in Level, ReadConnected(l)
                PROVE  readcache[l].data \in Only(E)[readcache[l].index]
    BY DEF ReadIn, ReadConnected
  <2>. DEFINE n == readcache[l].index
  <2>0. l >= rcsplit /\ rcsplit \in 1 .. Height /\ l \in Nat
    BY <1>1 DEF ReadConnected, CachesOK, Level
  <2>1. n # NullInd /\ n \in AnyNode
    <3>1. n # NullInd
      BY <2>0 DEF ReadConnected
    <3>. QED
      BY <3>1, IndexFacts DEF CachesOK, Entry, NullInd
  <2>2. Depth(n) = l /\ \A k \in rcsplit .. l - 1 : readcache[k].index = PathTo[n][k + 1]
    BY DEF CacheInv, ReadChain
  <2>3. readcache[l].data = D[n]
    <3>1. ReadIn(Only(D))
      BY DEF CacheInv
    <3>2. readcache[l].data \in Only(D)[n]
      BY <3>1 DEF ReadIn
    <3>. QED
      BY <1>0, <2>1, <3>2, OnlyFacts
  <2>4. n # p
    <3>1. SUFFICES ASSUME n = p PROVE FALSE
      OBVIOUS
    <3>2. l = L - 1 /\ l \in 1 .. L - 1
      <4>1. L - 1 # 0
        BY <1>1, <1>4, <2>1, <3>1 DEF NullInd
      <4>2. L - 1 \in 1 .. L - 1
        BY <1>1, <4>1
      <4>3. Depth(path[L - 1 + 1]) = L - 1
        BY <1>1, <4>2
      <4>. QED
        BY <1>1, <1>4, <2>2, <3>1, <4>2, <4>3
    <3>3. \A k \in rcsplit .. l : writecache'[k].index = path[k + 1]
      BY <1>9, <2>0, <3>2
    <3>4. \A k \in rcsplit .. l - 1 : path[k + 1] = PathTo[n][k + 1]
      <4>1. \A k \in 1 .. l : PathTo[path[l + 1]][k] = path[k]
        BY <1>1, <3>2
      <4>2. path[l + 1] = n
        BY <1>1, <1>4, <3>1, <3>2
      <4>3. \A k \in rcsplit .. l - 1 : k + 1 \in 1 .. l
        BY <2>0
      <4>. QED
        BY <4>1, <4>2, <4>3
    <3>5. l \in rcsplit .. l
      BY <2>0
    <3>6. rcsplit \in rcsplit .. l /\ (l # rcsplit => rcsplit \in rcsplit .. l - 1)
      BY <2>0
    <3>7. readcache[rcsplit].index = path[rcsplit + 1]
      BY <1>1, <1>4, <2>2, <3>1, <3>2, <3>4, <3>6
    <3>8. readcache[rcsplit].index # NullInd
      BY <3>6 DEF ReadConnected
    <3>. QED
      BY <1>18, <3>3, <3>6, <3>7, <3>8 DEF Aside
  <2>. QED
    BY <1>3, <2>1, <2>3, <2>4, OnlyFacts
<1>. QED
  BY <1>2, <1>3, <1>13, <1>17, <1>18 DEF CacheInv, E
-----------------------------------------------------------------------------
(***************************************************************************)
(* nodestore is changed without anybody noticing: a refresh or a dummy     *)
(* write.                                                                  *)
(***************************************************************************)
LEMMA QuietCaches ==
  ASSUME CachesOK, NEW D, CacheInv(D), writecache' = writecache,
         \A n \in Node : Stored(n, Pos(D, n))' = Stored(n, Pos(D, n))
  PROVE  /\ CachesOK' /\ ReadChain' /\ (Aside' => ReadIn(Only(D))') => CacheInv(D)'
         /\ UNCHANGED <<readcache, rcsplit>> => CachesOK' /\ CacheInv(D)'
<1>0. D \in [AnyNode -> Data]
  BY DEF CacheInv
<1>1. WriteChain'
  BY DEF CacheInv, WriteChain
<1>2. Reaches(Only(D))'
  <2>1. \A n \in Node : \A d \in Only(D)[ParentOf(n)] :
          Stored(n, d[WhichChild(n)])' = Stored(n, d[WhichChild(n)])
    BY <1>0, OnlyFacts DEF Pos
  <2>2. \A n \in Node : InWrite(n)' <=> InWrite(n)
    BY DEF InWrite
  <2>. QED
    BY <2>1, <2>2 DEF CacheInv, Reaches
<1>3. ASSUME UNCHANGED <<readcache, rcsplit>>
      PROVE  CachesOK' /\ ReadChain' /\ (Aside' => ReadIn(Only(D))')
  BY <1>3 DEF CacheInv, CachesOK, ReadChain, ReadIn, ReadConnected, Aside
<1>. QED
  BY <1>0, <1>1, <1>2, <1>3 DEF CacheInv

(***************************************************************************)
(* The node at level l is written, and its new position set in its parent. *)
(***************************************************************************)
LEMMA WriteCaches ==
  ASSUME CachesOK, NEW D, CacheInv(D), NEW l \in 1 .. Height, NEW n \in Node,
         writecache[l].index = n, NEW q \in 0 .. Nptr,
         writecache' = [writecache EXCEPT ![l - 1].data[WhichChild(n)] = q],
         UNCHANGED <<readcache, rcsplit>>,
         \A m \in Node : m # n => Stored(m, Pos(D, m))' = Stored(m, Pos(D, m))
  PROVE  /\ CachesOK'
         /\ CacheInv(Placed(D, n, q))'
         /\ \A m \in Level : writecache'[m].index = writecache[m].index
<1>. DEFINE E == Placed(D, n, q)
            p == ParentOf(n)
            L == Height
<1>0. /\ D \in [AnyNode -> Data] /\ n \in 1 .. LastIndex /\ n \in AnyNode /\ n # 0
      /\ p \in AnyNode /\ L \in Nat /\ l \in Level /\ l - 1 \in Level
      /\ l \in Nat
  BY OnlyFacts, HeightFact, NumNodesFact DEF CacheInv, Level
<1>1. /\ Depth(n) = l
      /\ \A k \in 0 .. l - 1 : writecache[k].index = PathTo[n][k + 1]
  BY <1>0, WriteLevel DEF CacheInv
<1>2. /\ PathTo[n][l] = p /\ PathTo[n][1] = 0
      /\ \A k \in 1 .. l - 1 :
           /\ PathTo[n][k + 1] \in Node /\ PathTo[n][k + 1] # 0
           /\ Depth(PathTo[n][k + 1]) = k
           /\ \A j \in 1 .. k : PathTo[PathTo[n][k + 1]][j] = PathTo[n][j]
  BY <1>0, <1>1, PathLevels
<1>3. /\ l - 1 \in 0 .. l - 1 /\ l - 1 + 1 = l
      /\ writecache[l - 1].index = p
  BY <1>0, <1>1, <1>2
<1>4. /\ E \in [AnyNode -> Data]
      /\ E[p] = [D[p] EXCEPT ![WhichChild(n)] = q]
      /\ \A m \in AnyNode : m # p => E[m] = D[m]
      /\ \A j \in 1 .. LastIndex : j # n => Pos(E, j) = Pos(D, j)
  BY <1>0, SetPosition
<1>5. p # 0 => Depth(p) = l - 1 /\ l - 1 \in 1 .. l - 1
  <2>1. SUFFICES ASSUME p # 0 PROVE Depth(p) = l - 1 /\ l - 1 \in 1 .. l - 1
    OBVIOUS
  <2>2. l - 1 # 0
    <3>1. SUFFICES ASSUME l = 1 PROVE FALSE
      BY <1>0
    <3>2. PathTo[n][1] = p
      BY <1>2, <3>1
    <3>. QED
      BY <1>2, <2>1, <3>2
  <2>3. l - 1 \in 1 .. l - 1
    BY <1>0, <2>2
  <2>4. Depth(PathTo[n][l - 1 + 1]) = l - 1
    BY <1>2, <2>3
  <2>. QED
    BY <1>2, <1>3, <2>3, <2>4
<1>6. Depth(p) = l - 1
  <2>1. CASE p = 0
    <3>1. l - 1 = 0
      <4>1. SUFFICES ASSUME l - 1 # 0 PROVE FALSE
        OBVIOUS
      <4>2. l - 1 \in 1 .. l - 1
        BY <1>0, <4>1
      <4>. QED
        BY <1>2, <1>3, <2>1, <4>2
    <3>2. Depth(0) = 0
      BY <1>0, <2>1, DepthFacts
    <3>. QED
      BY <2>1, <3>1, DepthFacts, <1>0
  <2>2. CASE p # 0
    BY <1>5, <2>2
  <2>. QED
    BY <2>1, <2>2
<1>. HIDE DEF E, p, L
<1>7. D[p] = writecache[l - 1].data
  <2>1. l - 1 = 0 \/ writecache[l - 1].index # NullInd
    <3>1. p = 0 => l - 1 = 0
      <4>1. p = 0 => Depth(p) = 0
        BY <1>0, DepthFacts
      <4>. QED
        BY <1>6, <4>1
    <3>. QED
      BY <1>3, <3>1 DEF NullInd
  <2>. QED
    BY <1>0, <1>3, <2>1, ReachesOnly DEF CacheInv
<1>8. /\ \A m \in Level : m # l - 1 => writecache'[m] = writecache[m]
      /\ writecache'[l - 1].data = E[p]
      /\ writecache'[l - 1].index = p
      /\ writecache' = [m \in Level |-> writecache'[m]]
      /\ writecache'[l - 1] \in Entry
  <2>. DEFINE e == [writecache[l - 1] EXCEPT !.data[WhichChild(n)] = q]
  <2>1. e = [index |-> p, data |-> E[p]]
    <3>1. writecache[l - 1] \in Entry
      BY <1>0 DEF CachesOK
    <3>2. e = [index |-> writecache[l - 1].index,
               data |-> [writecache[l - 1].data EXCEPT ![WhichChild(n)] = q]]
      BY <3>1 DEF Entry
    <3>. QED
      BY <1>3, <1>4, <1>7, <3>2
  <2>2. writecache' = [m \in Level |-> IF m = l - 1 THEN e ELSE writecache[m]]
    BY <1>0 DEF CachesOK
  <2>3. e \in Entry
    <3>1. E[p] \in Data /\ p \in Node \cup {NullInd}
      BY <1>0, <1>4, IndexFacts DEF NullInd
    <3>. QED
      BY <2>1, <3>1 DEF Entry
  <2>. HIDE DEF e
  <2>4. writecache'[l - 1] = e /\ e.data = E[p] /\ e.index = p
    BY <1>0, <2>1, <2>2
  <2>5. \A m \in Level : m # l - 1 => writecache'[m] = writecache[m]
    BY <2>2
  <2>6. writecache' = [m \in Level |-> writecache'[m]]
    BY <2>2
  <2>. QED
    BY <2>3, <2>4, <2>5, <2>6
<1>9. CachesOK'
  <2>1. \A m \in Level : writecache'[m] \in Entry
    BY <1>8 DEF CachesOK
  <2>2. writecache' \in [Level -> Entry]
    BY <1>8, <2>1
  <2>. QED
    BY <2>2 DEF CachesOK
<1>10. \A m \in Level : writecache'[m].index = writecache[m].index
  BY <1>3, <1>8
<1>11. WriteChain'
  <2>1. \A k \in 1 .. Height : \A j \in 0 .. k - 1 : k \in Level /\ j \in Level
    BY <1>0 DEF Level, L
  <2>2. 0 \in Level
    BY <1>0 DEF Level, L
  <2>. QED
    BY <1>10, <2>1, <2>2 DEF CacheInv, WriteChain
<1>12. ReadChain'
  BY DEF CacheInv, ReadChain, ReadConnected
<1>13. \A m \in Node : InWrite(m)' <=> InWrite(m)
  BY <1>10 DEF InWrite
<1>14. p # 0 => p \in Node /\ InWrite(p)
  BY <1>0, <1>3, IndexFacts DEF InWrite
<1>15. ASSUME NEW k \in Level, k = 0 \/ writecache'[k].index # NullInd
       PROVE  writecache'[k].data = E[writecache'[k].index]
  <2>1. CASE k = l - 1
    BY <1>8, <2>1
  <2>2. CASE k # l - 1
    <3>1. writecache'[k] = writecache[k]
      BY <1>8, <2>2
    <3>2. writecache[k].data = D[writecache[k].index]
      BY <1>0, <1>15, <3>1, ReachesOnly DEF CacheInv
    <3>3. writecache[k].index \in AnyNode
      BY IndexFacts DEF CachesOK, Entry, NullInd
    <3>4. writecache[k].index # p
      <4>1. CASE k = 0
        <5>1. writecache[k].index = 0 /\ p # 0
          <6>1. p = 0 => Depth(p) = 0
            BY <1>0, DepthFacts
          <6>. QED
            BY <1>6, <2>2, <4>1, <6>1 DEF CacheInv, WriteChain, NullInd
        <5>. QED
          BY <5>1
      <4>2. CASE k # 0
        <5>1. writecache[k].index \in Node
          BY <1>15, <3>1, <4>2 DEF CachesOK, Entry
        <5>2. Depth(writecache[k].index) = k
          BY <5>1, WriteLevel DEF CacheInv
        <5>. QED
          BY <1>6, <2>2, <5>2
      <4>. QED
        BY <4>1, <4>2
    <3>. QED
      BY <1>4, <3>1, <3>2, <3>3, <3>4
  <2>. QED
    BY <2>1, <2>2
<1>16. ASSUME NEW m \in Node, ~InWrite(m)'
       PROVE  Stored(m, Pos(E, m))' = E[m]
  <2>1. ~InWrite(m) /\ m # n /\ m # p /\ m \in AnyNode /\ m \in 1 .. LastIndex
    BY <1>0, <1>13, <1>14, <1>16, OnlyFacts DEF InWrite
  <2>2. Stored(m, Pos(D, m))' = Stored(m, Pos(D, m))
    BY <2>1
  <2>3. Stored(m, Pos(D, m)) = D[m]
    BY <1>0, <2>1, ReachesOnly DEF CacheInv
  <2>. QED
    BY <1>4, <2>1, <2>2, <2>3
<1>17. Reaches(Only(E))'
  <2>1. /\ \A k \in Level : (k = 0 \/ writecache'[k].index # NullInd) =>
             writecache'[k].data \in Only(E)[writecache'[k].index]
        /\ \A m \in Node : ~InWrite(m)' =>
             \A d \in Only(E)[ParentOf(m)] : Stored(m, d[WhichChild(m)])' \in Only(E)[m]
    <3>1. \A k \in Level : writecache'[k].index \in AnyNode
      BY <1>9, IndexFacts DEF CachesOK, Entry, NullInd
    <3>. QED
      BY <1>4, <1>15, <1>16, <3>1, OnlyFacts DEF Pos
  <2>. QED
    BY <1>4, <2>1, OnlyFacts DEF Reaches
<1>18. ASSUME Aside' PROVE ReadIn(Only(E))'
  <2>. SUFFICES ASSUME NEW k \in Level, ReadConnected(k)
                PROVE  readcache[k].data \in Only(E)[readcache[k].index]
    BY DEF ReadIn, ReadConnected
  <2>. DEFINE m == readcache[k].index
  <2>0. k >= rcsplit /\ rcsplit \in 1 .. Height /\ k \in Nat /\ rcsplit \in Level
    BY <1>0 DEF ReadConnected, CachesOK, Level, L
  <2>1. m # NullInd /\ m \in AnyNode
    <3>1. m # NullInd
      BY <2>0 DEF ReadConnected
    <3>. QED
      BY <3>1, IndexFacts DEF CachesOK, Entry, NullInd
  <2>2. Depth(m) = k
    BY DEF CacheInv, ReadChain
  <2>3. Aside
    BY <1>10, <1>18, <2>0 DEF Aside
  <2>4. readcache[k].data = D[m]
    <3>1. ReadIn(Only(D))
      BY <2>3 DEF CacheInv
    <3>2. readcache[k].data \in Only(D)[m]
      BY <3>1 DEF ReadIn
    <3>. QED
      BY <1>0, <2>1, <3>2, OnlyFacts
  <2>5. ASSUME m = p PROVE FALSE
    <3>1. k = l - 1 /\ writecache[k].index = m /\ m \in Node
      BY <1>3, <1>6, <2>1, <2>2, <2>5, IndexFacts DEF NullInd
    <3>2. \A j \in 0 .. k - 1 : writecache[j].index = PathTo[m][j + 1]
      BY <3>1, WriteLevel DEF CacheInv
    <3>3. \A j \in rcsplit .. k - 1 : writecache[j].index = PathTo[m][j + 1]
      BY <2>0, <3>2
    <3>. QED
      BY <2>3, <3>1, <3>3, AsideOff DEF CacheInv
  <2>. QED
    BY <1>4, <2>1, <2>4, <2>5, OnlyFacts
<1>. QED
  BY <1>4, <1>9, <1>10, <1>11, <1>12, <1>17, <1>18 DEF CacheInv, E
-----------------------------------------------------------------------------
\* The writes to the holding area since the start.
Writes == stores * Height - (IF pc \in {"level", "ltws"} THEN level
                             ELSE IF pc = "fetch" THEN Height ELSE 0)

\* How far the refresh has come in the current round of the holding area.
Progress ==
  IF pc = "ltws" THEN nodestore!LtwTarget(holdpos) - todo
  ELSE IF holdpos = 0 THEN 0 ELSE nodestore!LtwTarget(holdpos - 1)

Schedule ==
  /\ pc \in {"idle", "fetch", "level", "ltws"}
  /\ stores \in Nat
  /\ pc # "idle" => stores # 0
  /\ level \in 0 .. Height
  /\ pc = "ltws" => level # 0 /\ todo \in Nat
  /\ holdpos = Writes % HoldSize
  /\ Progress \in 0 .. NumNodes
  /\ longpos = IF Progress = NumNodes THEN 0 ELSE Progress
-----------------------------------------------------------------------------
\* The remainder of the next number.
LEMMA ModNext ==
  ASSUME NEW d \in Nat \ {0}, NEW n \in Nat
  PROVE  (n + 1) % d = IF (n % d) + 1 = d THEN 0 ELSE (n % d) + 1
<1>. DEFINE q == n \div d
            r == n % d
            Q == (n + 1) \div d
            R == (n + 1) % d
<1>1. /\ q \in Int /\ r \in 0 .. d - 1 /\ n = d * q + r
      /\ Q \in Int /\ R \in 0 .. d - 1 /\ n + 1 = d * Q + R
  OBVIOUS
<1>. HIDE DEF q, r, Q, R
<1>2. d * (Q - q) = r + 1 - R
  BY <1>1
<1>3. Q - q \in {0, 1}
  <2>1. SUFFICES ASSUME Q - q >= 2 \/ Q - q <= -1 PROVE FALSE
    BY <1>1
  <2>2. CASE Q - q >= 2
    <3>1. d * (Q - q) >= d * 2
      BY <1>1, <2>2
    <3>. QED
      BY <1>1, <1>2, <3>1
  <2>3. CASE Q - q <= -1
    <3>1. d * (Q - q) <= d * (-1)
      BY <1>1, <2>3
    <3>. QED
      BY <1>1, <1>2, <3>1
  <2>. QED
    BY <2>1, <2>2, <2>3
<1>4. R = IF r + 1 = d THEN 0 ELSE r + 1
  BY <1>1, <1>2, <1>3
<1>. QED
  BY <1>4 DEF R, r

\* Sizes are positive.
LEMMA TrieFacts ==
  /\ HoldSize \in Nat \ {0}
  /\ Height \in Nat \ {0}
  /\ NumNodes \in Nat \ {0}
  BY NumNodesFact, HeightFact, TrieAssumption

(***************************************************************************)
(* The targets of the refresh grow with the slot and reach the end of the  *)
(* long-term area at the last one.                                         *)
(***************************************************************************)
LEMMA TargetFacts ==
  ASSUME NEW k \in 0 .. HoldSize - 1
  PROVE  /\ nodestore!LtwTarget(k) \in 0 .. NumNodes
         /\ k = HoldSize - 1 => nodestore!LtwTarget(k) = NumNodes
         /\ k # HoldSize - 1 => nodestore!LtwTarget(k) # NumNodes
         /\ k # 0 => /\ nodestore!LtwTarget(k - 1) \in 0 .. NumNodes
                     /\ nodestore!LtwTarget(k - 1) <= nodestore!LtwTarget(k)
<1>1. /\ k \in ring!Slot
      /\ k # 0 => k - 1 \in ring!Slot
      /\ k # HoldSize - 1 => k < HoldSize - 1
      /\ HoldSize \in Nat \ {0} /\ NumNodes \in Nat
  BY TrieFacts DEF ring!Slot
<1>2. \A j \in ring!Slot :
        /\ ring!LtwTarget(j) \in 0 .. NumNodes
        /\ j < HoldSize - 1 => ring!LtwTarget(j) < NumNodes
        /\ j = HoldSize - 1 => ring!LtwTarget(j) = NumNodes
        /\ j # 0 => ring!LtwTarget(j - 1) <= ring!LtwTarget(j)
  BY RingOK, ring!LtwTargetFacts
<1>. QED
  BY <1>1, <1>2, SameStore
-----------------------------------------------------------------------------
\* Nothing has been written at first.
LEMMA InitSchedule == Init => Schedule
<1>. SUFFICES ASSUME Init PROVE Schedule
  OBVIOUS
<1>1. /\ pc = "idle" /\ stores = 0 /\ level = 0
      /\ holdpos = 0 /\ longpos = 0
  BY DEF Init, nodestore!WoramInit
<1>2. Writes = 0 /\ 0 % HoldSize = 0 /\ Progress = 0
  BY <1>1, TrieFacts DEF Writes, Progress
<1>. QED
  BY <1>1, <1>2, TrieFacts DEF Schedule

\* The number of writes is one.
LEMMA WritesNat ==
  ASSUME Schedule
  PROVE  Writes \in Nat /\ holdpos \in 0 .. HoldSize - 1
<1>1. stores # 0 => stores * Height >= Height
  <2>1. SUFFICES ASSUME stores # 0 PROVE stores * Height >= Height
    OBVIOUS
  <2>2. (stores - 1) * Height >= 0
    BY <2>1, TrieFacts DEF Schedule
  <2>. QED
    BY <2>2, TrieFacts DEF Schedule
<1>2. stores * Height \in Nat
  BY TrieFacts DEF Schedule
<1>3. Writes \in Nat
  BY <1>1, <1>2, TrieFacts DEF Schedule, Writes
<1>. QED
  BY <1>3, TrieFacts DEF Schedule

\* While the loop of ltws runs, longpos stands for Progress; between two
\* writes too.
LEMMA LongPosProgress ==
  ASSUME Schedule
  PROVE  /\ pc # "ltws" => Progress # NumNodes /\ longpos = Progress
         /\ pc = "ltws" /\ todo # 0 => Progress < NumNodes /\ longpos = Progress
<1>1. holdpos \in 0 .. HoldSize - 1
  BY WritesNat
<1>2. ASSUME pc # "ltws" PROVE Progress # NumNodes
  <2>1. CASE holdpos = 0
    BY <1>2, <2>1, TrieFacts DEF Progress
  <2>2. CASE holdpos # 0
    <3>1. holdpos - 1 \in 0 .. HoldSize - 1 /\ holdpos - 1 # HoldSize - 1
      BY <1>1, <2>2, TrieFacts
    <3>. QED
      BY <1>2, <2>2, <3>1, TargetFacts DEF Progress
  <2>. QED
    BY <2>1, <2>2
<1>3. ASSUME pc = "ltws", todo # 0 PROVE Progress < NumNodes
  <2>1. nodestore!LtwTarget(holdpos) \in 0 .. NumNodes
    BY <1>1, TargetFacts
  <2>. QED
    BY <1>3, <2>1, TrieFacts DEF Progress, Schedule
<1>. QED
  BY <1>2, <1>3, TrieFacts DEF Schedule

(***************************************************************************)
(* The write that ends a turn of the write-back loop.                      *)
(***************************************************************************)
LEMMA HoldingWriteSchedule ==
  ASSUME Schedule, pc = "ltws", todo = 0,
         holdpos' = (IF holdpos + 1 = HoldSize THEN 0 ELSE holdpos + 1),
         longpos' = longpos, stores' = stores, level' = level - 1,
         pc' = "level"
  PROVE  Schedule'
<1>1. holdpos \in 0 .. HoldSize - 1 /\ Writes \in Nat
  BY WritesNat
<1>2. /\ pc' \in {"idle", "fetch", "level", "ltws"} /\ stores' \in Nat
      /\ stores' # 0 /\ level' \in 0 .. Height /\ pc' # "ltws"
  BY TrieFacts DEF Schedule
<1>3. Writes' = Writes + 1
  <2>1. stores * Height \in Int
    BY TrieFacts DEF Schedule
  <2>. QED
    BY <1>2, <2>1 DEF Writes, Schedule
<1>4. holdpos' = Writes' % HoldSize
  BY <1>1, <1>3, ModNext, TrieFacts DEF Schedule
<1>5. nodestore!LtwTarget(holdpos) \in 0 .. NumNodes /\ Progress = nodestore!LtwTarget(holdpos)
  BY <1>1, TargetFacts, TrieFacts DEF Progress
<1>6. CASE holdpos + 1 = HoldSize
  <2>1. Progress = NumNodes
    BY <1>1, <1>5, <1>6, TargetFacts
  <2>2. longpos' = 0 /\ Progress' = 0
    BY <1>6, <2>1 DEF Schedule, Progress
  <2>. QED
    BY <1>2, <1>4, <2>2, TrieFacts DEF Schedule
<1>7. CASE holdpos + 1 # HoldSize
  <2>1. holdpos' - 1 = holdpos /\ holdpos' # 0
    BY <1>1, <1>7
  <2>2. Progress' = nodestore!LtwTarget(holdpos)
    BY <2>1 DEF Progress, nodestore!LtwTarget
  <2>. QED
    BY <1>2, <1>4, <1>5, <2>2 DEF Schedule
<1>. QED
  BY <1>6, <1>7

\* Every step keeps the schedule.
LEMMA NextSchedule == ~OneWrite /\ Schedule /\ [Next]_vars => Schedule'
<1>. SUFFICES ASSUME ~OneWrite, Schedule, [Next]_vars PROVE Schedule'
  OBVIOUS
<1>. DEFINE Same == UNCHANGED <<longpos, holdpos>>
<1>0. /\ holdpos \in 0 .. HoldSize - 1 /\ Writes \in Nat
      /\ stores * Height \in Nat /\ Height \in Nat \ {0}
  BY WritesNat, TrieFacts DEF Schedule
<1>1. ASSUME NEW index \in Leaf, Load(index) PROVE Schedule'
  BY <1>1 DEF Load, nodestoreVars, Schedule, Writes, Progress, nodestore!LtwTarget
<1>2. ASSUME NEW index \in Leaf, NEW pos \in 0 .. MaxLeaf,
             StoreCall(index, pos)
      PROVE  Schedule'
  <2>1. /\ Same /\ pc = "idle" /\ pc' = "fetch" /\ level' = level
        /\ stores' = stores + 1 /\ todo' = todo
    BY <1>2 DEF StoreCall, nodestoreVars
  <2>2. stores' \in Nat /\ stores' # 0
    BY <2>1 DEF Schedule
  <2>3. (stores + 1) * Height - Height = stores * Height
    BY <1>0 DEF Schedule
  <2>4. Writes' = Writes
    BY <1>0, <2>1, <2>3 DEF Writes
  <2>5. Progress' = Progress
    BY <2>1 DEF Progress, nodestore!LtwTarget
  <2>. QED
    BY <2>1, <2>2, <2>4, <2>5 DEF Schedule
<1>3. CASE StoreFetch
  <2>1. /\ Same /\ pc = "fetch" /\ pc' = "level" /\ level' = Height
        /\ stores' = stores /\ todo' = todo
    BY <1>3 DEF StoreFetch, nodestoreVars
  <2>2. Writes' = Writes
    BY <2>1 DEF Writes
  <2>3. Progress' = Progress
    BY <2>1 DEF Progress, nodestore!LtwTarget
  <2>. QED
    BY <1>0, <2>1, <2>2, <2>3 DEF Schedule
<1>4. CASE WriteBack
  <2>1. /\ Same /\ pc = "level" /\ pc' = "ltws" /\ level' = level
        /\ level > 0 /\ stores' = stores
        /\ todo' = nodestore!LtwTarget(holdpos) - longpos
    BY <1>4 DEF WriteBack, nodestoreVars, NodeTurns, nodestore!NumLtw
  <2>2. Writes' = Writes
    BY <2>1 DEF Writes
  <2>3. Progress \in 0 .. NumNodes - 1 /\ longpos = Progress
    BY <2>1, LongPosProgress, TrieFacts DEF Schedule
  <2>4. nodestore!LtwTarget(holdpos) \in 0 .. NumNodes
    BY <1>0, TargetFacts
  <2>5. todo' \in Nat
    <3>1. CASE holdpos = 0
      BY <2>1, <2>3, <2>4, <3>1 DEF Progress
    <3>2. CASE holdpos # 0
      BY <1>0, <2>1, <2>3, <2>4, <3>2, TargetFacts DEF Progress
    <3>. QED
      BY <3>1, <3>2
  <2>6. Progress' = nodestore!LtwTarget(holdpos) - todo'
    BY <2>1 DEF Progress, nodestore!LtwTarget
  <2>7. Progress' = Progress
    BY <2>1, <2>3, <2>4, <2>6, TrieFacts
  <2>. QED
    BY <2>1, <2>2, <2>5, <2>7 DEF Schedule
<1>5. CASE Refresh
  <2>1. /\ pc = "ltws" /\ todo # 0 /\ todo' = todo - 1
        /\ holdpos' = holdpos
        /\ longpos' = IF longpos + 1 = NumNodes THEN 0 ELSE longpos + 1
        /\ UNCHANGED <<pc, level, stores>>
    BY <1>5 DEF Refresh, nodestore!LongTermWrite
  <2>2. Writes' = Writes
    BY <2>1 DEF Writes
  <2>3. Progress \in 0 .. NumNodes - 1 /\ longpos = Progress
    BY <2>1, LongPosProgress, TrieFacts DEF Schedule
  <2>4. nodestore!LtwTarget(holdpos) \in 0 .. NumNodes
    BY <1>0, TargetFacts
  <2>5. Progress' = nodestore!LtwTarget(holdpos) - todo'
    BY <2>1 DEF Progress, nodestore!LtwTarget
  <2>6. Progress' = Progress + 1
    BY <2>1, <2>4, <2>5, TrieFacts DEF Progress, Schedule
  <2>. QED
    BY <2>1, <2>2, <2>3, <2>6, TrieFacts DEF Schedule
<1>6. CASE WriteNode
  BY <1>6, HoldingWriteSchedule DEF WriteNode, NodeWrite, nodestore!HoldingWrite
<1>7. CASE DummyWrite
  BY <1>7, HoldingWriteSchedule DEF DummyWrite, NodeWrite, nodestore!HoldingWrite
<1>8. CASE StoreThrows
  BY <1>8 DEF StoreThrows
<1>9. CASE StoreReturn
  <2>1. /\ Same /\ pc = "level" /\ pc' = "idle" /\ level' = level
        /\ level = 0 /\ stores' = stores /\ todo' = todo
    BY <1>9 DEF StoreReturn, nodestoreVars
  <2>2. Writes' = Writes
    BY <1>0, <2>1 DEF Writes
  <2>3. Progress' = Progress
    BY <2>1 DEF Progress, nodestore!LtwTarget
  <2>. QED
    BY <2>1, <2>2, <2>3 DEF Schedule
<1>10. CASE UNCHANGED vars
  BY <1>10 DEF vars, Schedule, Writes, Progress, nodestore!LtwTarget
<1>. QED
  BY <1>1, <1>2, <1>3, <1>4, <1>5, <1>6, <1>7, <1>8, <1>9, <1>10 DEF Next

(***************************************************************************)
(* What is written where depends on the number of stores only, not on the  *)
(* indices, nor on what the caches hold: the write-only obliviousness of a *)
(* trie of any shape over a holding area of any size.                      *)
(***************************************************************************)
THEOREM TrieFixedSchedule ==
  ASSUME ~OneWrite PROVE Spec => []FixedSchedule
<1>1. Schedule => FixedSchedule
  <2>. SUFFICES ASSUME Schedule PROVE FixedSchedule
    OBVIOUS
  <2>1. holdpos = Writes % HoldSize
    BY DEF Schedule
  <2>2. pc # "ltws" =>
          longpos = IF holdpos = 0 THEN 0 ELSE nodestore!LtwTarget(holdpos - 1)
    BY LongPosProgress DEF Progress
  <2>. QED
    BY <2>1, <2>2 DEF FixedSchedule, Writes
<1>2. [][Next]_vars /\ Schedule => []Schedule
  BY NextSchedule, PTL
<1>. QED
  BY <1>1, <1>2, InitSchedule, PTL DEF Spec
-----------------------------------------------------------------------------
(***************************************************************************)
(* The nodes in a DetWoram.                                                *)
(***************************************************************************)
NodesOK ==
  /\ longterm \in [0 .. NumNodes - 1 -> Data]
  /\ longpos \in 0 .. NumNodes - 1
  /\ holding \in [0 .. HoldSize - 1 -> Data]
  /\ holdpos \in 0 .. HoldSize - 1

\* Node n is read from the holding area.
ReadsHolding(n, pos) ==
  /\ pos # Nptr
  /\ NodeBit(longterm[NodeInd(n)], nodestore!GetBind(pos)) # nodestore!GetBitval(pos)

\* HoldingReliable of PMWoram, for one node.
NotYetVisited(n, h, k, p) ==
  LET start == nodestore!LtwTarget(h)
  IN  IF h < k THEN ~(start <= NodeInd(n) /\ NodeInd(n) < p)
               ELSE p <= NodeInd(n) /\ NodeInd(n) < start

Reliable(n, pos) ==
  ReadsHolding(n, pos) =>
    LET h == nodestore!GetHold(pos)
    IN  /\ NotYetVisited(n, h, holdpos, Progress)
        /\ NodeBit(holding[h], nodestore!GetBind(pos)) = nodestore!GetBitval(pos)

NodePositions == nodestore!Pointer \cup {Nptr}

\* The parts of a position of a node, which is never the null position.
LEMMA PointerFacts ==
  ASSUME ~OneWrite, NEW p \in nodestore!Pointer
  PROVE  /\ nodestore!GetHold(p) \in 0 .. HoldSize - 1
         /\ nodestore!GetBind(p) \in 0 .. Branching * PtrBits - 1
         /\ nodestore!GetBitval(p) \in {0, 1}
         /\ p \in 0 .. Nptr /\ p # Nptr /\ p # nodestore!NPtr
<1>1. /\ ring!GetHold(p) \in ring!Slot
      /\ ring!GetBind(p) \in ring!BitIndex
      /\ ring!GetBitval(p) \in {0, 1}
      /\ p # ring!NPtr
  BY RingOK, ring!PointerParts, SameStore
<1>2. PICK h \in 0 .. HoldSize - 1, i \in 0 .. Branching * PtrBits - 1, v \in {0, 1} :
        p = nodestore!Build(h, i, v)
  BY DEF nodestore!Pointer, nodestore!Slot, nodestore!BitIndex
<1>. DEFINE B == Branching * PtrBits
            S == BindSpan
<1>3. HoldSize \in Nat \ {0} /\ B \in Nat \ {0} /\ S \in Nat /\ h \in Nat /\ i \in Nat
  BY TrieAssumption
<1>4. p = (h * S + i) * 2 + v
      /\ nodestore!PMax = ((HoldSize - 1) * S + (B - 1)) * 2 + 1
  BY <1>2 DEF nodestore!Build, nodestore!PMax
<1>5. i \in 0 .. B - 1
  BY <1>2
<1>. HIDE DEF B, S
<1>6. h * S <= (HoldSize - 1) * S /\ h * S \in Nat /\ (HoldSize - 1) * S \in Nat
  BY <1>3
<1>7. p \in Nat /\ p <= nodestore!PMax
  BY <1>3, <1>4, <1>5, <1>6
<1>8. nodestore!PMax < Nptr /\ Nptr \in Nat /\ nodestore!PMax \in Nat
  <2>1. nodestore!PMax \in Nat
    BY <1>3, <1>4, <1>6
  <2>. QED
    BY <2>1, MaxInternAssumption, DataFacts
<1>. QED
  BY <1>1, <1>7, <1>8, SameStore DEF ring!Slot, ring!BitIndex

\* What is stored for a node.
LEMMA StoredLoad ==
  ASSUME ~OneWrite, NEW n \in Node, NEW p \in NodePositions
  PROVE  /\ p = Nptr => Stored(n, p) = NullNode
         /\ p # Nptr => Stored(n, p) = IF ReadsHolding(n, p)
                                      THEN holding[nodestore!GetHold(p)]
                                      ELSE longterm[NodeInd(n)]
<1>1. p # Nptr => p # nodestore!NPtr
  BY PointerFacts DEF NodePositions
<1>. QED
  BY <1>1 DEF Stored, NodeLoad, nodestore!Load, ReadsHolding

\* Home positions.
LEMMA HomeFacts ==
  /\ \A n \in Node : NodeInd(n) \in 0 .. NumNodes - 1 /\ n = NodeInd(n) + 1
  /\ \A m, n \in Node : NodeInd(m) = NodeInd(n) => m = n
  /\ \A k \in 0 .. NumNodes - 1 : k + 1 \in Node /\ NodeInd(k + 1) = k
  BY NumNodesFact DEF Node, NodeInd

(***************************************************************************)
(* A turn of ltws moves a node from the holding area to its home.          *)
(***************************************************************************)
LEMMA RefreshNodes ==
  ASSUME ~OneWrite, NodesOK, NEW P,
         \A n \in Node : P[n] \in NodePositions /\ Reliable(n, P[n]),
         nodestore!LongTermWrite(IF P[longpos + 1] = Nptr THEN nodestore!NPtr
                                 ELSE P[longpos + 1]),
         Progress \in 0 .. NumNodes - 1, longpos = Progress,
         Progress' = Progress + 1
  PROVE  /\ NodesOK'
         /\ \A n \in Node : /\ Stored(n, P[n])' = Stored(n, P[n])
                            /\ Reliable(n, P[n])'
<1>0. NumNodes \in Nat \ {0} /\ HoldSize \in Nat \ {0}
  BY NumNodesFact, TrieAssumption
<1>. PICK x \in Node : x = longpos + 1
  BY HomeFacts DEF NodesOK
<1>1. NodeInd(x) = longpos /\ P[x] \in NodePositions /\ Reliable(x, P[x])
  BY HomeFacts DEF NodesOK
<1>2. /\ longterm' = [longterm EXCEPT ![longpos] =
                        IF ReadsHolding(x, P[x]) THEN holding[nodestore!GetHold(P[x])]
                        ELSE longterm[longpos]]
      /\ longpos' = IF longpos + 1 = NumNodes THEN 0 ELSE longpos + 1
      /\ UNCHANGED <<holding, holdpos>>
  <2>1. P[x] # Nptr => P[x] # nodestore!NPtr
    BY <1>1, PointerFacts DEF NodePositions
  <2>. QED
    BY <1>1, <2>1 DEF nodestore!LongTermWrite, nodestore!Load, ReadsHolding
<1>3. ReadsHolding(x, P[x]) => nodestore!GetHold(P[x]) \in 0 .. HoldSize - 1
  BY <1>1, PointerFacts DEF NodePositions, ReadsHolding
<1>4. NodesOK'
  BY <1>0, <1>2, <1>3 DEF NodesOK
<1>5. ASSUME NEW n \in Node, n # x
      PROVE  /\ longterm'[NodeInd(n)] = longterm[NodeInd(n)]
             /\ ReadsHolding(n, P[n])' <=> ReadsHolding(n, P[n])
  <2>1. NodeInd(n) # longpos /\ NodeInd(n) \in 0 .. NumNodes - 1
    BY <1>1, <1>5, HomeFacts
  <2>2. longterm'[NodeInd(n)] = longterm[NodeInd(n)]
    BY <1>2, <2>1 DEF NodesOK
  <2>. QED
    BY <2>2 DEF ReadsHolding
<1>6. /\ longterm'[longpos] = IF ReadsHolding(x, P[x])
                              THEN holding[nodestore!GetHold(P[x])]
                              ELSE longterm[longpos]
      /\ ~ReadsHolding(x, P[x])'
  <2>1. longterm'[longpos] = IF ReadsHolding(x, P[x])
                              THEN holding[nodestore!GetHold(P[x])]
                              ELSE longterm[longpos]
    BY <1>2 DEF NodesOK
  <2>2. CASE ReadsHolding(x, P[x])
    BY <1>1, <2>1, <2>2 DEF ReadsHolding, Reliable
  <2>3. CASE ~ReadsHolding(x, P[x])
    BY <1>1, <2>1, <2>3 DEF ReadsHolding
  <2>. QED
    BY <2>1, <2>2, <2>3
<1>7. ASSUME NEW n \in Node PROVE Stored(n, P[n])' = Stored(n, P[n])
  <2>1. P[n] \in NodePositions
    OBVIOUS
  <2>2. /\ P[n] = Nptr => Stored(n, P[n]) = NullNode
        /\ P[n] # Nptr => Stored(n, P[n]) = IF ReadsHolding(n, P[n])
                                      THEN holding[nodestore!GetHold(P[n])]
                                      ELSE longterm[NodeInd(n)]
    BY <2>1, StoredLoad
  <2>3. /\ P[n] = Nptr => Stored(n, P[n])' = NullNode
        /\ P[n] # Nptr => Stored(n, P[n])' = IF ReadsHolding(n, P[n])'
                                      THEN holding'[nodestore!GetHold(P[n])]
                                      ELSE longterm'[NodeInd(n)]
    <3>1. P[n] # Nptr => P[n] # nodestore!NPtr
      BY <2>1, PointerFacts DEF NodePositions
    <3>. QED
      BY <3>1 DEF Stored, NodeLoad, nodestore!Load, ReadsHolding
  <2>4. CASE n = x
    BY <1>1, <1>2, <1>6, <2>2, <2>3, <2>4
  <2>5. CASE n # x
    BY <1>2, <1>5, <2>2, <2>3, <2>5
  <2>. QED
    BY <2>4, <2>5
<1>8. ASSUME NEW n \in Node, ReadsHolding(n, P[n])'
      PROVE  /\ NotYetVisited(n, nodestore!GetHold(P[n]), holdpos', Progress')
             /\ NodeBit(holding'[nodestore!GetHold(P[n])], nodestore!GetBind(P[n]))
                  = nodestore!GetBitval(P[n])
  <2>. DEFINE h == nodestore!GetHold(P[n])
              t == nodestore!LtwTarget(h)
              k == NodeInd(n)
  <2>1. n # x /\ ReadsHolding(n, P[n])
    BY <1>5, <1>6, <1>8
  <2>2. h \in 0 .. HoldSize - 1
    BY <2>1, PointerFacts DEF NodePositions, ReadsHolding
  <2>3. t \in 0 .. NumNodes
    BY <2>2, TargetFacts
  <2>4. /\ NotYetVisited(n, h, holdpos, Progress)
        /\ NodeBit(holding[h], nodestore!GetBind(P[n])) = nodestore!GetBitval(P[n])
    BY <2>1 DEF Reliable
  <2>5. k \in 0 .. NumNodes - 1 /\ k # Progress
    BY <1>1, <2>1, HomeFacts
  <2>6. IF h < holdpos THEN ~(t <= k /\ k < Progress) ELSE Progress <= k /\ k < t
    BY <2>4 DEF NotYetVisited
  <2>. HIDE DEF h, t, k
  <2>7. IF h < holdpos THEN ~(t <= k /\ k < Progress + 1)
        ELSE Progress + 1 <= k /\ k < t
    BY <1>0, <2>2, <2>3, <2>5, <2>6 DEF NodesOK
  <2>8. NotYetVisited(n, h, holdpos', Progress')
    BY <1>2, <2>7 DEF NotYetVisited, h, t, k
  <2>. QED
    BY <1>2, <2>4, <2>8 DEF h
<1>9. ASSUME NEW n \in Node PROVE Reliable(n, P[n])'
  BY <1>8 DEF Reliable, ReadsHolding, NotYetVisited, nodestore!LtwTarget
<1>. QED
  BY <1>4, <1>7, <1>9
-----------------------------------------------------------------------------
\* When the loop of ltws has ended, the refresh has come to the target.
LEMMA ProgressAtWrite ==
  ASSUME Schedule, pc = "ltws", todo = 0
  PROVE  /\ Progress = nodestore!LtwTarget(holdpos)
         /\ holdpos \in 0 .. HoldSize - 1
<1>1. holdpos \in 0 .. HoldSize - 1
  BY WritesNat
<1>. QED
  BY <1>1, TargetFacts, TrieFacts DEF Progress

\* No node is read from the slot that is about to be overwritten.
LEMMA SlotFree ==
  ASSUME ~OneWrite, Schedule, pc = "ltws", todo = 0, NEW n \in Node, NEW p,
         Reliable(n, p), ReadsHolding(n, p)
  PROVE  nodestore!GetHold(p) # holdpos
<1>1. /\ Progress = nodestore!LtwTarget(holdpos)
      /\ holdpos \in 0 .. HoldSize - 1
      /\ nodestore!LtwTarget(holdpos) \in 0 .. NumNodes
  BY ProgressAtWrite, TargetFacts
<1>2. NotYetVisited(n, nodestore!GetHold(p), holdpos, Progress)
  BY DEF Reliable
<1>3. NodeInd(n) \in 0 .. NumNodes - 1
  BY HomeFacts
<1>. QED
  BY <1>1, <1>2, <1>3 DEF NotYetVisited

(***************************************************************************)
(* The write to the holding area: nobody notices, and a node that is       *)
(* written can be relied upon at its new position.                         *)
(***************************************************************************)
LEMMA WriteNodes ==
  ASSUME ~OneWrite, Schedule, NodesOK, pc = "ltws", todo = 0, pc' = "level",
         NEW b \in Data, NodeWrite(b)
  PROVE  /\ NodesOK'
         /\ \A n \in Node, p \in NodePositions :
              Reliable(n, p) => Stored(n, p)' = Stored(n, p) /\ Reliable(n, p)'
<1>0. NumNodes \in Nat \ {0} /\ HoldSize \in Nat \ {0}
  BY NumNodesFact, TrieAssumption
<1>1. /\ holding' = [holding EXCEPT ![holdpos] = b]
      /\ holdpos' = IF holdpos + 1 = HoldSize THEN 0 ELSE holdpos + 1
      /\ UNCHANGED <<longterm, longpos>>
  BY DEF NodeWrite, nodestore!HoldingWrite
<1>2. NodesOK'
  BY <1>0, <1>1 DEF NodesOK
<1>3. /\ Progress = nodestore!LtwTarget(holdpos)
      /\ holdpos \in 0 .. HoldSize - 1
  BY ProgressAtWrite
<1>4. /\ holdpos = HoldSize - 1 => /\ Progress = NumNodes
                                   /\ holdpos' = 0 /\ Progress' = 0
      /\ holdpos # HoldSize - 1 => /\ holdpos' = holdpos + 1
                                   /\ Progress' = Progress
      /\ Progress \in 0 .. NumNodes
  <2>1. holdpos = HoldSize - 1 => Progress = NumNodes
    BY <1>3, TargetFacts
  <2>2. holdpos = HoldSize - 1 => holdpos' = 0 /\ Progress' = 0
    BY <1>0, <1>1 DEF Progress
  <2>3. ASSUME holdpos # HoldSize - 1
        PROVE  holdpos' = holdpos + 1 /\ Progress' = Progress
    <3>1. holdpos' = holdpos + 1 /\ holdpos' # 0 /\ holdpos' - 1 = holdpos
      BY <1>0, <1>1, <1>3, <2>3
    <3>2. Progress' = nodestore!LtwTarget(holdpos)
      BY <3>1 DEF Progress, nodestore!LtwTarget
    <3>. QED
      BY <1>3, <3>1, <3>2
  <2>. QED
    BY <1>3, <2>1, <2>2, <2>3, TargetFacts
<1>5. ASSUME NEW n \in Node, NEW p \in NodePositions, Reliable(n, p)
      PROVE  Stored(n, p)' = Stored(n, p) /\ Reliable(n, p)'
  <2>. DEFINE h == nodestore!GetHold(p)
              t == nodestore!LtwTarget(h)
              k == NodeInd(n)
  <2>1. ReadsHolding(n, p)' <=> ReadsHolding(n, p)
    BY <1>1 DEF ReadsHolding
  <2>2. ASSUME ReadsHolding(n, p)
        PROVE  /\ h \in 0 .. HoldSize - 1 /\ h # holdpos
               /\ holding'[h] = holding[h]
    <3>1. h \in 0 .. HoldSize - 1
      BY <2>2, PointerFacts DEF NodePositions, ReadsHolding
    <3>2. h # holdpos
      BY <1>5, <2>2, SlotFree
    <3>. QED
      BY <1>1, <3>1, <3>2 DEF NodesOK
  <2>3. Stored(n, p)' = Stored(n, p)
    <3>1. /\ p = Nptr => Stored(n, p) = NullNode
          /\ p # Nptr => Stored(n, p) = IF ReadsHolding(n, p)
                                        THEN holding[h] ELSE longterm[k]
      BY StoredLoad
    <3>2. /\ p = Nptr => Stored(n, p)' = NullNode
          /\ p # Nptr => Stored(n, p)' = IF ReadsHolding(n, p)'
                                         THEN holding'[h] ELSE longterm'[k]
      <4>1. p # Nptr => p # nodestore!NPtr
        BY PointerFacts DEF NodePositions
      <4>. QED
        BY <4>1 DEF Stored, NodeLoad, nodestore!Load, ReadsHolding
    <3>. QED
      BY <1>1, <2>1, <2>2, <3>1, <3>2
  <2>4. ASSUME ReadsHolding(n, p)
        PROVE  /\ NotYetVisited(n, h, holdpos', Progress')
               /\ NodeBit(holding'[h], nodestore!GetBind(p)) = nodestore!GetBitval(p)
    <3>1. /\ NotYetVisited(n, h, holdpos, Progress)
          /\ NodeBit(holding[h], nodestore!GetBind(p)) = nodestore!GetBitval(p)
      BY <1>5, <2>4 DEF Reliable
    <3>2. h \in 0 .. HoldSize - 1 /\ h # holdpos /\ holding'[h] = holding[h]
      BY <2>2, <2>4
    <3>3. t \in 0 .. NumNodes
      BY <3>2, TargetFacts
    <3>4. k \in 0 .. NumNodes - 1
      BY HomeFacts
    <3>5. IF h < holdpos THEN ~(t <= k /\ k < Progress) ELSE Progress <= k /\ k < t
      BY <3>1 DEF NotYetVisited
    <3>. HIDE DEF h, t, k
    <3>6. IF h < holdpos' THEN ~(t <= k /\ k < Progress') ELSE Progress' <= k /\ k < t
      BY <1>0, <1>3, <1>4, <3>2, <3>3, <3>4, <3>5
    <3>7. NotYetVisited(n, h, holdpos', Progress')
      BY <3>6 DEF NotYetVisited, h, t, k
    <3>. QED
      BY <3>1, <3>2, <3>7
  <2>5. Reliable(n, p)'
    BY <2>1, <2>4 DEF Reliable, ReadsHolding, NotYetVisited, nodestore!LtwTarget
  <2>. QED
    BY <2>3, <2>5
<1>. QED
  BY <1>2, <1>5

\* The node that is written is found at its new position.
LEMMA WriteNew ==
  ASSUME ~OneWrite, Schedule, NodesOK, pc = "ltws", todo = 0, pc' = "level",
         NEW b \in Data, NodeWrite(b), NEW n \in Node, NEW q,
         q = NodePosition(NodeInd(n), b)
  PROVE  /\ q \in nodestore!Pointer
         /\ Stored(n, q)' = b
         /\ Reliable(n, q)'
<1>. DEFINE k == NodeInd(n)
            BB == Branching * PtrBits
            mismatch == nodestore!MismatchBit(longterm[k], b)
            diffpos == IF mismatch = BB THEN 0 ELSE mismatch
            bitval == NodeBit(b, diffpos)
<1>0. NumNodes \in Nat \ {0} /\ HoldSize \in Nat \ {0} /\ BB \in Nat \ {0}
  BY NumNodesFact, TrieAssumption
<1>1. /\ holding' = [holding EXCEPT ![holdpos] = b]
      /\ holdpos' = IF holdpos + 1 = HoldSize THEN 0 ELSE holdpos + 1
      /\ UNCHANGED <<longterm, longpos>>
      /\ q = nodestore!Build(holdpos, diffpos, bitval)
      /\ holdpos \in 0 .. HoldSize - 1
  BY ProgressAtWrite DEF NodeWrite, nodestore!HoldingWrite, NodePosition, nodestore!NewPosition
<1>2. k \in 0 .. NumNodes - 1 /\ longterm[k] \in Data
  BY HomeFacts DEF NodesOK
<1>3. longterm[k] # b =>
        /\ mismatch \in 0 .. BB - 1
        /\ NodeBit(longterm[k], mismatch) # NodeBit(b, mismatch)
  BY <1>2, RingOK, ring!MismatchBitFact, SameStore DEF ring!BitIndex
<1>4. longterm[k] = b => mismatch = BB
  BY DEF nodestore!MismatchBit
<1>5. diffpos \in 0 .. BB - 1 /\ (longterm[k] # b => diffpos = mismatch)
  <2>1. 0 \in 0 .. BB - 1 /\ BB \notin 0 .. BB - 1
    BY <1>0
  <2>. HIDE DEF mismatch, BB, k
  <2>2. CASE longterm[k] = b
    BY <1>4, <2>1, <2>2
  <2>3. CASE longterm[k] # b
    BY <1>3, <2>1, <2>3
  <2>. QED
    BY <2>2, <2>3
<1>6. bitval \in {0, 1}
  BY <1>5, RingOK DEF ring!WoramAssumption, ring!BitIndex
<1>. HIDE DEF mismatch, diffpos, bitval, BB
<1>7. /\ q \in nodestore!Pointer
      /\ nodestore!GetHold(q) = holdpos
      /\ nodestore!GetBind(q) = diffpos
      /\ nodestore!GetBitval(q) = bitval
  <2>1. q \in nodestore!Pointer
    BY <1>1, <1>5, <1>6 DEF nodestore!Pointer, nodestore!Slot, nodestore!BitIndex, BB
  <2>2. holdpos \in ring!Slot /\ diffpos \in ring!BitIndex
    BY <1>1, <1>5 DEF ring!Slot, ring!BitIndex, BB
  <2>3. nodestore!Build(holdpos, diffpos, bitval) = ring!Build(holdpos, diffpos, bitval)
    BY DEF nodestore!Build, ring!Build
  <2>4. /\ ring!GetHold(q) = holdpos
        /\ ring!GetBind(q) = diffpos
        /\ ring!GetBitval(q) = bitval
    BY <1>1, <1>6, <2>2, <2>3, RingOK, ring!PointerRoundTrip
  <2>. QED
    BY <2>1, <2>4, SameStore
<1>8. q # Nptr /\ q # nodestore!NPtr /\ holding'[holdpos] = b
  BY <1>1, <1>7, PointerFacts DEF NodesOK
<1>9. ReadsHolding(n, q)' <=> longterm[k] # b
  <2>1. ReadsHolding(n, q)' <=> NodeBit(longterm[k], diffpos) # bitval
    BY <1>1, <1>7, <1>8 DEF ReadsHolding
  <2>2. longterm[k] = b => NodeBit(longterm[k], diffpos) = bitval
    BY DEF bitval
  <2>3. longterm[k] # b => NodeBit(longterm[k], diffpos) # bitval
    BY <1>3, <1>5 DEF bitval
  <2>. QED
    BY <2>1, <2>2, <2>3
<1>10. Stored(n, q)' = b
  <2>1. Stored(n, q)' = IF ReadsHolding(n, q)'
                        THEN holding'[nodestore!GetHold(q)] ELSE longterm'[k]
    BY <1>8 DEF Stored, NodeLoad, nodestore!Load, ReadsHolding
  <2>2. CASE longterm[k] # b
    BY <1>7, <1>8, <1>9, <2>1, <2>2
  <2>3. CASE longterm[k] = b
    BY <1>1, <1>9, <2>1, <2>3
  <2>. QED
    BY <2>2, <2>3
<1>11. NodeBit(holding'[holdpos], diffpos) = bitval
  BY <1>8 DEF bitval
<1>12. NotYetVisited(n, holdpos, holdpos', Progress')
  <2>1. Progress = nodestore!LtwTarget(holdpos)
    BY ProgressAtWrite
  <2>2. CASE holdpos = HoldSize - 1
    <3>1. holdpos' = 0 /\ Progress' = 0
      BY <1>0, <1>1, <2>2 DEF Progress
    <3>2. nodestore!LtwTarget(holdpos) = NumNodes
      BY <1>1, <2>2, TargetFacts
    <3>. QED
      BY <1>0, <1>1, <1>2, <3>1, <3>2 DEF NotYetVisited
  <2>3. CASE holdpos # HoldSize - 1
    <3>1. holdpos' = holdpos + 1 /\ holdpos' # 0 /\ holdpos' - 1 = holdpos
      BY <1>0, <1>1, <2>3
    <3>2. Progress' = nodestore!LtwTarget(holdpos)
      BY <3>1 DEF Progress, nodestore!LtwTarget
    <3>3. nodestore!LtwTarget(holdpos) \in 0 .. NumNodes
      BY <1>1, TargetFacts
    <3>. QED
      BY <1>0, <1>1, <1>2, <3>1, <3>2, <3>3 DEF NotYetVisited
  <2>. QED
    BY <2>2, <2>3
<1>13. Reliable(n, q)'
  BY <1>7, <1>11, <1>12 DEF Reliable, NotYetVisited, nodestore!LtwTarget
<1>. QED
  BY <1>7, <1>10, <1>13
-----------------------------------------------------------------------------
(***************************************************************************)
(* A node at which nodestore holds the node, and will go on doing so until *)
(* it is given up: of a OneWriteWoram any block that has been written.     *)
(***************************************************************************)
Good(n, pos) ==
  IF OneWrite THEN pos = Nptr \/ pos \in 0 .. holdpos - 1
  ELSE pos \in NodePositions /\ Reliable(n, pos)

\* Nodestore of either kind.
StoreOK ==
  /\ longterm \in [0 .. NumNodes - 1 -> Data]
  /\ longpos \in 0 .. NumNodes - 1
  /\ holding \in [0 .. HoldSize - 1 -> Data]
  /\ holdpos \in 0 .. HoldSize - (IF OneWrite THEN 0 ELSE 1)

InTurn ==
  IF OneWrite THEN pc = "ltws" => todo = 0 /\ level # 0 ELSE Schedule

CountersOK ==
  /\ request \in SUBSET [index : Leaf, buf : 0 .. MaxLeaf]
  /\ pc \in {"idle", "fetch", "level", "ltws"}
  /\ level \in Level
  /\ todo \in 0 .. NumNodes
  /\ contents \in [Leaf -> SUBSET (0 .. MaxLeaf \cup {Nptr})]
  /\ stores \in 0 .. MaxStores
  /\ pc = "idle" <=> request = {}
  /\ \A r, s \in request : r = s

Calls == InTurn /\ StoreOK /\ CachesOK /\ CountersOK

-----------------------------------------------------------------------------
\* The parts of TypeOK.
LEMMA CallsType == Calls => TypeOK
  BY NumNodesFact DEF Calls, TypeOK, StoreOK, CachesOK, CountersOK, Entry, NodeInd

\* Positions of leaves fit into the pointers of a node.
LEMMA LeafFits == 0 .. MaxLeaf \subseteq 0 .. Nptr
<1>1. 2 ^ PtrBits \in Nat \ {0}
  <2>1. PtrBits \in 0 .. PtrBits
    BY TrieAssumption
  <2>. QED
    BY <2>1, PowerFact
<1>. QED
  BY <1>1, TrieAssumption DEF Nptr

\* Positions in a OneWriteWoram do.
LEMMA LogFits ==
  ASSUME OneWrite
  PROVE  /\ HoldSize \in Nat \ {0}
         /\ \A p \in 0 .. HoldSize - 1 : p \in 0 .. Nptr /\ p # Nptr
<1>1. HoldSize \in Nat \ {0} /\ HoldSize - 1 < Nptr /\ Nptr \in Nat
  BY TrieAssumption, MaxInternAssumption, DataFacts
<1>. QED
  BY <1>1

\* The loop of ltws is that of a DetWoram.
LEMMA TurnNext == Calls /\ [Next]_vars => InTurn'
<1>. SUFFICES ASSUME Calls, [Next]_vars PROVE InTurn'
  OBVIOUS
<1>1. CASE ~OneWrite
  BY <1>1, NextSchedule DEF Calls, InTurn
<1>2. CASE OneWrite
  <2>1. ASSUME NEW index \in Leaf, Load(index) PROVE InTurn'
    BY <1>2, <2>1 DEF Load, Calls, InTurn
  <2>2. ASSUME NEW index \in Leaf, NEW pos \in 0 .. MaxLeaf, StoreCall(index, pos)
        PROVE  InTurn'
    BY <1>2, <2>2 DEF StoreCall, InTurn
  <2>3. CASE StoreFetch
    BY <1>2, <2>3 DEF StoreFetch, InTurn
  <2>4. CASE WriteBack
    BY <1>2, <2>4 DEF WriteBack, NodeTurns, InTurn
  <2>5. CASE Refresh
    BY <1>2, <2>5 DEF Refresh, Calls, InTurn
  <2>6. CASE WriteNode
    BY <1>2, <2>6 DEF WriteNode, InTurn
  <2>7. CASE DummyWrite
    BY <1>2, <2>7 DEF DummyWrite, InTurn
  <2>8. CASE StoreThrows
    BY <1>2, <2>8 DEF StoreThrows, InTurn
  <2>9. CASE StoreReturn
    BY <1>2, <2>9 DEF StoreReturn, InTurn
  <2>10. CASE UNCHANGED vars
    BY <1>2, <2>10 DEF vars, Calls, InTurn
  <2>. QED
    BY <2>1, <2>2, <2>3, <2>4, <2>5, <2>6, <2>7, <2>8, <2>9, <2>10 DEF Next
<1>. QED
  BY <1>1, <1>2

\* The number of turns.
LEMMA TurnsFit ==
  ASSUME Calls, WriteBack, InTurn'
  PROVE  todo' \in 0 .. NumNodes /\ (~OneWrite => Progress' = Progress)
<1>1. CASE OneWrite
  BY <1>1, NumNodesFact DEF WriteBack, NodeTurns
<1>2. CASE ~OneWrite
  <2>1. /\ UNCHANGED <<longpos, holdpos>>
        /\ pc = "level" /\ pc' = "ltws"
        /\ todo' = nodestore!LtwTarget(holdpos) - longpos
        /\ Schedule /\ Schedule'
    BY <1>2 DEF WriteBack, NodeTurns, nodestore!NumLtw, nodestoreVars, Calls, InTurn
  <2>2. longpos = Progress /\ Progress \in 0 .. NumNodes
    BY <2>1, LongPosProgress DEF Schedule
  <2>3. nodestore!LtwTarget(holdpos) \in 0 .. NumNodes
    BY <2>1, WritesNat, TargetFacts
  <2>4. Progress' = nodestore!LtwTarget(holdpos) - todo' /\ todo' \in Nat
    BY <2>1 DEF Progress, nodestore!LtwTarget, Schedule
  <2>. QED
    BY <2>1, <2>2, <2>3, <2>4, NumNodesFact
<1>. QED
  BY <1>1, <1>2

\* Counters, request and history stay in their ranges.
LEMMA CountersNext == Calls /\ [Next]_vars => CountersOK'
<1>. SUFFICES ASSUME Calls, [Next]_vars PROVE CountersOK'
  OBVIOUS
<1>0. CountersOK /\ InTurn'
  BY TurnNext DEF Calls
<1>1. ASSUME NEW index \in Leaf, Load(index) PROVE CountersOK'
  BY <1>0, <1>1 DEF Load, CountersOK
<1>2. ASSUME NEW index \in Leaf, NEW pos \in 0 .. MaxLeaf, StoreCall(index, pos)
      PROVE  CountersOK'
  <2>1. /\ request' = {[index |-> index, buf |-> pos]}
        /\ stores < MaxStores /\ stores' = stores + 1 /\ pc' = "fetch"
        /\ UNCHANGED <<level, todo, contents>>
    BY <1>2 DEF StoreCall
  <2>2. stores' \in 0 .. MaxStores
    BY <1>0, <2>1, TrieAssumption DEF CountersOK
  <2>3. /\ request' \in SUBSET [index : Leaf, buf : 0 .. MaxLeaf]
        /\ request' # {} /\ \A r, s \in request' : r = s
    BY <2>1
  <2>. QED
    BY <1>0, <2>1, <2>2, <2>3 DEF CountersOK
<1>3. CASE StoreFetch
  BY <1>0, <1>3, HeightFact DEF StoreFetch, CountersOK, Level
<1>4. CASE WriteBack
  BY <1>0, <1>4, TurnsFit DEF WriteBack, CountersOK
<1>5. CASE Refresh
  <2>1. todo' \in 0 .. NumNodes
    BY <1>0, <1>5, NumNodesFact DEF Refresh, CountersOK
  <2>. QED
    BY <1>0, <1>5, <2>1 DEF Refresh, CountersOK
<1>6. level \in Level /\ level # 0 => level - 1 \in Level
  BY HeightFact DEF Level
<1>7. pc = "ltws" => level # 0
  BY DEF Calls, InTurn, Schedule
<1>8. CASE WriteNode
  BY <1>0, <1>6, <1>7, <1>8 DEF WriteNode, CountersOK
<1>9. CASE DummyWrite
  BY <1>0, <1>6, <1>7, <1>9 DEF DummyWrite, CountersOK
<1>10. CASE StoreThrows
  <2>1. contents' \in [Leaf -> SUBSET (0 .. MaxLeaf \cup {Nptr})]
    BY <1>0, <1>10 DEF StoreThrows, Refused, CountersOK
  <2>. QED
    BY <1>0, <1>10, <2>1 DEF StoreThrows, CountersOK
<1>11. CASE StoreReturn
  <2>1. contents' \in [Leaf -> SUBSET (0 .. MaxLeaf \cup {Nptr})]
    BY <1>0, <1>11 DEF StoreReturn, Acknowledged, CountersOK
  <2>. QED
    BY <1>0, <1>11, <2>1 DEF StoreReturn, CountersOK
<1>12. CASE UNCHANGED vars
  BY <1>0, <1>12 DEF vars, CountersOK
<1>. QED
  BY <1>1, <1>2, <1>3, <1>4, <1>5, <1>8, <1>9, <1>10, <1>11, <1>12 DEF Next
-----------------------------------------------------------------------------
\* Nodestore has not been called.
LEMMA GoodSame ==
  ASSUME Calls, UNCHANGED nodestoreVars,
         UNCHANGED <<pc, todo>> \/ (pc # "ltws" /\ pc' # "ltws")
           \/ (WriteBack /\ InTurn')
  PROVE  /\ StoreOK'
         /\ \A n, p : Stored(n, p)' = Stored(n, p)
         /\ \A n, p : Good(n, p)' <=> Good(n, p)
<1>1. \A n, p : Stored(n, p)' = Stored(n, p)
  BY StoredSame
<1>2. StoreOK'
  BY DEF Calls, StoreOK, nodestoreVars
<1>3. CASE OneWrite
  BY <1>1, <1>2, <1>3 DEF Good, nodestoreVars
<1>4. CASE ~OneWrite
  <2>1. Progress' = Progress
    BY <1>4, TurnsFit DEF Progress, nodestoreVars, nodestore!LtwTarget
  <2>2. \A n, p : Reliable(n, p)' <=> Reliable(n, p)
    BY <2>1 DEF nodestoreVars, Reliable, ReadsHolding, NotYetVisited,
                nodestore!LtwTarget
  <2>. QED
    BY <1>1, <1>2, <1>4, <2>2 DEF Good
<1>. QED
  BY <1>3, <1>4

\* The write that ends a turn leaves all nodes that have been written.
LEMMA GoodWrite ==
  ASSUME Calls, pc = "ltws", todo = 0, pc' = "level",
         NEW b \in Data, NodeWrite(b)
  PROVE  /\ StoreOK'
         /\ \A n \in Node : \A p : Good(n, p) => Stored(n, p)' = Stored(n, p) /\ Good(n, p)'
<1>1. CASE OneWrite
  <2>1. /\ holdpos \in 0 .. HoldSize - 1
        /\ holding' = [holding EXCEPT ![holdpos] = b] /\ holdpos' = holdpos + 1
        /\ UNCHANGED <<longterm, longpos>>
    BY <1>1, LogFits DEF NodeWrite, onewrite!WriteBlock, onewrite!MaxWrites, Calls, StoreOK
  <2>2. StoreOK'
    BY <1>1, <2>1, LogFits DEF Calls, StoreOK
  <2>3. ASSUME NEW n \in Node, NEW p, Good(n, p)
        PROVE  Stored(n, p)' = Stored(n, p) /\ Good(n, p)'
    <3>1. CASE p = Nptr
      BY <1>1, <3>1 DEF Stored, Good
    <3>2. CASE p # Nptr
      <4>1. p \in 0 .. holdpos - 1
        BY <1>1, <2>3, <3>2 DEF Good
      <4>2. p \in 0 .. HoldSize - 1 /\ p # holdpos /\ p \in 0 .. holdpos' - 1
        BY <2>1, <4>1, <1>1, LogFits
      <4>3. holding'[p] = holding[p]
        BY <2>1, <4>2 DEF Calls, StoreOK
      <4>. QED
        BY <1>1, <4>2, <4>3 DEF Stored, NodeLoad, onewrite!LoadBlock, Good
    <3>. QED
      BY <3>1, <3>2
  <2>. QED
    BY <2>2, <2>3
<1>2. CASE ~OneWrite
  <2>1. NodesOK /\ Schedule
    BY <1>2 DEF Calls, StoreOK, NodesOK, InTurn
  <2>2. /\ NodesOK'
        /\ \A n \in Node, p \in NodePositions :
             Reliable(n, p) => Stored(n, p)' = Stored(n, p) /\ Reliable(n, p)'
    BY <1>2, <2>1, WriteNodes
  <2>3. StoreOK'
    BY <1>2, <2>2 DEF NodesOK, StoreOK
  <2>. QED
    BY <1>2, <2>2, <2>3 DEF Good
<1>. QED
  BY <1>1, <1>2

\* The node that has been written is good at its new position.
LEMMA GoodNew ==
  ASSUME Calls, pc = "ltws", todo = 0, pc' = "level",
         NEW b \in Data, NodeWrite(b), NEW n \in Node, NEW q,
         q = NodePosition(NodeInd(n), b)
  PROVE  /\ q \in 0 .. Nptr
         /\ Stored(n, q)' = b
         /\ Good(n, q)'
<1>1. CASE OneWrite
  <2>1. /\ holdpos \in 0 .. HoldSize - 1 /\ q = holdpos
        /\ holding' = [holding EXCEPT ![holdpos] = b] /\ holdpos' = holdpos + 1
    BY <1>1, LogFits DEF NodeWrite, NodePosition, onewrite!WriteBlock,
                         onewrite!MaxWrites, Calls, StoreOK
  <2>2. q \in 0 .. Nptr /\ q # Nptr /\ q \in 0 .. holdpos' - 1
    BY <1>1, <2>1, LogFits
  <2>3. holding'[q] = b
    BY <2>1 DEF Calls, StoreOK
  <2>. QED
    BY <1>1, <2>2, <2>3 DEF Stored, NodeLoad, onewrite!LoadBlock, Good
<1>2. CASE ~OneWrite
  <2>1. NodesOK /\ Schedule
    BY <1>2 DEF Calls, StoreOK, NodesOK, InTurn
  <2>2. q \in nodestore!Pointer /\ Stored(n, q)' = b /\ Reliable(n, q)'
    BY <1>2, <2>1, WriteNew
  <2>. QED
    BY <1>2, <2>2, PointerFacts DEF Good, NodePositions
<1>. QED
  BY <1>1, <1>2
-----------------------------------------------------------------------------
(***************************************************************************)
(* While no write-back has been broken off there is a map D of the data of *)
(* all nodes with which caches, nodestore and contents agree.  While a     *)
(* path is written back, its nodes above the level that has been reached   *)
(* need not be in nodestore yet.                                           *)
(***************************************************************************)
Clean(D) ==
  \A n \in Node : pc \in {"idle", "fetch"} \/ Depth(n) > level =>
    D[n] = Stored(n, Pos(D, n))

Placement(D) == \A n \in Node : Good(n, Pos(D, n))

Leaves(D) ==
  \A index \in Leaf :
    LET current == {r \in request : pc # "fetch" /\ r.index = index}
    IN  Pos(D, index) \in
          IF current # {} THEN {r.buf : r \in current} ELSE contents[index]

Whole(D) ==
  /\ CacheInv(D) /\ Clean(D) /\ Placement(D) /\ Leaves(D)
  /\ pc \in {"idle", "fetch"} => Aside

SomeWhole == \E D : Whole(D)

-----------------------------------------------------------------------------
\* Steps that touch neither nodestore nor the caches.
LEMMA WholeSame ==
  ASSUME Calls, NEW D, Whole(D),
         UNCHANGED <<nodestoreVars, writecache, readcache, rcsplit>>,
         (/\ \A n, p : Stored(n, p)' = Stored(n, p)
          /\ \A n, p : Good(n, p)' <=> Good(n, p)),
         level' = level \/ pc \in {"idle", "fetch"},
         pc \in {"idle", "fetch"} <=> pc' \in {"idle", "fetch"},
         Leaves(D)'
  PROVE  CachesOK' /\ SomeWhole'
<1>1. CachesOK' /\ CacheInv(D)'
  BY QuietCaches DEF Calls, Whole
<1>2. Clean(D)' /\ Placement(D)'
  BY DEF Whole, Clean, Placement
<1>3. pc' \in {"idle", "fetch"} => Aside'
  BY DEF Whole, Aside
<1>. QED
  BY <1>1, <1>2, <1>3 DEF SomeWhole, Whole

\* Look-ups need D only.
LEMMA ReadWhole ==
  ASSUME Calls, NEW D, Whole(D), NEW i \in 1 .. LastIndex,
         RememberRead(FetchRead(i)), UNCHANGED writecache,
         \A n \in Node : Stored(n, Pos(D, n))' = Stored(n, Pos(D, n))
  PROVE  CachesOK' /\ CacheInv(D)' /\ (Aside => Aside')
<1>1. CachesOK /\ CacheInv(D)
  BY DEF Calls, Whole
<1>3. WriteChain /\ ReadChain /\ Reaches(Only(D)) /\ (Aside => ReadIn(Only(D)))
  BY <1>1 DEF CacheInv
<1>4. readcache' = FetchRead(i).readcache /\ rcsplit' = FetchRead(i).rcsplit
      /\ writecache' = writecache
  BY DEF RememberRead
<1>5. /\ CachesOK' /\ ReadChain'
      /\ Aside' => ReadIn(Only(D))'
      /\ Aside => Aside'
  BY <1>1, <1>3, <1>4, FetchReadKeeps
<1>6. CacheInv(D)'
  BY <1>1, <1>4, <1>5, QuietCaches
<1>. QED
  BY <1>5, <1>6

\* TriePM::load.
LEMMA LoadWhole ==
  ASSUME Calls, NEW D, Whole(D), NEW index \in Leaf, Load(index)
  PROVE  StoreOK' /\ CachesOK' /\ SomeWhole'
<1>2. /\ RememberRead(FetchRead(index))
      /\ UNCHANGED <<nodestoreVars, writecache, request, pc, level, todo,
                     contents, stores>>
      /\ index \in 1 .. LastIndex
  BY IndexFacts DEF Load
<1>4. /\ StoreOK'
      /\ \A n, p : Stored(n, p)' = Stored(n, p)
      /\ \A n, p : Good(n, p)' <=> Good(n, p)
  BY <1>2, GoodSame
<1>5. CachesOK' /\ CacheInv(D)' /\ (Aside => Aside')
  BY <1>2, <1>4, ReadWhole
<1>7. Clean(D)' /\ Placement(D)' /\ Leaves(D)'
  BY <1>2, <1>4 DEF Whole, Clean, Placement, Leaves
<1>. QED
  BY <1>2, <1>4, <1>5, <1>7 DEF SomeWhole, Whole

\* A call of TriePM::store.
LEMMA CallWhole ==
  ASSUME Calls, NEW D, Whole(D), NEW index \in Leaf, NEW pos \in 0 .. MaxLeaf,
         StoreCall(index, pos)
  PROVE  StoreOK' /\ CachesOK' /\ SomeWhole'
<1>2. /\ UNCHANGED <<nodestoreVars, writecache, readcache, rcsplit, level, todo,
                     contents>>
      /\ pc = "idle" /\ pc' = "fetch"
  BY DEF StoreCall
<1>4. /\ StoreOK'
      /\ \A n, p : Stored(n, p)' = Stored(n, p)
      /\ \A n, p : Good(n, p)' <=> Good(n, p)
  BY <1>2, GoodSame
<1>9. Leaves(D)'
  <2>1. \A i \in Leaf : Pos(D, i) \in contents[i]
    BY <1>2 DEF Whole, Leaves, Calls, CountersOK
  <2>. QED
    BY <1>2, <2>1 DEF Leaves
<1>. QED
  BY <1>2, <1>4, <1>9, WholeSame

\* A call of nodestore.
LEMMA WriteBackWhole ==
  ASSUME Calls, NEW D, Whole(D), InTurn', WriteBack
  PROVE  StoreOK' /\ CachesOK' /\ SomeWhole'
<1>2. /\ UNCHANGED <<nodestoreVars, writecache, readcache, rcsplit, level,
                     contents, request>>
      /\ pc = "level" /\ pc' = "ltws"
  BY DEF WriteBack
<1>4. /\ StoreOK'
      /\ \A n, p : Stored(n, p)' = Stored(n, p)
      /\ \A n, p : Good(n, p)' <=> Good(n, p)
  BY <1>2, GoodSame
<1>9. Leaves(D)'
  BY <1>2 DEF Whole, Leaves
<1>. QED
  BY <1>2, <1>4, <1>9, WholeSame

\* Stuttering.
LEMMA StutterWhole ==
  ASSUME Calls, NEW D, Whole(D), UNCHANGED vars
  PROVE  StoreOK' /\ CachesOK' /\ SomeWhole'
<1>2. /\ UNCHANGED <<nodestoreVars, writecache, readcache, rcsplit, level, todo,
                     contents, request, pc>>
  BY DEF vars, nodestoreVars
<1>4. /\ StoreOK'
      /\ \A n, p : Stored(n, p)' = Stored(n, p)
      /\ \A n, p : Good(n, p)' <=> Good(n, p)
  BY <1>2, GoodSame
<1>9. Leaves(D)'
  BY <1>2 DEF Whole, Leaves
<1>. QED
  BY <1>2, <1>4, <1>9, WholeSame

\* The path is fetched, and the position set.
LEMMA FetchWhole ==
  ASSUME Calls, NEW D, Whole(D), StoreFetch
  PROVE  StoreOK' /\ CachesOK' /\ SomeWhole'
<1>1. PICK r \in request :
        writecache' = [FetchWrite(r.index) EXCEPT
            ![Len(PathTo[r.index]) - 1].data[WhichChild(r.index)] = r.buf]
  BY DEF StoreFetch
<1>2. /\ UNCHANGED <<nodestoreVars, readcache, rcsplit, request, contents>>
      /\ UNCHANGED nodestoreVars /\ UNCHANGED <<readcache, rcsplit>>
      /\ pc = "fetch" /\ pc' = "level" /\ level' = Height
  BY DEF StoreFetch
<1>. DEFINE i == r.index
            E == Placed(D, i, r.buf)
<1>3. /\ i \in Leaf /\ i \in 1 .. LastIndex /\ i \notin Node
      /\ r.buf \in 0 .. Nptr
      /\ \A s \in request : s = r
  BY <1>1, IndexFacts, LeafFits DEF Calls, CountersOK
<1>4. /\ StoreOK'
      /\ \A n, p : Stored(n, p)' = Stored(n, p)
      /\ \A n, p : Good(n, p)' <=> Good(n, p)
  BY <1>2, GoodSame
<1>5. CachesOK /\ CacheInv(D) /\ Aside /\ D \in [AnyNode -> Data]
      /\ \A n \in Node : D[n] = Stored(n, Pos(D, n))
  BY <1>2 DEF Calls, Whole, Clean, CacheInv
<1>7. CachesOK' /\ CacheInv(E)'
  BY <1>1, <1>2, <1>3, <1>5, FetchCaches
<1>8. /\ E \in [AnyNode -> Data]
      /\ Pos(E, i) = r.buf
      /\ \A j \in 1 .. LastIndex : j # i => Pos(E, j) = Pos(D, j)
  BY <1>3, <1>5, PlacedFacts
<1>. HIDE DEF E
<1>10. Clean(E)'
  <2>1. \A n \in Node : ~(Depth(n) > Height)
    BY DepthFacts, IndexFacts, HeightFact, NumNodesFact DEF Level
  <2>. QED
    BY <1>2, <2>1 DEF Clean
<1>11. Placement(E)'
  <2>1. \A n \in Node : n \in 1 .. LastIndex /\ n # i
    BY <1>3, <1>5, OnlyFacts
  <2>. QED
    BY <1>4, <1>8, <2>1 DEF Whole, Placement
<1>12. Leaves(E)'
  <2>. SUFFICES ASSUME NEW j \in Leaf
                PROVE  LET current == {s \in request : s.index = j}
                       IN  Pos(E, j) \in
                             IF current # {} THEN {s.buf : s \in current}
                             ELSE contents[j]
    BY <1>2 DEF Leaves
  <2>1. CASE j = i
    BY <1>1, <1>8, <2>1
  <2>2. CASE j # i
    <3>1. {s \in request : s.index = j} = {}
      BY <1>3, <2>2
    <3>2. Pos(D, j) \in contents[j]
      BY <1>2 DEF Whole, Leaves
    <3>. QED
      BY <1>8, <2>2, <3>1, <3>2, IndexFacts
  <2>. QED
    BY <2>1, <2>2
<1>. QED
  BY <1>2, <1>4, <1>7, <1>10, <1>11, <1>12 DEF SomeWhole, Whole

\* The refresh of a node.
LEMMA RefreshWhole ==
  ASSUME Calls, NEW D, Whole(D), Refresh
  PROVE  StoreOK' /\ CachesOK' /\ SomeWhole'
<1>. DEFINE x == longpos + 1
            P == [n \in Node |-> Pos(D, n)]
<1>2. /\ RememberRead(FetchRead(x))
      /\ nodestore!LongTermWrite(IF FetchRead(x).pos = Nptr THEN nodestore!NPtr
                                 ELSE FetchRead(x).pos)
      /\ pc = "ltws" /\ todo # 0 /\ todo' = todo - 1
      /\ UNCHANGED <<writecache, request, pc, level, contents, stores>>
  BY DEF Refresh
<1>3. ~OneWrite /\ Schedule /\ NodesOK
  BY <1>2 DEF Calls, InTurn, StoreOK, NodesOK
<1>4. Progress < NumNodes /\ longpos = Progress /\ Progress \in 0 .. NumNodes
      /\ NumNodes \in Nat
  BY <1>2, <1>3, LongPosProgress, NumNodesFact DEF Schedule
<1>5. x \in Node /\ x \in 1 .. LastIndex /\ Progress \in 0 .. NumNodes - 1
  <2>1. x \in Node /\ Progress \in 0 .. NumNodes - 1
    BY <1>4 DEF Node
  <2>. QED
    BY <2>1, OnlyFacts DEF Whole, CacheInv
<1>6. FetchRead(x).pos = P[x]
  BY <1>5, FetchReadParts, ReadIs DEF Calls, Whole
<1>7. Progress' = Progress + 1
  <2>1. holdpos' = holdpos
    BY <1>2 DEF nodestore!LongTermWrite
  <2>2. nodestore!LtwTarget(holdpos) \in 0 .. NumNodes /\ todo \in 0 .. NumNodes
    BY <1>3, WritesNat, TargetFacts DEF Calls, CountersOK
  <2>3. Progress' = nodestore!LtwTarget(holdpos) - todo'
    BY <1>2, <2>1 DEF Progress, nodestore!LtwTarget
  <2>. QED
    BY <1>2, <1>4, <2>2, <2>3 DEF Progress
<1>9. \A n \in Node : P[n] \in NodePositions /\ Reliable(n, P[n])
  BY <1>3 DEF Whole, Placement, Good
<1>10. /\ NodesOK'
       /\ \A n \in Node : Stored(n, P[n])' = Stored(n, P[n]) /\ Reliable(n, P[n])'
  <2>1. nodestore!LongTermWrite(IF P[longpos + 1] = Nptr THEN nodestore!NPtr
                                ELSE P[longpos + 1])
    BY <1>2, <1>6
  <2>. HIDE DEF P
  <2>. QED
    BY <1>3, <1>4, <1>5, <1>7, <1>9, <2>1, RefreshNodes
<1>11. \A n \in Node : /\ Stored(n, Pos(D, n))' = Stored(n, Pos(D, n))
                       /\ Good(n, Pos(D, n))'
  BY <1>3, <1>9, <1>10 DEF Good
<1>12. CachesOK' /\ CacheInv(D)'
  BY <1>2, <1>5, <1>11, ReadWhole
<1>13. StoreOK'
  BY <1>3, <1>10 DEF NodesOK, StoreOK
<1>14. Clean(D)' /\ Placement(D)' /\ Leaves(D)'
  BY <1>2, <1>11 DEF Whole, Clean, Placement, Leaves
<1>. QED
  BY <1>2, <1>12, <1>13, <1>14 DEF SomeWhole, Whole

\* The end of a store.
LEMMA ReturnWhole ==
  ASSUME Calls, NEW D, Whole(D), StoreReturn
  PROVE  /\ StoreOK' /\ CachesOK'
         /\ Whole(D)'
         /\ \A l \in Level : ~ReadConnected(l)'
         /\ \A i \in Leaf : Pos(D, i) \in contents'[i]
<1>2. /\ UNCHANGED <<nodestoreVars, writecache, level, todo, stores>>
      /\ pc = "level" /\ pc' = "idle" /\ level = 0
      /\ rcsplit' = 1
      /\ readcache' = [readcache EXCEPT ![1] = Empty]
      /\ contents' = Acknowledged
      /\ request' = {}
  BY DEF StoreReturn
<1>4. /\ StoreOK'
      /\ \A n, p : Stored(n, p)' = Stored(n, p)
      /\ \A n, p : Good(n, p)' <=> Good(n, p)
  BY <1>2, GoodSame
<1>5. CachesOK /\ CacheInv(D) /\ D \in [AnyNode -> Data]
  BY DEF Calls, Whole, CacheInv
<1>6. 1 \in Level /\ 1 \in 1 .. Height
  BY HeightFact, NumNodesFact DEF Level
<1>7. readcache'[1].index = NullInd
  BY <1>2, <1>5, <1>6 DEF CachesOK, Empty
<1>8. CachesOK'
  <2>1. Empty \in Entry
    BY DataFacts DEF Empty, Entry
  <2>. QED
    BY <1>2, <1>5, <1>6, <2>1 DEF CachesOK
<1>9. Aside'
  BY <1>2, <1>7 DEF Aside
<1>10. \A l \in Level : ~ReadConnected(l)'
  BY <1>2, <1>7, HeightFact DEF ReadConnected, Level
<1>11. CacheInv(D)'
  <2>1. ReadChain' /\ ReadIn(Only(D))'
    BY <1>10 DEF ReadChain, ReadIn
  <2>. QED
    BY <1>2, <1>4, <1>5, <1>8, <2>1, QuietCaches
<1>12. \A i \in Leaf : Pos(D, i) \in Acknowledged[i]
  <2>. SUFFICES ASSUME NEW i \in Leaf PROVE Pos(D, i) \in Acknowledged[i]
    OBVIOUS
  <2>1. Pos(D, i) \in IF {r \in request : r.index = i} # {}
                      THEN {r.buf : r \in {s \in request : s.index = i}}
                      ELSE contents[i]
    <3>1. {r \in request : pc # "fetch" /\ r.index = i} = {r \in request : r.index = i}
      BY <1>2
    <3>. QED
      BY <3>1 DEF Whole, Leaves
  <2>. QED
    BY <2>1 DEF Acknowledged
<1>15. Clean(D)'
  <2>1. \A n \in Node : Depth(n) > level
    BY <1>2, <1>5, OnlyFacts, PathLevels, HeightFact
  <2>. QED
    BY <1>2, <1>4, <2>1 DEF Whole, Clean
<1>16. Placement(D)'
  BY <1>2, <1>4 DEF Whole, Placement
<1>17. Leaves(D)'
  BY <1>2, <1>12 DEF Leaves
<1>. QED
  BY <1>2, <1>4, <1>8, <1>9, <1>10, <1>11, <1>12, <1>15, <1>16, <1>17 DEF Whole
-----------------------------------------------------------------------------
\* The store of a node, and of its position in the parent.
LEMMA WriteNodeWhole ==
  ASSUME Calls, NEW D, Whole(D), WriteNode
  PROVE  StoreOK' /\ CachesOK' /\ SomeWhole'
<1>. DEFINE entry == writecache[level]
<1>2. /\ pc = "ltws" /\ todo = 0 /\ pc' = "level" /\ level' = level - 1
      /\ entry.index # NullInd
      /\ NodeWrite(entry.data)
      /\ writecache' =
           [writecache EXCEPT ![level - 1].data[WhichChild(entry.index)] =
              NodePosition(NodeInd(entry.index), entry.data)]
      /\ UNCHANGED <<readcache, rcsplit, request, todo, contents, stores>>
  BY DEF WriteNode
<1>3. level \in 1 .. Height /\ level \in Level /\ level - 1 \in Level
  BY <1>2, HeightFact, NumNodesFact DEF Calls, CountersOK, InTurn, Schedule, Level
<1>4. CachesOK /\ CacheInv(D) /\ D \in [AnyNode -> Data] /\ WriteChain
  BY DEF Calls, Whole, CacheInv
<1>5. /\ \A l \in Level : (l = 0 \/ writecache[l].index # NullInd) =>
           writecache[l].data = D[writecache[l].index]
      /\ \A n \in Node : ~InWrite(n) => Stored(n, Pos(D, n)) = D[n]
  BY <1>4, ReachesOnly DEF CacheInv
<1>6. PICK n \in Node : n = entry.index
  BY <1>2, <1>3, <1>4 DEF CachesOK, Entry
<1>7. PICK b \in Data : b = D[n] /\ b = entry.data
  BY <1>2, <1>4, <1>3, <1>5, <1>6, OnlyFacts
<1>8. PICK q : q = NodePosition(NodeInd(n), b)
  OBVIOUS
<1>9. /\ writecache[level].index = n /\ NodeWrite(b)
      /\ writecache' = [writecache EXCEPT ![level - 1].data[WhichChild(n)] = q]
  BY <1>2, <1>6, <1>7, <1>8
<1>. HIDE DEF entry
<1>11. q \in 0 .. Nptr /\ Stored(n, q)' = b /\ Good(n, q)'
  BY <1>2, <1>8, <1>9, GoodNew
<1>12. /\ StoreOK'
       /\ \A m \in Node : /\ Stored(m, Pos(D, m))' = Stored(m, Pos(D, m))
                          /\ Good(m, Pos(D, m))'
  <2>1. /\ StoreOK'
        /\ \A m \in Node : \A p : Good(m, p) => Stored(m, p)' = Stored(m, p) /\ Good(m, p)'
    BY <1>2, <1>9, GoodWrite
  <2>2. \A m \in Node : Good(m, Pos(D, m))
    BY DEF Whole, Placement
  <2>. QED
    BY <2>1, <2>2
<1>. DEFINE E == Placed(D, n, q)
<1>13. /\ CachesOK' /\ CacheInv(E)'
  BY <1>2, <1>3, <1>4, <1>9, <1>11, <1>12, WriteCaches
<1>14. /\ n \in 1 .. LastIndex /\ n \in AnyNode
       /\ \A m \in Node : m \in 1 .. LastIndex /\ m \in AnyNode
       /\ \A m \in Leaf : m \in 1 .. LastIndex /\ m # n
  BY <1>4, OnlyFacts, IndexFacts
<1>15. /\ E \in [AnyNode -> Data]
       /\ \A m \in AnyNode : m # ParentOf(n) => E[m] = D[m]
       /\ Pos(E, n) = q
       /\ \A j \in 1 .. LastIndex : j # n => Pos(E, j) = Pos(D, j)
  BY <1>4, <1>11, <1>14, PlacedFacts
<1>. HIDE DEF E
<1>16. Depth(n) = level /\ Depth(ParentOf(n)) = level - 1
  <2>1. Depth(n) = level
    BY <1>3, <1>4, <1>9, WriteLevel
  <2>2. CASE level = 1
    <3>1. ParentOf(n) = 0
      BY <1>14, <2>1, <2>2, PathLevels
    <3>. QED
      BY <2>1, <2>2, <3>1, DepthFacts, IndexFacts
  <2>3. CASE level # 1
    <3>1. level - 1 \in 1 .. Depth(n) - 1 /\ level - 1 + 1 = Depth(n)
      BY <1>3, <2>1, <2>3, HeightFact, NumNodesFact
    <3>2. Depth(PathTo[n][level - 1 + 1]) = level - 1
      BY <1>14, <3>1, PathLevels
    <3>3. PathTo[n][Depth(n)] = ParentOf(n)
      BY <1>14, PathLevels
    <3>. QED
      BY <2>1, <3>1, <3>2, <3>3
  <2>. QED
    BY <2>1, <2>2, <2>3
<1>17. Clean(E)'
  <2>. SUFFICES ASSUME NEW m \in Node, Depth(m) > level - 1
                PROVE  E[m] = Stored(m, Pos(E, m))'
    BY <1>2 DEF Clean
  <2>1. m # ParentOf(n) /\ E[m] = D[m]
    BY <1>3, <1>14, <1>15, <1>16, HeightFact, NumNodesFact
  <2>2. CASE m = n
    BY <1>7, <1>11, <1>15, <2>1, <2>2
  <2>3. CASE m # n
    <3>1. Pos(E, m) = Pos(D, m) /\ Stored(m, Pos(D, m))' = Stored(m, Pos(D, m))
      BY <1>12, <1>14, <1>15, <2>3
    <3>2. Depth(m) \in Level
      BY <1>14, DepthFacts
    <3>3. D[m] = Stored(m, Pos(D, m))
      <4>1. CASE Depth(m) > level
        BY <1>2, <4>1 DEF Whole, Clean
      <4>2. CASE Depth(m) = level
        <5>1. ~InWrite(m)
          <6>. SUFFICES ASSUME NEW l \in Level, writecache[l].index = m
                        PROVE  FALSE
            BY DEF InWrite
          <6>1. Depth(m) = l
            BY <1>4, WriteLevel
          <6>. QED
            BY <1>9, <2>3, <4>2, <6>1
        <5>. QED
          BY <1>5, <5>1
      <4>. QED
        BY <1>3, <3>2, <4>1, <4>2, HeightFact, NumNodesFact DEF Level
    <3>. QED
      BY <2>1, <3>1, <3>3
  <2>. QED
    BY <2>2, <2>3
<1>18. Placement(E)'
  <2>. SUFFICES ASSUME NEW m \in Node
                PROVE  Good(m, Pos(E, m))'
    BY DEF Placement
  <2>1. CASE m = n
    BY <1>11, <1>15, <2>1
  <2>2. CASE m # n
    BY <1>12, <1>14, <1>15, <2>2
  <2>. QED
    BY <2>1, <2>2
<1>19. Leaves(E)'
  BY <1>2, <1>14, <1>15 DEF Whole, Leaves
<1>. QED
  BY <1>2, <1>12, <1>13, <1>17, <1>18, <1>19 DEF SomeWhole, Whole

\* A dummy write.
LEMMA DummyWhole ==
  ASSUME Calls, NEW D, Whole(D), DummyWrite
  PROVE  StoreOK' /\ CachesOK' /\ SomeWhole'
<1>2. /\ pc = "ltws" /\ todo = 0 /\ pc' = "level" /\ level' = level - 1
      /\ writecache[level].index = NullInd
      /\ NodeWrite([c \in Which |-> 0])
      /\ UNCHANGED <<writecache, readcache, rcsplit, request, todo, contents,
                     stores>>
  BY DEF DummyWrite
<1>3. level \in 1 .. Height /\ level \in Level /\ level - 1 \in Level
  BY <1>2, HeightFact, NumNodesFact DEF Calls, CountersOK, InTurn, Schedule, Level
<1>4. CachesOK /\ CacheInv(D) /\ D \in [AnyNode -> Data] /\ WriteChain
  BY DEF Calls, Whole, CacheInv
<1>5. \A n \in Node : ~InWrite(n) => Stored(n, Pos(D, n)) = D[n]
  BY <1>4, ReachesOnly DEF CacheInv
<1>6. /\ StoreOK'
      /\ \A m \in Node : /\ Stored(m, Pos(D, m))' = Stored(m, Pos(D, m))
                         /\ Good(m, Pos(D, m))'
  <2>1. /\ StoreOK'
        /\ \A m \in Node : \A p : Good(m, p) => Stored(m, p)' = Stored(m, p) /\ Good(m, p)'
    BY <1>2, DataFacts, GoodWrite
  <2>2. \A m \in Node : Good(m, Pos(D, m))
    BY DEF Whole, Placement
  <2>. QED
    BY <2>1, <2>2
<1>7. CachesOK' /\ CacheInv(D)'
  BY <1>2, <1>4, <1>6, QuietCaches
<1>8. Clean(D)'
  <2>. SUFFICES ASSUME NEW m \in Node, Depth(m) > level - 1
                PROVE  D[m] = Stored(m, Pos(D, m))
    BY <1>2, <1>6 DEF Clean
  <2>1. Depth(m) \in Level
    BY <1>4, OnlyFacts, DepthFacts
  <2>2. CASE Depth(m) > level
    BY <1>2, <2>2 DEF Whole, Clean
  <2>3. CASE Depth(m) = level
    <3>1. ~InWrite(m)
      <4>. SUFFICES ASSUME NEW l \in Level, writecache[l].index = m
                    PROVE  FALSE
        BY DEF InWrite
      <4>1. Depth(m) = l
        BY <1>4, WriteLevel
      <4>2. m # NullInd
        BY IndexFacts DEF NullInd
      <4>. QED
        BY <1>2, <2>3, <4>1, <4>2
    <3>. QED
      BY <1>5, <3>1
  <2>. QED
    BY <1>3, <2>1, <2>2, <2>3, HeightFact, NumNodesFact DEF Level
<1>9. Placement(D)' /\ Leaves(D)'
  BY <1>2, <1>6 DEF Whole, Placement, Leaves
<1>. QED
  BY <1>2, <1>6, <1>7, <1>8, <1>9 DEF SomeWhole, Whole
-----------------------------------------------------------------------------
(***************************************************************************)
(* A OneWriteWoram may break off a write-back, and then one map of data is *)
(* not enough: C says which versions of every node there are.  None of     *)
(* them points to a block that has not been written, and no leaf has a     *)
(* position that may not be loaded.                                        *)
(***************************************************************************)
Offers(index) ==
  contents[index] \cup {r.buf : r \in {q \in request : pc # "fetch" /\ q.index = index}}

Kept(C) ==
  \A n \in Node : \A p \in Answers(C, n) : Good(n, p) /\ Stored(n, p) \in C[n]

Cached(C) ==
  \A l \in Level : (l = 0 \/ writecache[l].index # NullInd) =>
    writecache[l].data \in C[writecache[l].index]

Offered(C) == \A index \in Leaf : Answers(C, index) \subseteq Offers(index)

Versions(C) ==
  /\ C \in [AnyNode -> SUBSET Data]
  /\ WriteChain /\ ReadChain /\ ReadIn(C)
  /\ Cached(C) /\ Kept(C) /\ Offered(C)

SomeVersions == \E C : Versions(C)

\* C once there is a version of the parent of i that has q for it.
Extended(C, i, q) ==
  [C EXCEPT ![ParentOf(i)] = @ \cup {With(d, WhichChild(i), q) : d \in @}]

\* The versions that are added, and what they answer.
LEMMA ExtendedFacts ==
  ASSUME NEW C \in [AnyNode -> SUBSET Data], NEW i \in 1 .. LastIndex,
         NEW q \in 0 .. Nptr
  PROVE  /\ Extended(C, i, q) \in [AnyNode -> SUBSET Data]
         /\ \A n \in AnyNode : C[n] \subseteq Extended(C, i, q)[n]
         /\ \A d \in C[ParentOf(i)] :
              With(d, WhichChild(i), q) \in Extended(C, i, q)[ParentOf(i)]
         /\ Answers(Extended(C, i, q), i) \subseteq Answers(C, i) \cup {q}
         /\ \A j \in 1 .. LastIndex : j # i =>
              Answers(Extended(C, i, q), j) \subseteq Answers(C, j)
<1>. DEFINE p == ParentOf(i)
            c == WhichChild(i)
            E == Extended(C, i, q)
<1>1. p \in AnyNode /\ c \in Which
  BY ParentFacts
<1>2. ASSUME NEW d \in C[p]
      PROVE  /\ With(d, c, q) \in Data /\ d \in Data
             /\ With(d, c, q)[c] = q
             /\ \A x \in Which : x # c => With(d, c, q)[x] = d[x]
  <2>1. d \in Data
    BY <1>1
  <2>. QED
    BY <1>1, <2>1, DataFacts DEF With, Data
<1>3. /\ E[p] = C[p] \cup {With(d, c, q) : d \in C[p]}
      /\ \A n \in AnyNode : n # p => E[n] = C[n]
      /\ E = [n \in AnyNode |-> E[n]]
  BY <1>1 DEF Extended
<1>4. E[p] \in SUBSET Data
  BY <1>1, <1>2, <1>3
<1>5. E \in [AnyNode -> SUBSET Data]
  BY <1>3, <1>4
<1>. HIDE DEF E
<1>6. Answers(E, i) \subseteq Answers(C, i) \cup {q}
  BY <1>2, <1>3 DEF Answers
<1>7. ASSUME NEW j \in 1 .. LastIndex, j # i
      PROVE  Answers(E, j) \subseteq Answers(C, j)
  <2>1. ParentOf(j) \in AnyNode /\ WhichChild(j) \in Which
    BY ParentFacts
  <2>2. CASE ParentOf(j) = p
    <3>1. WhichChild(j) # c
      BY <1>7, <2>2, ChildUnique
    <3>2. \A d \in E[p] : \E e \in C[p] : d[WhichChild(j)] = e[WhichChild(j)]
      BY <1>2, <1>3, <2>1, <3>1
    <3>. QED
      BY <2>2, <3>2 DEF Answers
  <2>3. CASE ParentOf(j) # p
    BY <1>3, <2>1, <2>3 DEF Answers
  <2>. QED
    BY <2>2, <2>3
<1>. QED
  BY <1>3, <1>5, <1>6, <1>7 DEF E

\* What nodestore holds at a position of a version is a version.
LEMMA VersionsReach ==
  ASSUME NEW C, Versions(C)
  PROVE  Reaches(C)
  BY DEF Versions, Reaches, Kept, Cached, Answers

-----------------------------------------------------------------------------
\* Steps that touch neither nodestore nor the caches.
LEMMA VersionsSame ==
  ASSUME NEW C, Versions(C),
         UNCHANGED <<writecache, readcache, rcsplit>>,
         (/\ \A n, p : Stored(n, p)' = Stored(n, p)
          /\ \A n, p : Good(n, p)' <=> Good(n, p)),
         \A i \in Leaf : Offers(i) \subseteq Offers(i)'
  PROVE  SomeVersions'
<1>1. WriteChain' /\ ReadChain' /\ ReadIn(C)' /\ Cached(C)'
  BY DEF Versions, WriteChain, ReadChain, ReadConnected, ReadIn, Cached
<1>2. Kept(C)' /\ Offered(C)'
  BY DEF Versions, Kept, Offered
<1>. QED
  BY <1>1, <1>2 DEF Versions, SomeVersions

\* TriePM::load.
LEMMA LoadVersions ==
  ASSUME Calls, NEW C, Versions(C), NEW index \in Leaf, Load(index)
  PROVE  CachesOK' /\ SomeVersions'
<1>2. /\ RememberRead(FetchRead(index))
      /\ UNCHANGED <<nodestoreVars, writecache, request, pc, level, todo,
                     contents, stores>>
      /\ index \in 1 .. LastIndex
  BY IndexFacts DEF Load
<1>3. /\ \A n, p : Stored(n, p)' = Stored(n, p)
      /\ \A n, p : Good(n, p)' <=> Good(n, p)
  BY <1>2, GoodSame
<1>4. /\ CachesOK /\ WriteChain /\ ReadChain /\ Reaches(C) /\ ReadIn(C)
      /\ readcache' = FetchRead(index).readcache
      /\ rcsplit' = FetchRead(index).rcsplit
      /\ writecache' = writecache
  BY <1>2, VersionsReach DEF Calls, Versions, RememberRead
<1>5. CachesOK' /\ ReadChain' /\ ReadIn(C)'
  BY <1>2, <1>4, FetchReadKeeps
<1>6. WriteChain' /\ Cached(C)'
  BY <1>4 DEF Versions, WriteChain, Cached
<1>7. Kept(C)' /\ Offered(C)'
  BY <1>2, <1>3 DEF Versions, Kept, Offered, Offers
<1>. QED
  BY <1>5, <1>6, <1>7 DEF Versions, SomeVersions

\* A call of TriePM::store.
LEMMA CallVersions ==
  ASSUME Calls, NEW C, Versions(C), NEW index \in Leaf, NEW pos \in 0 .. MaxLeaf,
         StoreCall(index, pos)
  PROVE  SomeVersions'
<1>2. /\ UNCHANGED nodestoreVars /\ UNCHANGED <<writecache, readcache, rcsplit>>
      /\ pc = "idle" /\ pc' = "fetch" /\ contents' = contents /\ request = {}
  BY DEF StoreCall, Calls, CountersOK
<1>3. /\ \A n, p : Stored(n, p)' = Stored(n, p)
      /\ \A n, p : Good(n, p)' <=> Good(n, p)
  BY <1>2, GoodSame
<1>4. \A i \in Leaf : Offers(i) \subseteq Offers(i)'
  BY <1>2 DEF Offers
<1>. QED
  BY <1>2, <1>3, <1>4, VersionsSame

\* A call of nodestore.
LEMMA WriteBackVersions ==
  ASSUME Calls, NEW C, Versions(C), InTurn', WriteBack
  PROVE  SomeVersions'
<1>2. /\ UNCHANGED nodestoreVars /\ UNCHANGED <<writecache, readcache, rcsplit>>
      /\ pc = "level" /\ pc' = "ltws" /\ contents' = contents /\ request' = request
  BY DEF WriteBack
<1>3. /\ \A n, p : Stored(n, p)' = Stored(n, p)
      /\ \A n, p : Good(n, p)' <=> Good(n, p)
  BY <1>2, GoodSame
<1>4. \A i \in Leaf : Offers(i) \subseteq Offers(i)'
  BY <1>2 DEF Offers
<1>. QED
  BY <1>2, <1>3, <1>4, VersionsSame

\* Stuttering.
LEMMA StutterVersions ==
  ASSUME Calls, NEW C, Versions(C), UNCHANGED vars
  PROVE  SomeVersions'
<1>2. /\ UNCHANGED nodestoreVars /\ UNCHANGED <<writecache, readcache, rcsplit>>
      /\ UNCHANGED <<pc, todo>> /\ contents' = contents /\ request' = request
      /\ pc' = pc
  BY DEF vars, nodestoreVars
<1>3. /\ \A n, p : Stored(n, p)' = Stored(n, p)
      /\ \A n, p : Good(n, p)' <=> Good(n, p)
  BY <1>2, GoodSame
<1>4. \A i \in Leaf : Offers(i) \subseteq Offers(i)'
  BY <1>2 DEF Offers
<1>. QED
  BY <1>2, <1>3, <1>4, VersionsSame

\* The store that is broken off may be seen or not.
LEMMA ThrowsVersions ==
  ASSUME Calls, NEW C, Versions(C), StoreThrows
  PROVE  SomeVersions'
<1>2. /\ UNCHANGED nodestoreVars /\ UNCHANGED <<writecache, readcache, rcsplit>>
      /\ UNCHANGED <<level, todo>>
      /\ pc = "ltws" /\ pc' = "idle" /\ contents' = Refused /\ request' = {}
      /\ OneWrite
  BY DEF StoreThrows
<1>3. /\ \A n, p : Stored(n, p)' = Stored(n, p)
      /\ \A n, p : Good(n, p)' <=> Good(n, p)
  BY <1>2, StoredSame DEF Good, nodestoreVars
<1>4. \A i \in Leaf : Offers(i) \subseteq Offers(i)'
  <2>. SUFFICES ASSUME NEW i \in Leaf PROVE Offers(i) \subseteq Refused[i]
    BY <1>2 DEF Offers
  <2>1. {q \in request : pc # "fetch" /\ q.index = i} = {q \in request : q.index = i}
    BY <1>2
  <2>. QED
    BY <2>1 DEF Offers, Refused
<1>. QED
  BY <1>2, <1>3, <1>4, VersionsSame

\* The path is fetched, and the position set.
LEMMA FetchVersions ==
  ASSUME Calls, NEW C, Versions(C), StoreFetch
  PROVE  CachesOK' /\ SomeVersions'
<1>1. PICK r \in request :
        writecache' = [FetchWrite(r.index) EXCEPT
            ![Len(PathTo[r.index]) - 1].data[WhichChild(r.index)] = r.buf]
  BY DEF StoreFetch
<1>2. /\ UNCHANGED nodestoreVars /\ UNCHANGED <<readcache, rcsplit>>
      /\ UNCHANGED <<request, contents>>
      /\ pc = "fetch" /\ pc' = "level" /\ level' = Height
  BY DEF StoreFetch
<1>. DEFINE i == r.index
            E == Extended(C, i, r.buf)
            L == Depth(i)
<1>3. /\ i \in Leaf /\ i \in 1 .. LastIndex /\ i \notin Node
      /\ r.buf \in 0 .. Nptr
      /\ \A n \in Node : n \in 1 .. LastIndex /\ n \in AnyNode
      /\ C \in [AnyNode -> SUBSET Data]
  BY <1>1, IndexFacts, LeafFits DEF Calls, CountersOK, Versions
<1>4. /\ \A n, p : Stored(n, p)' = Stored(n, p)
      /\ \A n, p : Good(n, p)' <=> Good(n, p)
  BY <1>2, GoodSame
<1>5. /\ CachesOK' /\ WriteChain'
      /\ \A l \in 0 .. L - 1 :
           /\ writecache'[l].index = PathTo[i][l + 1]
           /\ l # L - 1 => writecache'[l].data \in C[PathTo[i][l + 1]]
      /\ \E w \in C[ParentOf(i)] :
           writecache'[L - 1].data = With(w, WhichChild(i), r.buf)
      /\ \A l \in Level : l >= L /\ writecache'[l].index # NullInd =>
           /\ l = Height /\ l = L /\ writecache'[l] = writecache[l]
           /\ l \in 1 .. Height
  <2>1. CachesOK /\ WriteChain /\ Reaches(C)
    BY VersionsReach DEF Calls, Versions
  <2>. QED
    BY <1>1, <1>2, <1>3, <2>1, FetchShape
<1>6. /\ E \in [AnyNode -> SUBSET Data]
      /\ \A n \in AnyNode : C[n] \subseteq E[n]
      /\ \A d \in C[ParentOf(i)] : With(d, WhichChild(i), r.buf) \in E[ParentOf(i)]
      /\ Answers(E, i) \subseteq Answers(C, i) \cup {r.buf}
      /\ \A j \in 1 .. LastIndex : j # i => Answers(E, j) \subseteq Answers(C, j)
  BY <1>3, ExtendedFacts
<1>7. /\ L \in 1 .. Height + 1 /\ Height \in Nat /\ PathTo[i][L] = ParentOf(i)
      /\ \A l \in 0 .. L - 1 : PathTo[i][l + 1] \in AnyNode
  BY <1>3, PathLevels, HeightFact, NumNodesFact
<1>. HIDE DEF E, L
<1>8. Cached(E)'
  <2>. SUFFICES ASSUME NEW l \in Level, l = 0 \/ writecache'[l].index # NullInd
                PROVE  writecache'[l].data \in E[writecache'[l].index]
    BY DEF Cached
  <2>1. CASE l \in 0 .. L - 1 /\ l # L - 1
    BY <1>5, <1>6, <1>7, <2>1
  <2>2. CASE l = L - 1
    <3>1. l \in 0 .. L - 1 /\ l + 1 = L
      BY <1>7, <2>2
    <3>2. writecache'[l].index = ParentOf(i)
      BY <1>5, <1>7, <3>1
    <3>. QED
      BY <1>5, <1>6, <2>2, <3>2
  <2>3. CASE l >= L
    <3>1. l # 0
      BY <1>7, <2>3
    <3>2. writecache'[l] = writecache[l]
      BY <1>5, <2>3, <3>1
    <3>3. writecache[l].data \in C[writecache[l].index]
      BY <3>1, <3>2 DEF Versions, Cached
    <3>4. writecache[l].index \in AnyNode
      BY IndexFacts DEF Calls, CachesOK, Entry, NullInd
    <3>. QED
      BY <1>6, <3>2, <3>3, <3>4
  <2>. QED
    BY <1>7, <2>1, <2>2, <2>3 DEF Level
<1>9. ReadChain' /\ ReadIn(E)'
  <2>1. ReadChain'
    BY <1>2 DEF Versions, ReadChain, ReadConnected
  <2>2. \A l \in Level : readcache[l].index \in AnyNode
    BY IndexFacts DEF Calls, CachesOK, Entry, NullInd
  <2>3. ReadIn(E)'
    BY <1>2, <1>6, <2>2 DEF Versions, ReadIn, ReadConnected
  <2>. QED
    BY <2>1, <2>3
<1>10. Kept(E)'
  <2>. SUFFICES ASSUME NEW n \in Node, NEW p \in Answers(E, n)
                PROVE  Good(n, p) /\ Stored(n, p) \in E[n]
    BY <1>4 DEF Kept
  <2>1. p \in Answers(C, n) /\ n \in AnyNode
    BY <1>3, <1>6
  <2>. QED
    BY <1>6, <2>1 DEF Versions, Kept
<1>11. Offered(E)'
  <2>. SUFFICES ASSUME NEW j \in Leaf PROVE Answers(E, j) \subseteq Offers(j)'
    BY DEF Offered
  <2>1. Answers(C, j) \subseteq contents[j]
    BY <1>2 DEF Versions, Offered, Offers
  <2>2. Answers(E, j) \subseteq Answers(C, j) \cup (IF j = i THEN {r.buf} ELSE {})
    BY <1>6, IndexFacts
  <2>3. /\ contents[j] \subseteq Offers(j)'
        /\ j = i => r.buf \in Offers(j)'
    BY <1>1, <1>2 DEF Offers
  <2>. QED
    BY <2>1, <2>2, <2>3
<1>. QED
  BY <1>5, <1>6, <1>8, <1>9, <1>10, <1>11 DEF Versions, SomeVersions

\* A node is written, and its new position set in its parent.
LEMMA WriteNodeVersions ==
  ASSUME Calls, NEW C, Versions(C), WriteNode
  PROVE  SomeVersions'
<1>. DEFINE entry == writecache[level]
<1>2. /\ pc = "ltws" /\ todo = 0 /\ pc' = "level" /\ level' = level - 1
      /\ entry.index # NullInd
      /\ NodeWrite(entry.data)
      /\ writecache' =
           [writecache EXCEPT ![level - 1].data[WhichChild(entry.index)] =
              NodePosition(NodeInd(entry.index), entry.data)]
      /\ UNCHANGED <<readcache, rcsplit, request, contents>>
  BY DEF WriteNode
<1>3. level \in 1 .. Height /\ level \in Level /\ level - 1 \in Level
  BY <1>2, HeightFact, NumNodesFact DEF Calls, CountersOK, InTurn, Schedule, Level
<1>4. CachesOK /\ WriteChain /\ C \in [AnyNode -> SUBSET Data] /\ Cached(C)
  BY DEF Calls, Versions
<1>5. PICK n \in Node : n = entry.index
  BY <1>2, <1>3, <1>4 DEF CachesOK, Entry
<1>6. /\ n \in 1 .. LastIndex /\ n \in AnyNode
      /\ \A m \in Node : m \in 1 .. LastIndex /\ m \in AnyNode
      /\ \A m \in Leaf : m \in 1 .. LastIndex /\ m # n
  BY IndexFacts DEF Node, AnyNode
<1>7. PICK b \in Data : b \in C[n] /\ b = entry.data
  BY <1>2, <1>3, <1>4, <1>5, <1>6 DEF Cached
<1>8. PICK q : q = NodePosition(NodeInd(n), b)
  OBVIOUS
<1>9. /\ writecache[level].index = n /\ NodeWrite(b)
      /\ writecache' = [writecache EXCEPT ![level - 1].data[WhichChild(n)] = q]
  BY <1>2, <1>5, <1>7, <1>8
<1>. HIDE DEF entry
<1>10. q \in 0 .. Nptr /\ Stored(n, q)' = b /\ Good(n, q)'
  BY <1>2, <1>8, <1>9, GoodNew
<1>11. \A m \in Node : \A p : Good(m, p) => Stored(m, p)' = Stored(m, p) /\ Good(m, p)'
  BY <1>2, <1>9, GoodWrite
<1>. DEFINE E == Extended(C, n, q)
<1>12. /\ E \in [AnyNode -> SUBSET Data]
       /\ \A m \in AnyNode : C[m] \subseteq E[m]
       /\ \A d \in C[ParentOf(n)] : With(d, WhichChild(n), q) \in E[ParentOf(n)]
       /\ Answers(E, n) \subseteq Answers(C, n) \cup {q}
       /\ \A j \in 1 .. LastIndex : j # n => Answers(E, j) \subseteq Answers(C, j)
  BY <1>4, <1>6, <1>10, ExtendedFacts
<1>. HIDE DEF E
<1>13. /\ \A l \in Level : l # level - 1 => writecache'[l] = writecache[l]
       /\ writecache'[level - 1].index = writecache[level - 1].index
       /\ writecache'[level - 1].data = With(writecache[level - 1].data, WhichChild(n), q)
  BY <1>3, <1>4, <1>9 DEF CachesOK, Entry, With
<1>14. WriteChain'
  <2>1. \A l \in Level : writecache'[l].index = writecache[l].index
    BY <1>13
  <2>2. \A k \in 1 .. Height : \A j \in 0 .. k - 1 : k \in Level /\ j \in Level
    BY HeightFact, NumNodesFact DEF Level
  <2>3. 0 \in Level
    BY HeightFact, NumNodesFact DEF Level
  <2>. QED
    BY <1>4, <2>1, <2>2, <2>3 DEF WriteChain
<1>15. Cached(E)'
  <2>. SUFFICES ASSUME NEW l \in Level, l = 0 \/ writecache'[l].index # NullInd
                PROVE  writecache'[l].data \in E[writecache'[l].index]
    BY DEF Cached
  <2>0. writecache[l].index \in AnyNode
    BY <1>4, IndexFacts DEF CachesOK, Entry, NullInd
  <2>1. writecache[l].data \in C[writecache[l].index]
    BY <1>4, <1>13 DEF Cached
  <2>2. CASE l # level - 1
    BY <1>12, <1>13, <2>0, <2>1, <2>2
  <2>3. CASE l = level - 1
    <3>1. Depth(n) = level
          /\ \A k \in 0 .. level - 1 : writecache[k].index = PathTo[n][k + 1]
      BY <1>3, <1>4, <1>9, WriteLevel
    <3>2. level - 1 \in 0 .. level - 1 /\ level - 1 + 1 = level
      BY <1>3, HeightFact, NumNodesFact
    <3>3. PathTo[n][level] = ParentOf(n)
      BY <1>6, <3>1, PathLevels
    <3>4. writecache[l].index = ParentOf(n)
      BY <2>3, <3>1, <3>2, <3>3
    <3>. QED
      BY <1>12, <1>13, <2>1, <2>3, <3>4
  <2>. QED
    BY <2>2, <2>3
<1>16. ReadChain' /\ ReadIn(E)'
  <2>1. ReadChain'
    BY <1>2 DEF Versions, ReadChain, ReadConnected
  <2>2. \A l \in Level : readcache[l].index \in AnyNode
    BY <1>4, IndexFacts DEF CachesOK, Entry, NullInd
  <2>3. ReadIn(E)'
    BY <1>2, <1>12, <2>2 DEF Versions, ReadIn, ReadConnected
  <2>. QED
    BY <2>1, <2>3
<1>17. Kept(E)'
  <2>. SUFFICES ASSUME NEW m \in Node, NEW p \in Answers(E, m)
                PROVE  Good(m, p)' /\ Stored(m, p)' \in E[m]
    BY DEF Kept
  <2>1. CASE p \in Answers(C, m)
    <3>1. Good(m, p) /\ Stored(m, p) \in C[m]
      BY <2>1 DEF Versions, Kept
    <3>. QED
      BY <1>6, <1>11, <1>12, <3>1
  <2>2. CASE p \notin Answers(C, m)
    <3>1. m = n /\ p = q
      BY <1>6, <1>12, <2>2
    <3>. QED
      BY <1>6, <1>7, <1>10, <1>12, <3>1
  <2>. QED
    BY <2>1, <2>2
<1>18. Offered(E)'
  BY <1>2, <1>6, <1>12 DEF Versions, Offered, Offers
<1>. QED
  BY <1>12, <1>14, <1>15, <1>16, <1>17, <1>18 DEF Versions, SomeVersions

\* A dummy write.
LEMMA DummyVersions ==
  ASSUME Calls, NEW C, Versions(C), DummyWrite
  PROVE  SomeVersions'
<1>2. /\ pc = "ltws" /\ todo = 0 /\ pc' = "level"
      /\ NodeWrite([c \in Which |-> 0])
      /\ UNCHANGED <<writecache, readcache, rcsplit, request, contents>>
  BY DEF DummyWrite
<1>3. \A m \in Node : \A p : Good(m, p) => Stored(m, p)' = Stored(m, p) /\ Good(m, p)'
  BY <1>2, DataFacts, GoodWrite
<1>4. Kept(C)'
  BY <1>3 DEF Versions, Kept
<1>5. WriteChain' /\ ReadChain' /\ ReadIn(C)' /\ Cached(C)'
  BY <1>2 DEF Versions, WriteChain, ReadChain, ReadConnected, ReadIn, Cached
<1>6. Offered(C)'
  BY <1>2 DEF Versions, Offered, Offers
<1>. QED
  BY <1>4, <1>5, <1>6 DEF Versions, SomeVersions

\* What all of caches, nodestore and contents agree with is the only version.
Settled(D) ==
  /\ CacheInv(D) /\ Placement(D)
  /\ \A n \in Node : D[n] = Stored(n, Pos(D, n))
  /\ \A l \in Level : ~ReadConnected(l)
  /\ \A i \in Leaf : Pos(D, i) \in contents[i]

SomeSettled == CachesOK /\ \E D : Settled(D)

\* Only(D) is that version.
LEMMA OnlyVersion == SomeSettled => SomeVersions
<1>. SUFFICES ASSUME CachesOK, NEW D, Settled(D) PROVE SomeVersions
  BY DEF SomeSettled
<1>0. CacheInv(D)
  BY DEF Settled
<1>1. /\ D \in [AnyNode -> Data] /\ WriteChain /\ ReadChain
      /\ Only(D) \in [AnyNode -> SUBSET Data]
      /\ Cached(Only(D))
  BY <1>0, OnlyFacts DEF CacheInv, Reaches, Cached
<1>2. ReadIn(Only(D))
  BY DEF Settled, ReadIn
<1>3. Kept(Only(D))
  <2>. SUFFICES ASSUME NEW n \in Node, NEW p \in Answers(Only(D), n)
                PROVE  Good(n, p) /\ Stored(n, p) \in Only(D)[n]
    BY DEF Kept
  <2>1. p = Pos(D, n) /\ n \in AnyNode
    BY <1>1, OnlyFacts, PosFacts
  <2>. QED
    BY <1>1, <2>1, OnlyFacts DEF Settled, Placement
<1>4. Offered(Only(D))
  <2>. SUFFICES ASSUME NEW i \in Leaf PROVE Answers(Only(D), i) \subseteq Offers(i)
    BY DEF Offered
  <2>1. Answers(Only(D), i) = {Pos(D, i)}
    BY <1>1, IndexFacts, PosFacts
  <2>. QED
    BY <2>1 DEF Settled, Offers
<1>. QED
  BY <1>1, <1>2, <1>3, <1>4 DEF Versions, SomeVersions

\* The same for the next state.
LEMMA OnlyVersionNext == SomeSettled' => SomeVersions'
  BY OnlyVersion, PTL
-----------------------------------------------------------------------------
(***************************************************************************)
(* Once a OneWriteWoram is used up every store is broken off, and gets no  *)
(* further than the whole path in the write cache.                         *)
(***************************************************************************)
OnPath(r) ==
  /\ \A l \in 0 .. Depth(r.index) - 1 :
       writecache[l].index = PathTo[r.index][l + 1]
  /\ writecache[Depth(r.index) - 1].data[WhichChild(r.index)] = r.buf

Broken ==
  /\ OneWrite /\ onewrite!Exhausted
  /\ pc \in {"level", "ltws"} => level = Height /\ \A r \in request : OnPath(r)

TrieInv ==
  /\ Calls
  /\ SomeWhole \/ Broken
  /\ OneWrite => SomeVersions

-----------------------------------------------------------------------------
\* Steps while no write-back has been broken off.
LEMMA WholeNext ==
  ASSUME Calls, NEW D, Whole(D), [Next]_vars, InTurn'
  PROVE  StoreOK' /\ CachesOK' /\ (SomeWhole' \/ Broken')
<1>1. ASSUME NEW index \in Leaf, Load(index)
      PROVE  StoreOK' /\ CachesOK' /\ SomeWhole'
  BY <1>1, LoadWhole
<1>2. ASSUME NEW index \in Leaf, NEW pos \in 0 .. MaxLeaf, StoreCall(index, pos)
      PROVE  StoreOK' /\ CachesOK' /\ SomeWhole'
  BY <1>2, CallWhole
<1>3. CASE StoreFetch
  BY <1>3, FetchWhole
<1>4. CASE WriteBack
  BY <1>4, WriteBackWhole
<1>5. CASE Refresh
  BY <1>5, RefreshWhole
<1>6. CASE WriteNode
  BY <1>6, WriteNodeWhole
<1>7. CASE DummyWrite
  BY <1>7, DummyWhole
<1>8. CASE StoreThrows
  <2>1. StoreOK' /\ CachesOK'
    BY <1>8 DEF StoreThrows, Calls, StoreOK, CachesOK, nodestoreVars
  <2>2. Broken'
    BY <1>8 DEF StoreThrows, Broken, nodestoreVars, onewrite!Exhausted
  <2>. QED
    BY <2>1, <2>2
<1>9. CASE StoreReturn
  BY <1>9, ReturnWhole DEF SomeWhole
<1>10. CASE UNCHANGED vars
  BY <1>10, StutterWhole
<1>. QED
  BY <1>1, <1>2, <1>3, <1>4, <1>5, <1>6, <1>7, <1>8, <1>9, <1>10 DEF Next

\* Steps of a trie on a OneWriteWoram.
LEMMA VersionsNext ==
  ASSUME Calls, OneWrite, NEW C, Versions(C), SomeWhole \/ Broken, [Next]_vars, InTurn'
  PROVE  SomeVersions'
<1>1. ASSUME NEW index \in Leaf, Load(index) PROVE SomeVersions'
  BY <1>1, LoadVersions
<1>2. ASSUME NEW index \in Leaf, NEW pos \in 0 .. MaxLeaf, StoreCall(index, pos)
      PROVE  SomeVersions'
  BY <1>2, CallVersions
<1>3. CASE StoreFetch
  BY <1>3, FetchVersions
<1>4. CASE WriteBack
  BY <1>4, WriteBackVersions
<1>5. CASE Refresh
  BY <1>5 DEF Refresh, Calls, InTurn
<1>6. CASE WriteNode
  BY <1>6, WriteNodeVersions
<1>7. CASE DummyWrite
  BY <1>7, DummyVersions
<1>8. CASE StoreThrows
  BY <1>8, ThrowsVersions
<1>9. CASE StoreReturn
  <2>1. level = 0 /\ pc = "level" /\ level' = level
    BY <1>9 DEF StoreReturn
  <2>2. ~Broken
    BY <2>1, HeightFact DEF Broken
  <2>3. PICK D : Whole(D)
    BY <2>2 DEF SomeWhole
  <2>4. /\ CachesOK' /\ Whole(D)' /\ \A l \in Level : ~ReadConnected(l)'
        /\ \A i \in Leaf : Pos(D, i) \in contents'[i]
    BY <1>9, <2>3, ReturnWhole
  <2>5. \A n \in Node : D[n] = Stored(n, Pos(D, n))'
    <3>1. pc' = "idle"
      BY <1>9 DEF StoreReturn
    <3>. QED
      BY <2>4, <3>1 DEF Whole, Clean
  <2>6. CacheInv(D)' /\ Placement(D)'
    BY <2>4 DEF Whole
  <2>. QED
    BY <2>4, <2>5, <2>6, OnlyVersionNext DEF SomeSettled, Settled
<1>10. CASE UNCHANGED vars
  BY <1>10, StutterVersions
<1>. QED
  BY <1>1, <1>2, <1>3, <1>4, <1>5, <1>6, <1>7, <1>8, <1>9, <1>10 DEF Next

\* Steps once it is used up.
LEMMA BrokenNext ==
  ASSUME Calls, Broken, SomeVersions, [Next]_vars, InTurn'
  PROVE  StoreOK' /\ CachesOK' /\ Broken'
<1>0. PICK C : Versions(C)
  BY DEF SomeVersions
<1>a. OneWrite /\ holdpos = HoldSize /\ HoldSize \in Nat /\ Height # 0
  BY HeightFact, TrieAssumption DEF Broken, onewrite!Exhausted, onewrite!MaxWrites
<1>b. ASSUME UNCHANGED nodestoreVars
      PROVE  StoreOK' /\ onewrite!Exhausted'
  BY <1>b DEF Calls, StoreOK, Broken, nodestoreVars, onewrite!Exhausted
<1>c. ASSUME UNCHANGED <<writecache, readcache, rcsplit>> PROVE CachesOK'
  BY <1>c DEF Calls, CachesOK
<1>d. ASSUME NEW b, NodeWrite(b) PROVE FALSE
  BY <1>a, <1>d DEF NodeWrite, onewrite!WriteBlock, onewrite!MaxWrites
<1>1. ASSUME NEW index \in Leaf, Load(index)
      PROVE  StoreOK' /\ CachesOK' /\ Broken'
  <2>1. pc' = "idle" /\ UNCHANGED nodestoreVars
    BY <1>1 DEF Load
  <2>. QED
    BY <1>0, <1>1, <1>b, <2>1, LoadVersions DEF Broken
<1>2. ASSUME NEW index \in Leaf, NEW pos \in 0 .. MaxLeaf, StoreCall(index, pos)
      PROVE  StoreOK' /\ CachesOK' /\ Broken'
  BY <1>2, <1>b, <1>c DEF StoreCall, Broken
<1>3. CASE StoreFetch
  <2>1. PICK r \in request :
        writecache' = [FetchWrite(r.index) EXCEPT
            ![Len(PathTo[r.index]) - 1].data[WhichChild(r.index)] = r.buf]
    BY <1>3 DEF StoreFetch
  <2>2. /\ UNCHANGED nodestoreVars /\ UNCHANGED <<readcache, rcsplit>>
        /\ request' = request /\ level' = Height
    BY <1>3 DEF StoreFetch
  <2>3. /\ r.index \in Leaf /\ r.index \in 1 .. LastIndex /\ r.buf \in 0 .. Nptr
        /\ \A s \in request : s = r
    BY <2>1, IndexFacts, LeafFits DEF Calls, CountersOK
  <2>4. CachesOK /\ WriteChain /\ Reaches(C) /\ C \in [AnyNode -> SUBSET Data]
    BY <1>0, VersionsReach DEF Calls, Versions
  <2>. DEFINE i == r.index
              L == Depth(i)
  <2>5. /\ CachesOK' /\ WriteChain'
        /\ \A l \in 0 .. L - 1 :
             /\ writecache'[l].index = PathTo[i][l + 1]
             /\ l # L - 1 => writecache'[l].data \in C[PathTo[i][l + 1]]
        /\ \E w \in C[ParentOf(i)] :
             writecache'[L - 1].data = With(w, WhichChild(i), r.buf)
        /\ \A l \in Level : l >= L /\ writecache'[l].index # NullInd =>
             /\ l = Height /\ l = L /\ writecache'[l] = writecache[l]
             /\ l \in 1 .. Height
    BY <2>1, <2>2, <2>3, <2>4, FetchShape
  <2>6. writecache'[Depth(r.index) - 1].data[WhichChild(r.index)] = r.buf
    <3>1. PICK w \in C[ParentOf(r.index)] :
            writecache'[Depth(r.index) - 1].data = With(w, WhichChild(r.index), r.buf)
      BY <2>5
    <3>2. w \in Data /\ WhichChild(r.index) \in Which
      BY <2>3, <2>4, ParentFacts
    <3>. QED
      BY <3>1, <3>2 DEF With, Data
  <2>7. OnPath(r)'
    BY <2>5, <2>6 DEF OnPath
  <2>8. \A s \in request' : OnPath(s)'
    BY <2>2, <2>3, <2>7
  <2>. QED
    BY <1>b, <2>2, <2>5, <2>8 DEF Broken
<1>4. CASE WriteBack
  BY <1>4, <1>b, <1>c DEF WriteBack, Broken, OnPath
<1>5. CASE Refresh
  BY <1>5, <1>a DEF Refresh, Calls, InTurn
<1>6. CASE WriteNode
  BY <1>6, <1>d DEF WriteNode
<1>7. CASE DummyWrite
  BY <1>7, <1>d DEF DummyWrite
<1>8. CASE StoreThrows
  BY <1>8, <1>b, <1>c DEF StoreThrows, Broken
<1>9. CASE StoreReturn
  BY <1>9, <1>a DEF StoreReturn, Broken
<1>10. CASE UNCHANGED vars
  BY <1>10, <1>b, <1>c DEF vars, nodestoreVars, Broken, OnPath
<1>. QED
  BY <1>1, <1>2, <1>3, <1>4, <1>5, <1>6, <1>7, <1>8, <1>9, <1>10 DEF Next

-----------------------------------------------------------------------------
\* At first no node exists, and all data is NullNode.
LEMMA InitTrieInv == Init => TrieInv
<1>. SUFFICES ASSUME Init PROVE TrieInv
  OBVIOUS
<1>. DEFINE D == [n \in AnyNode |-> NullNode]
<1>1. /\ pc = "idle" /\ request = {} /\ rcsplit = 1 /\ level = 0 /\ todo = 0
      /\ stores = 0 /\ contents = [i \in Leaf |-> {Nptr}]
      /\ writecache = [l \in Level |-> Empty]
      /\ readcache = [l \in Level |-> Empty]
      /\ longpos = 0 /\ holdpos = 0
      /\ longterm \in [0 .. NumNodes - 1 -> InitialNodes]
      /\ holding \in [0 .. HoldSize - 1 -> InitialNodes]
  BY DEF Init, nodestore!WoramInit, nodestore!Index, nodestore!Slot
<1>2. /\ Height \in Nat \ {0} /\ NumNodes \in Nat \ {0} /\ HoldSize \in Nat \ {0}
      /\ 0 \in Level /\ 1 \in 1 .. Height
      /\ \A l \in 1 .. Height : l \in Level
  BY TrieFacts DEF Level
<1>3. /\ Empty.index = NullInd /\ Empty.data = NullNode /\ Empty \in Entry
      /\ NullNode \in Data
  BY DataFacts DEF Empty, Entry
<1>4. \A l \in Level : writecache[l].index = NullInd
                       /\ writecache[l].data = NullNode
                       /\ readcache[l].index = NullInd
  BY <1>1, <1>3
<1>5. CachesOK
  BY <1>1, <1>2, <1>3 DEF CachesOK
<1>6. StoreOK
  <2>1. \A S : \A f \in [S -> InitialNodes] : f \in [S -> Data]
    BY InitialAssumption
  <2>2. longterm \in [0 .. NumNodes - 1 -> Data] /\ holding \in [0 .. HoldSize - 1 -> Data]
    BY <1>1, <2>1, Zenon
  <2>. QED
    BY <1>1, <1>2, <2>2 DEF StoreOK
<1>7. D \in [AnyNode -> Data] /\ \A n \in AnyNode : D[n] = NullNode
  BY <1>3
<1>8. \A i \in 1 .. LastIndex : Pos(D, i) = Nptr
  <2>. SUFFICES ASSUME NEW i \in 1 .. LastIndex PROVE Pos(D, i) = Nptr
    OBVIOUS
  <2>1. ParentOf(i) \in AnyNode /\ WhichChild(i) \in Which
    BY ParentFacts
  <2>. QED
    BY <1>7, <2>1 DEF Pos, NullNode
<1>. HIDE DEF D
<1>9. \A n : Stored(n, Nptr) = NullNode /\ Good(n, Nptr)
  BY DEF Stored, Good, Reliable, ReadsHolding, NodePositions
<1>10. \A n \in Node : n \in 1 .. LastIndex /\ n \in AnyNode
  BY <1>7, OnlyFacts
<1>11. Aside /\ \A l \in Level : ~ReadConnected(l)
  <2>1. readcache[1].index = NullInd
    BY <1>2, <1>4
  <2>2. \A l \in Level : l >= 1 => 1 \in 1 .. l
    BY <1>2 DEF Level
  <2>. QED
    BY <1>1, <2>1, <2>2 DEF Aside, ReadConnected
<1>12. WriteChain /\ ReadChain /\ ReadIn(Only(D))
  BY <1>2, <1>4, <1>11 DEF WriteChain, ReadChain, ReadIn
<1>13. Reaches(Only(D))
  <2>1. \A l \in Level : (l = 0 \/ writecache[l].index # NullInd) =>
          writecache[l].data = D[writecache[l].index]
    BY <1>4, <1>7, IndexFacts DEF NullInd
  <2>2. \A n \in Node : Stored(n, Pos(D, n)) = D[n]
    BY <1>7, <1>8, <1>9, <1>10
  <2>. QED
    BY <1>5, <1>7, <2>1, <2>2, ReachesOnly
<1>14. CacheInv(D)
  BY <1>7, <1>12, <1>13 DEF CacheInv
<1>15. (\A n \in Node : D[n] = Stored(n, Pos(D, n))) /\ Placement(D)
  BY <1>7, <1>8, <1>9, <1>10 DEF Placement
<1>16. \A i \in Leaf : Pos(D, i) \in contents[i]
  BY <1>1, <1>8, IndexFacts
<1>17. CountersOK
  <2>1. Nptr \in 0 .. MaxLeaf \cup {Nptr} /\ stores \in 0 .. MaxStores
    BY <1>1, TrieAssumption
  <2>. QED
    BY <1>1, <1>2, <2>1 DEF CountersOK
<1>18. InTurn
  BY <1>1, InitSchedule DEF InTurn
<1>19. Whole(D)
  BY <1>1, <1>11, <1>14, <1>15, <1>16 DEF Whole, Clean, Leaves
<1>20. SomeVersions
  BY <1>5, <1>11, <1>14, <1>15, <1>16, OnlyVersion DEF SomeSettled, Settled
<1>. QED
  BY <1>5, <1>6, <1>17, <1>18, <1>19, <1>20 DEF TrieInv, Calls, SomeWhole

\* Every step keeps the invariant.
LEMMA NextTrieInv == TrieInv /\ [Next]_vars => TrieInv'
<1>. SUFFICES ASSUME TrieInv, [Next]_vars PROVE TrieInv'
  OBVIOUS
<1>1. Calls /\ InTurn' /\ CountersOK'
  BY TurnNext, CountersNext DEF TrieInv
<1>2. StoreOK' /\ CachesOK' /\ (SomeWhole' \/ Broken')
  <2>1. CASE SomeWhole
    BY <1>1, <2>1, WholeNext DEF SomeWhole
  <2>2. CASE Broken
    BY <1>1, <2>2, BrokenNext DEF TrieInv, Broken
  <2>. QED
    BY <2>1, <2>2 DEF TrieInv
<1>3. OneWrite => SomeVersions'
  BY <1>1, VersionsNext DEF TrieInv, SomeVersions
<1>. QED
  BY <1>1, <1>2, <1>3 DEF TrieInv, Calls

\* The invariant holds throughout.
LEMMA AlwaysTrieInv == Spec => []TrieInv
  BY InitTrieInv, NextTrieInv, PTL DEF Spec

-----------------------------------------------------------------------------
(***************************************************************************)
(* Caches, nodestore, counters and history stay in their ranges: the       *)
(* levels of the caches hold nodes, and nodestore's positions fit into the *)
(* pointers that the nodes keep them in.                                   *)
(***************************************************************************)
THEOREM TrieTypeOK == Spec => []TypeOK
<1>1. TrieInv => TypeOK
  BY CallsType DEF TrieInv
<1>. QED
  BY <1>1, AlwaysTrieInv, PTL

(***************************************************************************)
(* The read cache is transparent: whatever loads and the re-entrant        *)
(* look-ups of nodestore have left in it, and however far a path has been  *)
(* written back, fetch_read answers as a walk from the write cache would.  *)
(***************************************************************************)
THEOREM TrieReadCacheTransparent ==
  ASSUME ~OneWrite PROVE Spec => []ReadCacheTransparent
<1>1. TrieInv => ReadCacheTransparent
  <2>. SUFFICES ASSUME TrieInv, NEW i \in Node \cup Leaf
                PROVE  ReadPosition(i) = WalkDown(i)
    BY DEF ReadCacheTransparent
  <2>1. CachesOK /\ \E D : CacheInv(D)
    BY DEF TrieInv, Calls, SomeWhole, Whole, Broken
  <2>. QED
    BY <2>1, IndexFacts, ReadIs
<1>. QED
  BY <1>1, AlwaysTrieInv, PTL

(***************************************************************************)
(* When nodestore overwrites a slot of its holding area, no node of the    *)
(* trie is read from it: the refresh that asks this trie for positions in  *)
(* the middle of the write-back has not missed one.                        *)
(***************************************************************************)
THEOREM TrieNodeSlotReusable ==
  ASSUME ~OneWrite PROVE Spec => []NodeSlotReusable
<1>1. TrieInv => NodeSlotReusable
  <2>. SUFFICES ASSUME TrieInv, pc = "ltws", todo = 0, NEW n \in Node,
                       ReadsHolding(n, ReadPosition(n))
                PROVE  nodestore!GetHold(ReadPosition(n)) # holdpos
    BY DEF NodeSlotReusable, ReadsHolding
  <2>1. PICK D : Whole(D)
    BY DEF TrieInv, SomeWhole, Broken
  <2>2. ReadPosition(n) = Pos(D, n)
    BY <2>1, IndexFacts, ReadIs DEF TrieInv, Calls, Whole
  <2>3. Reliable(n, ReadPosition(n))
    BY <2>1, <2>2 DEF Whole, Placement, Good
  <2>. QED
    BY <2>3, SlotFree DEF TrieInv, Calls, InTurn
<1>. QED
  BY <1>1, AlwaysTrieInv, PTL

\* The position is read from the last node of the path in the write cache.
LEMMA OnPathRead ==
  ASSUME CachesOK, WriteChain, NEW r, r.index \in Leaf, OnPath(r)
  PROVE  ReadPosition(r.index) = r.buf
<1>. DEFINE i == r.index
            path == PathTo[i]
            L == Depth(i)
            top == writecache[L - 1].data
            C == [n \in AnyNode |-> IF n = ParentOf(i) THEN {top} ELSE {}]
<1>1. /\ i \in 1 .. LastIndex
      /\ L = Len(path) /\ L \in 1 .. Height + 1 /\ Height \in Nat /\ L \in Nat
      /\ path[L] = ParentOf(i) /\ ParentOf(i) \in AnyNode /\ L - 1 \in Level
  BY IndexFacts, ParentFacts, PathLevels, HeightFact, NumNodesFact DEF Level
<1>2. ReadSplit(path) = L
  <2>1. /\ ReadSplit(path) \in 1 .. L
        /\ ReadSplit(path) # L => writecache[ReadSplit(path)].index # path[ReadSplit(path) + 1]
    BY <1>1, SplitFact DEF ReadSplit
  <2>. QED
    BY <1>1, <2>1 DEF OnPath
<1>3. ReadFetched(path) = L
  BY <1>1, <1>2, FetchedFact
<1>4. ReadData(path) = Descend(path, L, top)
  BY <1>2, <1>3, <1>1 DEF ReadData
<1>5. top \in Data /\ C \in [AnyNode -> SUBSET Data] /\ C[ParentOf(i)] = {top}
  <2>1. top \in Data
    BY <1>1 DEF CachesOK, Entry
  <2>. QED
    BY <1>1, <2>1
<1>6. ReadPosition(i) = ReadData(path)[L - 1][WhichChild(i)]
  BY <1>1, Zenon DEF ReadPosition
<1>. HIDE DEF top, C, L, path
<1>7. Descend(path, L, top)[L - 1] \in C[path[L - 1 + 1]]
  <2>1. L \in 1 .. L /\ L - 1 \in L - 1 .. L - 1 /\ ~\E l \in L .. L - 1 : TRUE
    BY <1>1
  <2>2. top \in C[path[L]]
    BY <1>1, <1>5
  <2>. QED
    BY <1>1, <1>5, <2>1, <2>2, DescendIn DEF L, path
<1>8. L - 1 + 1 = L
  BY <1>1
<1>9. Descend(path, L, top)[L - 1] = top
  BY <1>1, <1>5, <1>7, <1>8
<1>. QED
  BY <1>4, <1>6, <1>9 DEF OnPath, top, L

(***************************************************************************)
(* The trie is a position map: load returns for every index the position   *)
(* stored last, or the null position if there is none, at every step,      *)
(* while a path is written back and between stores.  Where a OneWriteWoram *)
(* broke off a store, it or what was there before is returned for the      *)
(* index of that store, and all others are as they were.                   *)
(***************************************************************************)
THEOREM TrieStoredIsLoaded == Spec => []StoredIsLoaded
<1>1. TrieInv => StoredIsLoaded
  <2>. SUFFICES ASSUME TrieInv PROVE StoredIsLoaded
    OBVIOUS
  <2>1. CASE SomeWhole
    <3>1. PICK D : Whole(D)
      BY <2>1 DEF SomeWhole
    <3>2. \A i \in Leaf : ReadPosition(i) = Pos(D, i)
      BY <3>1, IndexFacts, ReadIs DEF TrieInv, Calls, Whole
    <3>. QED
      BY <3>1, <3>2 DEF Whole, Leaves, StoredIsLoaded
  <2>2. CASE Broken
    <3>1. PICK C : Versions(C)
      BY <2>2 DEF TrieInv, Broken, SomeVersions
    <3>2. CachesOK /\ WriteChain /\ Reaches(C) /\ ReadIn(C)
      BY <3>1, VersionsReach DEF TrieInv, Calls, Versions
    <3>. SUFFICES ASSUME NEW i \in Leaf
                  PROVE  LET current == {r \in request : pc # "fetch" /\ r.index = i}
                         IN  ReadPosition(i) \in
                               IF current # {} THEN {r.buf : r \in current}
                               ELSE contents[i]
      BY DEF StoredIsLoaded
    <3>. DEFINE current == {r \in request : pc # "fetch" /\ r.index = i}
    <3>3. CASE current = {}
      <4>1. ReadPosition(i) \in Answers(C, i)
        BY <3>2, IndexFacts, ReadIsIn
      <4>2. Answers(C, i) \subseteq contents[i]
        BY <3>1, <3>3 DEF Versions, Offered, Offers
      <4>. QED
        BY <3>3, <4>1, <4>2
    <3>4. CASE current # {}
      <4>1. PICK r \in request : pc # "fetch" /\ r.index = i
        BY <3>4
      <4>2. pc \in {"level", "ltws"}
        BY <4>1 DEF TrieInv, Calls, CountersOK
      <4>3. OnPath(r)
        BY <2>2, <4>1, <4>2 DEF Broken
      <4>4. ReadPosition(i) = r.buf
        BY <3>2, <4>1, <4>3, OnPathRead
      <4>. QED
        BY <4>1, <4>4
    <3>. QED
      BY <3>3, <3>4
  <2>. QED
    BY <2>1, <2>2 DEF TrieInv
<1>. QED
  BY <1>1, AlwaysTrieInv, PTL
-----------------------------------------------------------------------------
(***************************************************************************)
(* The trie as an array of positions, the archetype of posmap.h: a store   *)
(* takes effect in one step, when its path has been fetched into the write *)
(* cache, and has been called but not taken effect until then.             *)
(***************************************************************************)
Visible == [index \in Leaf |-> ReadPosition(index)]
Pending == {r \in request : pc = "fetch"}
Device == INSTANCE BlockDevice WITH
  Index <- Leaf, Block <- 0 .. MaxLeaf \cup {Nptr}, MayRefuse <- OneWrite,
  contents <- Visible, request <- Pending

ImplementsDevice == Device!DeviceSpec

\* What load returns for an index, by the history of the stores.
Current(i) ==
  LET current == {r \in request : pc # "fetch" /\ r.index = i}
  IN  IF current # {} THEN {r.buf : r \in current} ELSE contents[i]

\* Without a store that has thrown it is one position.
Certain == \A i \in Leaf : \E p \in 0 .. MaxLeaf \cup {Nptr} : contents[i] = {p}

\* Only a return changes the history, and leaves one position.
LEMMA CertainNext ==
  ASSUME ~OneWrite, TrieInv, Certain, [Next]_vars
  PROVE  Certain'
<1>1. CASE StoreReturn
  <2>1. PICK r \in request : request = {r}
    BY <1>1 DEF StoreReturn, TrieInv, Calls, CountersOK
  <2>2. r.buf \in 0 .. MaxLeaf
    BY DEF TrieInv, Calls, CountersOK
  <2>3. ASSUME NEW i \in Leaf
        PROVE  contents'[i] = IF i = r.index THEN {r.buf} ELSE contents[i]
    <3>1. contents'[i] = IF \E q \in request : q.index = i
                         THEN {q.buf : q \in request} ELSE contents[i]
      BY <1>1 DEF StoreReturn, Acknowledged
    <3>. QED
      BY <2>1, <3>1
  <2>. QED
    BY <2>2, <2>3 DEF Certain
<1>2. CASE ~StoreReturn
  <2>1. UNCHANGED contents
    BY <1>2 DEF Next, vars, Load, StoreCall, StoreFetch, WriteBack, Refresh,
                WriteNode, DummyWrite, StoreThrows
  <2>. QED
    BY <2>1 DEF Certain
<1>. QED
  BY <1>1, <1>2

\* What load returns is then determined by the history.
LEMMA CurrentRead ==
  ASSUME TrieInv, Certain, StoredIsLoaded, NEW i \in Leaf
  PROVE  /\ Current(i) = {ReadPosition(i)}
         /\ ReadPosition(i) \in 0 .. MaxLeaf \cup {Nptr}
<1>. DEFINE current == {r \in request : pc # "fetch" /\ r.index = i}
<1>1. ReadPosition(i) \in Current(i)
  BY DEF StoredIsLoaded, Current
<1>2. \E p \in 0 .. MaxLeaf \cup {Nptr} : Current(i) = {p}
  <2>1. CASE current = {}
    BY <2>1 DEF Certain, Current
  <2>2. CASE current # {}
    <3>1. PICK r \in request : r \in current
      BY <2>2
    <3>2. request = {r} /\ current = {r} /\ r.buf \in 0 .. MaxLeaf
      BY <3>1 DEF TrieInv, Calls, CountersOK
    <3>. QED
      BY <2>2, <3>2 DEF Current
  <2>. QED
    BY <2>1, <2>2
<1>. QED
  BY <1>1, <1>2

\* The invariant of the refinement.
Determined == \A i \in Leaf : /\ Current(i) = {ReadPosition(i)}
                              /\ ReadPosition(i) \in 0 .. MaxLeaf \cup {Nptr}

\* It holds wherever the others do.
LEMMA DeterminedFact == TrieInv /\ Certain /\ StoredIsLoaded => Determined
  BY CurrentRead DEF Determined

\* Every step is one of the device or leaves all positions as they are.
LEMMA DeviceStep ==
  ASSUME ~OneWrite, TrieInv, Determined, Determined', [Next]_vars
  PROVE  [Device!DeviceNext]_(Device!deviceVars)
<1>1. ASSUME NEW i \in Leaf, Current(i)' = Current(i)
      PROVE  ReadPosition(i)' = ReadPosition(i)
  BY <1>1 DEF Determined
<1>2. ASSUME \A i \in Leaf : Current(i)' = Current(i)
      PROVE  Visible' = Visible
  BY <1>1, <1>2 DEF Visible
<1>3. ASSUME UNCHANGED <<request, contents>>, pc = "fetch" <=> pc' = "fetch"
      PROVE  [Device!DeviceNext]_(Device!deviceVars)
  <2>1. \A i \in Leaf : Current(i)' = Current(i)
    BY <1>3 DEF Current
  <2>2. Pending' = Pending
    BY <1>3 DEF Pending
  <2>. QED
    BY <1>2, <2>1, <2>2 DEF Device!deviceVars
<1>4. ASSUME NEW index \in Leaf, NEW pos \in 0 .. MaxLeaf, StoreCall(index, pos)
      PROVE  Device!DeviceNext
  <2>1. /\ pc = "idle" /\ request = {} /\ pc' = "fetch" /\ UNCHANGED contents
        /\ request' = {[index |-> index, buf |-> pos]}
    BY <1>4 DEF StoreCall, TrieInv, Calls, CountersOK
  <2>2. \A i \in Leaf : Current(i)' = Current(i)
    BY <2>1 DEF Current
  <2>3. Pending = {} /\ Pending' = {[index |-> index, buf |-> pos]}
    BY <2>1 DEF Pending
  <2>4. Device!CallStore(index, pos)
    BY <1>2, <2>2, <2>3 DEF Device!CallStore
  <2>. QED
    BY <2>4 DEF Device!DeviceNext
<1>5. ASSUME StoreFetch PROVE Device!DeviceNext
  <2>1. PICK r \in request : request = {r} /\ Pending = {r}
    BY <1>5 DEF StoreFetch, TrieInv, Calls, CountersOK, Pending
  <2>2. /\ r.index \in Leaf
        /\ UNCHANGED <<request, contents>> /\ pc = "fetch" /\ pc' = "level"
    BY <1>5, <2>1 DEF StoreFetch, TrieInv, Calls, CountersOK
  <2>3. Pending' = {}
    BY <2>2 DEF Pending
  <2>4. ASSUME NEW i \in Leaf, i # r.index PROVE Current(i)' = Current(i)
    BY <2>1, <2>2, <2>4 DEF Current
  <2>5. Current(r.index)' = {r.buf}
    <3>1. {q \in request' : pc' # "fetch" /\ q.index = r.index} = {r}
      BY <2>1, <2>2
    <3>. QED
      BY <3>1 DEF Current
  <2>6. ReadPosition(r.index)' = r.buf
    BY <2>2, <2>5 DEF Determined
  <2>7. Visible' = [Visible EXCEPT ![r.index] = r.buf]
    BY <1>1, <2>2, <2>4, <2>6 DEF Visible
  <2>8. Device!ReturnStore
    BY <2>1, <2>3, <2>7 DEF Device!ReturnStore
  <2>. QED
    BY <2>8 DEF Device!DeviceNext
<1>6. ASSUME StoreReturn PROVE UNCHANGED Device!deviceVars
  <2>1. PICK r \in request : request = {r}
    BY <1>6 DEF StoreReturn, TrieInv, Calls, CountersOK
  <2>2. /\ request' = {} /\ pc = "level" /\ pc' = "idle"
        /\ contents' = Acknowledged
    BY <1>6 DEF StoreReturn
  <2>3. Pending = {} /\ Pending' = {}
    BY <2>2 DEF Pending
  <2>4. ASSUME NEW i \in Leaf PROVE Current(i)' = Current(i)
    <3>1. contents'[i] = IF r.index = i THEN {r.buf} ELSE contents[i]
      BY <2>1, <2>2 DEF Acknowledged
    <3>2. Current(i)' = contents'[i]
      BY <2>2 DEF Current
    <3>3. Current(i) = IF r.index = i THEN {r.buf} ELSE contents[i]
      <4>1. CASE r.index = i
        <5>1. {q \in request : pc # "fetch" /\ q.index = i} = {r}
          BY <2>1, <2>2, <4>1
        <5>. QED
          BY <4>1, <5>1 DEF Current
      <4>2. CASE r.index # i
        BY <2>1, <4>2 DEF Current
      <4>. QED
        BY <4>1, <4>2
    <3>. QED
      BY <3>1, <3>2, <3>3
  <2>. QED
    BY <1>2, <2>3, <2>4 DEF Device!deviceVars
<1>7. ASSUME NEW index \in Leaf, Load(index)
      PROVE  UNCHANGED <<request, contents, pc>>
  BY <1>7 DEF Load
<1>8. WriteBack \/ Refresh \/ WriteNode \/ DummyWrite
        => /\ UNCHANGED <<request, contents>>
           /\ pc # "fetch" /\ pc' # "fetch"
  BY DEF WriteBack, Refresh, WriteNode, DummyWrite
<1>9. ~StoreThrows
  BY DEF StoreThrows
<1>10. UNCHANGED vars => UNCHANGED <<request, contents, pc>>
  BY DEF vars
<1>. QED
  BY <1>3, <1>4, <1>5, <1>6, <1>7, <1>8, <1>9, <1>10 DEF Next

\* At first every position is the null position.
LEMMA InitDevice == Init /\ Determined => Device!DeviceInit
<1>. SUFFICES ASSUME Init, Determined PROVE Device!DeviceInit
  OBVIOUS
<1>1. Visible \in [Leaf -> 0 .. MaxLeaf \cup {Nptr}]
  BY DEF Determined, Visible
<1>2. Pending = {}
  BY DEF Init, Pending
<1>. QED
  BY <1>1, <1>2 DEF Device!DeviceInit

(***************************************************************************)
(* Over a nodestore that does not throw, the trie implements an array of   *)
(* positions in which only a store changes anything, and only the position *)
(* it names: fetching, the write-back and the refreshes it causes in       *)
(* nodestore, and loads with the read cache they fill, change nothing that *)
(* load can return.                                                        *)
(***************************************************************************)
THEOREM TrieImplementsDevice ==
  ASSUME ~OneWrite PROVE Spec => ImplementsDevice
<1>1. Init => Certain
  BY DEF Init, Certain
<1>2. TrieInv /\ Certain /\ [Next]_vars => Certain'
  BY CertainNext
<1>3. TrieInv /\ Determined /\ Determined' /\ [Next]_vars
        => [Device!DeviceNext]_(Device!deviceVars)
  BY DeviceStep
<1>4. Spec => []Certain
  BY <1>1, <1>2, AlwaysTrieInv, PTL DEF Spec
<1>5. Spec => []Determined
  BY <1>4, DeterminedFact, AlwaysTrieInv, TrieStoredIsLoaded, PTL
<1>. QED
  BY <1>3, <1>5, InitDevice, AlwaysTrieInv, PTL
     DEF Spec, ImplementsDevice, Device!DeviceSpec
=============================================================================
