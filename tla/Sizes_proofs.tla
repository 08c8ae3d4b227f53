---------------------------- MODULE Sizes_proofs ---------------------------
(***************************************************************************)
(* Proofs about the arithmetic of Sizes and Factories, for every size,     *)
(* blocksize, branching factor and memory.                                 *)
(*                                                                         *)
(* The recursive functions (the lengths of numbers, powers of two, the     *)
(* rows of a trie, the depth of an index) exist by Recursion, and what is  *)
(* claimed of all their values is shown by Descent: if it failed anywhere, *)
(* it would fail at a smaller number too.                                  *)
(*                                                                         *)
(* The argument for TrieMemoryFits: the ring of the nodes has no more bits *)
(* than the ring of the data, so that its positions are at most twice as   *)
(* large and its pointers at most one byte longer; prefsize sets apart the *)
(* blocks of at least four nodes for each node, so that nodes of longer    *)
(* pointers, at most twice as large, are left a holding area as well.      *)
(*                                                                         *)
(* The argument for RecursionFits: blocks of the map of x indices and of   *)
(* its own map may be more than those for y > x indices, as the positions  *)
(* of a longer ring may take one byte more.  If they are, half of x and    *)
(* what the second map takes are all that matters, and the second map does *)
(* not grow: a block holds the square of that many pointers of one byte    *)
(* more.  A level takes prefsize of its own size or, from the second on,   *)
(* of a number that is no smaller and leaves three quarters of the memory. *)
(*                                                                         *)
(* The argument for BmnoFits: sizes are a size_t, so that 14 positions or  *)
(* more fit into a block of a map; at every level with more than 14        *)
(* indices, blocks are left for twice as many and 90 more.                 *)
(***************************************************************************)
EXTENDS Factories, TLAPS, NaturalsInduction, WellFoundedInduction

\* Every set of numbers has a least element.
LEMMA LeastElement ==
  ASSUME NEW T \in SUBSET Nat, T # {}
  PROVE  \E x \in T : \A y \in T : x <= y
<1>1. PICK x \in T : \A y \in T : <<y, x>> \notin OpToRel(<, Nat)
  <2>1. \E x \in T : \A y \in T : <<y, x>> \notin OpToRel(<, Nat)
    BY NatLessThanWellFounded, WFMin
  <2>. QED
    BY <2>1
<1>2. ASSUME NEW y \in T PROVE x <= y
  <2>1. <<y, x>> \in Nat \X Nat
    OBVIOUS
  <2>2. ~(y < x)
    BY <1>1, <2>1 DEF OpToRel
  <2>. QED
    BY <2>2
<1>. QED
  BY <1>2

\* A set in which no element is the least is empty.
LEMMA Descent ==
  ASSUME NEW T \in SUBSET Nat, \A n \in T : \E m \in T : m < n
  PROVE  T = {}
<1>1. SUFFICES ASSUME T # {} PROVE FALSE
  OBVIOUS
<1>2. PICK n \in T : \A m \in T : n <= m
  BY <1>1, LeastElement
<1>3. PICK m \in T : m < n
  OBVIOUS
<1>. QED
  BY <1>2, <1>3

\* What Min chooses from a set of numbers.
LEMMA MinFact ==
  ASSUME NEW T \in SUBSET Nat, T # {}
  PROVE  Min(T) \in T /\ \A y \in T : Min(T) <= y
  BY LeastElement DEF Min

(***************************************************************************)
(* A function whose value at every number is computed from its value at a  *)
(* smaller one exists: bitlen, bytelen and the like call themselves once.  *)
(***************************************************************************)
Computed(f, m, V, v, prev, step) ==
  /\ f \in [0 .. m -> V]
  /\ f[0] = v
  /\ \A n \in 1 .. m : f[n] = step[<<n, f[prev[n]]>>]

\* f is v at 0, and elsewhere what step makes of the value at prev.
Computes(f, V, v, prev, step) ==
  /\ f \in [Nat -> V]
  /\ f[0] = v
  /\ \A n \in Nat \ {0} : f[n] = step[<<n, f[prev[n]]>>]

\* Such a function exists.
LEMMA Recursion ==
  ASSUME NEW V, NEW v \in V, NEW prev \in [Nat -> Nat],
         \A n \in Nat \ {0} : prev[n] < n,
         NEW step \in [Nat \X V -> V]
  PROVE  \E f : Computes(f, V, v, prev, step)
<1>. DEFINE Upto(f, m) == Computed(f, m, V, v, prev, step)
<1>1. ASSUME NEW m \in Nat PROVE \E f : Upto(f, m)
  <2>. DEFINE T == {l \in Nat : ~\E f : Upto(f, l)}
  <2>1. SUFFICES ASSUME T # {} PROVE FALSE
    OBVIOUS
  <2>2. T \in SUBSET Nat
    OBVIOUS
  <2>3. PICK l \in T : \A k \in T : l <= k
    <3>. HIDE DEF T
    <3>. QED
      BY <2>1, <2>2, LeastElement
  <2>4. l # 0
    <3>. DEFINE f == [x \in 0 .. 0 |-> v]
    <3>1. f \in [0 .. 0 -> V] /\ f[0] = v /\ ~\E n \in 1 .. 0 : TRUE
      OBVIOUS
    <3>. HIDE DEF f
    <3>2. Upto(f, 0)
      BY <3>1 DEF Computed
    <3>. QED
      BY <3>2
  <2>5. l - 1 \in Nat /\ l - 1 \notin T
    BY <2>3, <2>4
  <2>6. PICK f : Upto(f, l - 1)
    BY <2>5
  <2>7. prev[l] \in 0 .. l - 1 /\ l \in Nat
    BY <2>4
  <2>. DEFINE w == step[<<l, f[prev[l]]>>]
              g == [x \in 0 .. l |-> IF x = l THEN w ELSE f[x]]
  <2>8. f \in [0 .. l - 1 -> V] /\ w \in V
    BY <2>6, <2>7 DEF Computed
  <2>9. g \in [0 .. l -> V] /\ g[0] = v
    <3>. HIDE DEF w
    <3>. QED
      BY <2>4, <2>6, <2>7, <2>8 DEF Computed
  <2>10. ASSUME NEW n \in 1 .. l PROVE g[n] = step[<<n, g[prev[n]]>>]
    <3>1. prev[n] \in 0 .. n - 1 /\ prev[n] # l /\ prev[n] \in 0 .. l
      <4>1. n \in Nat \ {0} /\ n <= l
        BY <2>7
      <4>. QED
        BY <2>7, <4>1
    <3>2. g[prev[n]] = f[prev[n]]
      BY <3>1
    <3>3. CASE n = l
      <4>1. g[l] = w
        BY <2>7
      <4>. HIDE DEF g
      <4>. QED
        BY <3>2, <3>3, <4>1
    <3>4. CASE n # l
      <4>1. n \in 1 .. l - 1 /\ g[n] = f[n]
        BY <2>7, <3>4
      <4>. HIDE DEF g
      <4>. QED
        BY <2>6, <3>2, <4>1 DEF Computed
    <3>. QED
      BY <3>3, <3>4
  <2>11. Upto(g, l)
    <3>. HIDE DEF g
    <3>. QED
      BY <2>9, <2>10 DEF Computed
  <2>. QED
    BY <2>3, <2>11
<1>2. ASSUME NEW a \in Nat, NEW b \in Nat, NEW f, NEW g, Upto(f, a),
             Upto(g, b),
             NEW m \in 0 .. a, m <= b
      PROVE  f[m] = g[m]
  <2>. DEFINE T == {l \in 0 .. a : l <= b /\ f[l] # g[l]}
  <2>1. SUFFICES ASSUME T # {} PROVE FALSE
    BY <1>2
  <2>2. T \in SUBSET Nat
    OBVIOUS
  <2>3. PICK l \in T : \A k \in T : l <= k
    <3>. HIDE DEF T
    <3>. QED
      BY <2>1, <2>2, LeastElement
  <2>4. l # 0
    BY <1>2, <2>3 DEF Computed
  <2>5. l \in Nat \ {0} /\ l \in 1 .. a /\ l \in 1 .. b
    BY <2>3, <2>4
  <2>6. prev[l] \in Nat /\ prev[l] < l
    BY <2>5
  <2>7. f[prev[l]] = g[prev[l]]
    BY <2>3, <2>5, <2>6
  <2>8. f[l] = step[<<l, f[prev[l]]>>] /\ g[l] = step[<<l, g[prev[l]]>>]
    BY <1>2, <2>5 DEF Computed
  <2>. QED
    BY <2>3, <2>7, <2>8
<1>. DEFINE Some(m) == CHOOSE f : Upto(f, m)
            F == [n \in Nat |-> Some(n)[n]]
<1>3. ASSUME NEW m \in Nat PROVE Upto(Some(m), m)
  BY <1>1
<1>. HIDE DEF Some
<1>4. ASSUME NEW m \in Nat PROVE F[m] \in V /\ F[m] = Some(m)[m]
  <2>1. Some(m) \in [0 .. m -> V]
    BY <1>3 DEF Computed
  <2>. QED
    BY <2>1
<1>5. F \in [Nat -> V]
  BY <1>4
<1>6. F[0] = v
  BY <1>3, <1>4 DEF Computed
<1>. HIDE DEF F
<1>7. ASSUME NEW n \in Nat \ {0} PROVE F[n] = step[<<n, F[prev[n]]>>]
  <2>1. prev[n] \in Nat /\ prev[n] < n /\ n \in 1 .. n
        /\ prev[n] \in 0 .. prev[n]
    OBVIOUS
  <2>2. Some(n)[n] = step[<<n, Some(n)[prev[n]]>>]
    BY <1>3, <2>1 DEF Computed
  <2>3. Some(prev[n])[prev[n]] = Some(n)[prev[n]]
    <3>1. Upto(Some(n), n) /\ Upto(Some(prev[n]), prev[n])
      BY <1>3, <2>1
    <3>. HIDE DEF Upto
    <3>. QED
      BY <1>2, <2>1, <3>1
  <2>. QED
    BY <1>4, <2>1, <2>2, <2>3
<1>. QED
  BY <1>5, <1>6, <1>7 DEF Computes

\* Division rounds down.
LEMMA DivFacts ==
  ASSUME NEW n \in Nat, NEW d \in Nat \ {0}
  PROVE  /\ n \div d \in Nat
         /\ d * (n \div d) <= n
         /\ n < d * (n \div d) + d
<1>. DEFINE q == n \div d
            r == n % d
<1>1. q \in Int /\ r \in 0 .. d - 1 /\ n = d * q + r
  OBVIOUS
<1>. HIDE DEF q, r
<1>2. q >= 0
  <2>1. SUFFICES ASSUME q <= -1 PROVE FALSE
    BY <1>1
  <2>2. d * q <= d * (-1)
    BY <1>1, <2>1
  <2>. QED
    BY <1>1, <2>2
<1>. QED
  BY <1>1, <1>2 DEF q

\* What is below a multiple is below it after division.
LEMMA DivBelow ==
  ASSUME NEW n \in Nat, NEW d \in Nat \ {0}, NEW k \in Nat, n < d * k
  PROVE  n \div d < k
<1>. DEFINE q == n \div d
<1>1. q \in Nat /\ d * q <= n
  BY DivFacts
<1>. HIDE DEF q
<1>2. SUFFICES ASSUME q >= k PROVE FALSE
  BY <1>1 DEF q
<1>3. d * k <= d * q
  BY <1>1, <1>2
<1>. QED
  BY <1>1, <1>3

-----------------------------------------------------------------------------
\* The recursive functions are what their definitions say.
LEMMA BitLenFact ==
  /\ BitLen[0] = 0
  /\ \A n \in Nat \ {0} : BitLen[n] = 1 + BitLen[n \div 2]
  /\ \A n \in Nat : BitLen[n] \in Nat
<1>. DEFINE prev == [n \in Nat |-> IF n = 0 THEN 0 ELSE n \div 2]
            step == [p \in Nat \X Nat |-> 1 + p[2]]
<1>1. \A n \in Nat \ {0} : n \div 2 \in Nat /\ n \div 2 < n
  OBVIOUS
<1>2. /\ prev \in [Nat -> Nat]
      /\ \A n \in Nat \ {0} : prev[n] = n \div 2
      /\ \A n \in Nat \ {0} : prev[n] < n
  BY <1>1
<1>3. step \in [Nat \X Nat -> Nat] /\ 0 \in Nat
  OBVIOUS
<1>4. \A n \in Nat, x \in Nat : step[<<n, x>>] = 1 + x
  OBVIOUS
<1>. HIDE DEF prev, step
<1>5. PICK f : Computes(f, Nat, 0, prev, step)
  BY <1>1, <1>2, <1>3, Recursion
<1>6. f \in [Nat -> Nat] /\ f[0] = 0
  BY <1>5 DEF Computes
<1>7. ASSUME NEW n \in Nat \ {0} PROVE f[n] = 1 + f[n \div 2]
  <2>1. n \div 2 \in Nat /\ f[n \div 2] \in Nat /\ n \in Nat
    BY <1>1, <1>6
  <2>2. f[n] = step[<<n, f[n \div 2]>>]
    BY <1>2, <1>5 DEF Computes
  <2>. QED
    BY <1>4, <2>1, <2>2
<1>. DEFINE next(n) == IF n = 0 THEN 0 ELSE 1 + f[n \div 2]
<1>8. \A n \in Nat : f[n] = next(n)
  BY <1>6, <1>7
<1>. HIDE DEF next
<1>9. f = [n \in Nat |-> next(n)]
  BY <1>6, <1>8
<1>10. BitLen = [n \in Nat |-> IF n = 0 THEN 0 ELSE 1 + BitLen[n \div 2]]
  BY <1>9, Zenon DEF BitLen, next
<1>. DEFINE T == {n \in Nat : BitLen[n] \notin Nat}
<1>11. ASSUME NEW n \in T PROVE \E m \in T : m < n
  <2>1. n \in Nat \ {0} /\ BitLen[n] = 1 + BitLen[n \div 2]
    BY <1>3, <1>10
  <2>2. BitLen[n \div 2] \notin Nat
    BY <2>1
  <2>. QED
    BY <1>1, <2>1, <2>2
<1>12. T = {}
  <2>1. T \in SUBSET Nat
    OBVIOUS
  <2>. HIDE DEF T
  <2>. QED
    BY <1>11, <2>1, Descent
<1>. QED
  BY <1>3, <1>10, <1>12

\* As with bits.
LEMMA ByteLenFact ==
  /\ ByteLen[0] = 0
  /\ \A n \in Nat \ {0} : ByteLen[n] = 1 + ByteLen[n \div 256]
  /\ \A n \in Nat : ByteLen[n] \in Nat
<1>. DEFINE prev == [n \in Nat |-> IF n = 0 THEN 0 ELSE n \div 256]
            step == [p \in Nat \X Nat |-> 1 + p[2]]
<1>1. \A n \in Nat \ {0} : n \div 256 \in Nat /\ n \div 256 < n
  OBVIOUS
<1>2. /\ prev \in [Nat -> Nat]
      /\ \A n \in Nat \ {0} : prev[n] = n \div 256
      /\ \A n \in Nat \ {0} : prev[n] < n
  BY <1>1
<1>3. step \in [Nat \X Nat -> Nat] /\ 0 \in Nat
  OBVIOUS
<1>4. \A n \in Nat, x \in Nat : step[<<n, x>>] = 1 + x
  OBVIOUS
<1>. HIDE DEF prev, step
<1>5. PICK f : Computes(f, Nat, 0, prev, step)
  BY <1>1, <1>2, <1>3, Recursion
<1>6. f \in [Nat -> Nat] /\ f[0] = 0
  BY <1>5 DEF Computes
<1>7. ASSUME NEW n \in Nat \ {0} PROVE f[n] = 1 + f[n \div 256]
  <2>1. n \div 256 \in Nat /\ f[n \div 256] \in Nat /\ n \in Nat
    BY <1>1, <1>6
  <2>2. f[n] = step[<<n, f[n \div 256]>>]
    BY <1>2, <1>5 DEF Computes
  <2>. QED
    BY <1>4, <2>1, <2>2
<1>. DEFINE next(n) == IF n = 0 THEN 0 ELSE 1 + f[n \div 256]
<1>8. \A n \in Nat : f[n] = next(n)
  BY <1>6, <1>7
<1>. HIDE DEF next
<1>9. f = [n \in Nat |-> next(n)]
  BY <1>6, <1>8
<1>10. ByteLen = [n \in Nat |-> IF n = 0 THEN 0 ELSE 1 + ByteLen[n \div 256]]
  BY <1>9, ZenonT(40) DEF ByteLen, next
<1>. DEFINE T == {n \in Nat : ByteLen[n] \notin Nat}
<1>11. ASSUME NEW n \in T PROVE \E m \in T : m < n
  <2>1. n \in Nat \ {0} /\ ByteLen[n] = 1 + ByteLen[n \div 256]
    BY <1>3, <1>10
  <2>2. ByteLen[n \div 256] \notin Nat
    BY <2>1
  <2>. QED
    BY <1>1, <2>1, <2>2
<1>12. T = {}
  <2>1. T \in SUBSET Nat
    OBVIOUS
  <2>. HIDE DEF T
  <2>. QED
    BY <1>11, <2>1, Descent
<1>. QED
  BY <1>3, <1>10, <1>12

\* Powers of two are numbers.
LEMMA ShiftedFact ==
  /\ Shifted[0] = 1
  /\ \A n \in Nat \ {0} : Shifted[n] = 2 * Shifted[n - 1]
  /\ \A n \in Nat : Shifted[n] \in Nat \ {0}
<1>. DEFINE prev == [n \in Nat |-> IF n = 0 THEN 0 ELSE n - 1]
            step == [p \in Nat \X (Nat \ {0}) |-> 2 * p[2]]
<1>1. \A n \in Nat \ {0} : n - 1 \in Nat /\ n - 1 < n
  OBVIOUS
<1>2. /\ prev \in [Nat -> Nat]
      /\ \A n \in Nat \ {0} : prev[n] = n - 1
      /\ \A n \in Nat \ {0} : prev[n] < n
  BY <1>1
<1>3. step \in [Nat \X (Nat \ {0}) -> Nat \ {0}] /\ 1 \in Nat \ {0}
  OBVIOUS
<1>4. \A n \in Nat, x \in Nat \ {0} : step[<<n, x>>] = 2 * x
  OBVIOUS
<1>. HIDE DEF prev, step
<1>5. PICK f : Computes(f, Nat \ {0}, 1, prev, step)
  BY <1>1, <1>2, <1>3, Recursion
<1>6. f \in [Nat -> Nat \ {0}] /\ f[0] = 1
  BY <1>5 DEF Computes
<1>7. ASSUME NEW n \in Nat \ {0} PROVE f[n] = 2 * f[n - 1]
  <2>1. n - 1 \in Nat /\ f[n - 1] \in Nat \ {0} /\ n \in Nat
    BY <1>1, <1>6
  <2>2. f[n] = step[<<n, f[n - 1]>>]
    BY <1>2, <1>5 DEF Computes
  <2>. QED
    BY <1>4, <2>1, <2>2
<1>. DEFINE next(n) == IF n = 0 THEN 1 ELSE 2 * f[n - 1]
<1>8. \A n \in Nat : f[n] = next(n)
  BY <1>6, <1>7
<1>. HIDE DEF next
<1>9. f = [n \in Nat |-> next(n)]
  BY <1>6, <1>8
<1>10. Shifted = [n \in Nat |-> IF n = 0 THEN 1 ELSE 2 * Shifted[n - 1]]
  BY <1>9, Zenon DEF Shifted, next
<1>. DEFINE T == {n \in Nat : Shifted[n] \notin Nat \ {0}}
<1>11. ASSUME NEW n \in T PROVE \E m \in T : m < n
  <2>1. n \in Nat \ {0} /\ Shifted[n] = 2 * Shifted[n - 1]
    BY <1>3, <1>10
  <2>2. Shifted[n - 1] \notin Nat \ {0}
    BY <2>1
  <2>. QED
    BY <1>1, <2>1, <2>2
<1>12. T = {}
  <2>1. T \in SUBSET Nat
    OBVIOUS
  <2>. HIDE DEF T
  <2>. QED
    BY <1>11, <2>1, Descent
<1>. QED
  BY <1>3, <1>10, <1>12

-----------------------------------------------------------------------------
\* The instances that the behaviour steps through.
SizesOK ==
  /\ size \in Nat \ {0}
  /\ blocksize \in Nat \ {0}
  /\ branching \in Nat \ {0, 1}
  /\ memory \in Nat \ {0}

\* SoFar is what its definition says.
LEMMA SoFarFact ==
  ASSUME SizesOK
  PROVE
  /\ SoFar[0] = 0
  /\ \A n \in Nat \ {0} : SoFar[n] = branching * (SoFar[n - 1] + 1)
  /\ \A n \in Nat : SoFar[n] \in Nat
<1>. DEFINE prev == [n \in Nat |-> IF n = 0 THEN 0 ELSE n - 1]
            step == [p \in Nat \X Nat |-> branching * (p[2] + 1)]
<1>1. \A n \in Nat \ {0} : n - 1 \in Nat /\ n - 1 < n
  OBVIOUS
<1>2. /\ prev \in [Nat -> Nat]
      /\ \A n \in Nat \ {0} : prev[n] = n - 1
      /\ \A n \in Nat \ {0} : prev[n] < n
  BY <1>1
<1>3. step \in [Nat \X Nat -> Nat] /\ 0 \in Nat
  BY DEF SizesOK
<1>4. \A n \in Nat, x \in Nat : step[<<n, x>>] = branching * (x + 1)
  OBVIOUS
<1>. HIDE DEF prev, step
<1>5. PICK f : Computes(f, Nat, 0, prev, step)
  BY <1>1, <1>2, <1>3, Recursion
<1>6. f \in [Nat -> Nat] /\ f[0] = 0
  BY <1>5 DEF Computes
<1>7. ASSUME NEW n \in Nat \ {0} PROVE f[n] = branching * (f[n - 1] + 1)
  <2>1. n - 1 \in Nat /\ f[n - 1] \in Nat /\ n \in Nat
    BY <1>1, <1>6
  <2>2. f[n] = step[<<n, f[n - 1]>>]
    BY <1>2, <1>5 DEF Computes
  <2>. QED
    BY <1>4, <2>1, <2>2
<1>. DEFINE next(n) == IF n = 0 THEN 0 ELSE branching * (f[n - 1] + 1)
<1>8. \A n \in Nat : f[n] = next(n)
  BY <1>6, <1>7
<1>. HIDE DEF next
<1>9. f = [n \in Nat |-> next(n)]
  BY <1>6, <1>8
<1>10. SoFar = [n \in Nat |-> IF n = 0 THEN 0 ELSE branching * (SoFar[n - 1] + 1)]
  BY <1>9, Zenon DEF SoFar, next
<1>. DEFINE T == {n \in Nat : SoFar[n] \notin Nat}
<1>11. ASSUME NEW n \in T PROVE \E m \in T : m < n
  <2>1. n \in Nat \ {0} /\ SoFar[n] = branching * (SoFar[n - 1] + 1)
    BY <1>3, <1>10
  <2>2. SoFar[n - 1] \notin Nat
    BY <2>1 DEF SizesOK
  <2>. QED
    BY <1>1, <2>1, <2>2
<1>12. T = {}
  <2>1. T \in SUBSET Nat
    OBVIOUS
  <2>. HIDE DEF T
  <2>. QED
    BY <1>11, <2>1, Descent
<1>. QED
  BY <1>3, <1>10, <1>12

\* And so is Depth.
LEMMA DepthFact ==
  ASSUME SizesOK
  PROVE
  /\ Depth[0] = 0
  /\ \A n \in Nat \ {0} : Depth[n] = 1 + Depth[(n - 1) \div branching]
  /\ \A n \in Nat : Depth[n] \in Nat
<1>. DEFINE prev == [n \in Nat |-> IF n = 0 THEN 0 ELSE (n - 1) \div branching]
            step == [p \in Nat \X Nat |-> 1 + p[2]]
<1>1. \A n \in Nat \ {0} : (n - 1) \div branching \in Nat /\ (n - 1) \div branching < n
  BY DivFacts DEF SizesOK
<1>2. /\ prev \in [Nat -> Nat]
      /\ \A n \in Nat \ {0} : prev[n] = (n - 1) \div branching
      /\ \A n \in Nat \ {0} : prev[n] < n
  BY <1>1
<1>3. step \in [Nat \X Nat -> Nat] /\ 0 \in Nat
  OBVIOUS
<1>4. \A n \in Nat, x \in Nat : step[<<n, x>>] = 1 + x
  OBVIOUS
<1>. HIDE DEF prev, step
<1>5. PICK f : Computes(f, Nat, 0, prev, step)
  BY <1>1, <1>2, <1>3, Recursion
<1>6. f \in [Nat -> Nat] /\ f[0] = 0
  BY <1>5 DEF Computes
<1>7. ASSUME NEW n \in Nat \ {0} PROVE f[n] = 1 + f[(n - 1) \div branching]
  <2>1. (n - 1) \div branching \in Nat /\ f[(n - 1) \div branching] \in Nat
        /\ n \in Nat
    BY <1>1, <1>6
  <2>2. f[n] = step[<<n, f[(n - 1) \div branching]>>]
    BY <1>2, <1>5 DEF Computes
  <2>. QED
    BY <1>4, <2>1, <2>2
<1>. DEFINE next(n) == IF n = 0 THEN 0 ELSE 1 + f[(n - 1) \div branching]
<1>8. \A n \in Nat : f[n] = next(n)
  BY <1>6, <1>7
<1>. HIDE DEF next
<1>9. f = [n \in Nat |-> next(n)]
  BY <1>6, <1>8
<1>10. Depth = [n \in Nat |-> IF n = 0 THEN 0 ELSE 1 + Depth[(n - 1) \div branching]]
  BY <1>9, Zenon DEF Depth, next
<1>. DEFINE T == {n \in Nat : Depth[n] \notin Nat}
<1>11. ASSUME NEW n \in T PROVE \E m \in T : m < n
  <2>1. n \in Nat \ {0} /\ Depth[n] = 1 + Depth[(n - 1) \div branching]
    BY <1>3, <1>10
  <2>2. Depth[(n - 1) \div branching] \notin Nat
    BY <2>1
  <2>. QED
    BY <1>1, <2>1, <2>2
<1>12. T = {}
  <2>1. T \in SUBSET Nat
    OBVIOUS
  <2>. HIDE DEF T
  <2>. QED
    BY <1>11, <2>1, Descent
<1>. QED
  BY <1>3, <1>10, <1>12

-----------------------------------------------------------------------------
(***************************************************************************)
(* Powers of two and the lengths of numbers.                               *)
(***************************************************************************)
LEMMA ShiftedNext ==
  ASSUME NEW n \in Nat
  PROVE  /\ Shifted[n] \in Nat \ {0}
         /\ Shifted[n + 1] = 2 * Shifted[n]
         /\ Shifted[n + 8] = 256 * Shifted[n]
<1>1. ASSUME NEW m \in Nat
      PROVE  Shifted[m] \in Nat \ {0} /\ Shifted[m + 1] = 2 * Shifted[m]
  <2>1. m + 1 \in Nat \ {0} /\ (m + 1) - 1 = m
    OBVIOUS
  <2>. QED
    BY <2>1, ShiftedFact
<1>2. /\ Shifted[n + 2] = 4 * Shifted[n]
      /\ Shifted[n + 4] = 16 * Shifted[n]
  <2>1. /\ (n + 1) + 1 = n + 2 /\ (n + 2) + 1 = n + 3 /\ (n + 3) + 1 = n + 4
        /\ n + 1 \in Nat /\ n + 2 \in Nat /\ n + 3 \in Nat
    OBVIOUS
  <2>. QED
    BY <1>1, <2>1
<1>3. /\ Shifted[n + 4 + 2] = 4 * Shifted[n + 4]
      /\ Shifted[n + 4 + 4] = 16 * Shifted[n + 4]
  <2>1. /\ ((n + 4) + 1) + 1 = (n + 4) + 2 /\ ((n + 4) + 2) + 1 = (n + 4) + 3
        /\ ((n + 4) + 3) + 1 = (n + 4) + 4 /\ n + 4 \in Nat
        /\ (n + 4) + 1 \in Nat /\ (n + 4) + 2 \in Nat /\ (n + 4) + 3 \in Nat
    OBVIOUS
  <2>. QED
    BY <1>1, <2>1
<1>4. n + 4 + 4 = n + 8
  OBVIOUS
<1>. QED
  BY <1>1, <1>2, <1>3, <1>4

\* A pointer of one more byte.
LEMMA ByteLonger ==
  ASSUME NEW bytes \in Nat
  PROVE  /\ Shifted[8 * bytes] \in Nat \ {0}
         /\ Shifted[8 * (bytes + 1)] = 256 * Shifted[8 * bytes]
<1>1. 8 * bytes \in Nat /\ 8 * (bytes + 1) = 8 * bytes + 8
  OBVIOUS
<1>. QED
  BY <1>1, ShiftedNext

\* A sum in the exponent is a product.
LEMMA ShiftedSum ==
  ASSUME NEW a \in Nat, NEW b \in Nat
  PROVE  Shifted[a + b] = Shifted[a] * Shifted[b]
<1>. DEFINE T == {n \in Nat : Shifted[a + n] # Shifted[a] * Shifted[n]}
<1>1. ASSUME NEW n \in T PROVE \E m \in T : m < n
  <2>1. n # 0
    BY ShiftedFact
  <2>2. n - 1 \in Nat /\ (n - 1) + 1 = n /\ (a + (n - 1)) + 1 = a + n
        /\ a + (n - 1) \in Nat
    BY <2>1
  <2>3. /\ Shifted[n] = 2 * Shifted[n - 1]
        /\ Shifted[a + n] = 2 * Shifted[a + (n - 1)]
        /\ Shifted[a] \in Nat /\ Shifted[n - 1] \in Nat
    BY <2>2, ShiftedNext
  <2>4. Shifted[a] * (2 * Shifted[n - 1]) = 2 * (Shifted[a] * Shifted[n - 1])
    BY <2>3
  <2>5. n - 1 \in T
    BY <2>2, <2>3, <2>4
  <2>. QED
    BY <2>2, <2>5
<1>2. T = {}
  <2>1. T \in SUBSET Nat
    OBVIOUS
  <2>. HIDE DEF T
  <2>. QED
    BY <1>1, <2>1, Descent
<1>. QED
  BY <1>2

\* Powers of two grow with the exponent.
LEMMA ShiftedMonotone ==
  ASSUME NEW a \in Nat, NEW b \in Nat, a <= b
  PROVE  Shifted[a] <= Shifted[b]
<1>1. b - a \in Nat /\ a + (b - a) = b
  OBVIOUS
<1>2. Shifted[b] = Shifted[a] * Shifted[b - a]
  BY <1>1, ShiftedSum
<1>3. Shifted[a] \in Nat /\ Shifted[b - a] \in Nat \ {0}
  BY <1>1, ShiftedNext
<1>. DEFINE x == Shifted[a]
            y == Shifted[b - a]
<1>4. x * 1 <= x * y
  <2>. HIDE DEF x, y
  <2>1. x \in Nat /\ y \in Nat \ {0} /\ 1 <= y
    BY <1>3 DEF x, y
  <2>. QED
    BY <2>1
<1>. QED
  BY <1>2, <1>3, <1>4

\* bitlen(n) bits hold n, and no fewer do.
LEMMA BitLenBounds ==
  ASSUME NEW n \in Nat
  PROVE  /\ n < Shifted[BitLen[n]]
         /\ n # 0 => Shifted[BitLen[n]] <= 2 * n
<1>. DEFINE T == {m \in Nat : ~ /\ m < Shifted[BitLen[m]]
                                /\ m # 0 => Shifted[BitLen[m]] <= 2 * m}
<1>1. ASSUME NEW m \in T PROVE \E k \in T : k < m
  <2>. DEFINE q == m \div 2
  <2>1. m # 0
    BY BitLenFact, ShiftedFact
  <2>2. q \in Nat /\ q < m /\ 2 * q <= m /\ m < 2 * q + 2
    BY <2>1
  <2>3. BitLen[m] = BitLen[q] + 1 /\ BitLen[q] \in Nat
    BY <2>1, <2>2, BitLenFact
  <2>. HIDE DEF q
  <2>4. /\ Shifted[BitLen[m]] = 2 * Shifted[BitLen[q]]
        /\ Shifted[BitLen[q]] \in Nat
    BY <2>3, ShiftedNext
  <2>5. CASE q = 0
    <3>1. m = 1 /\ Shifted[BitLen[q]] = 1
      BY <2>1, <2>2, <2>5, BitLenFact, ShiftedFact
    <3>. QED
      BY <2>4, <3>1
  <2>6. CASE q # 0
    <3>1. q \in T
      <4>1. SUFFICES ASSUME q \notin T PROVE FALSE
        OBVIOUS
      <4>2. q < Shifted[BitLen[q]] /\ Shifted[BitLen[q]] <= 2 * q
        BY <2>2, <2>6, <4>1
      <4>. QED
        BY <2>2, <2>4, <4>2
    <3>. QED
      BY <2>2, <3>1
  <2>. QED
    BY <2>5, <2>6
<1>2. T = {}
  <2>1. T \in SUBSET Nat
    OBVIOUS
  <2>. HIDE DEF T
  <2>. QED
    BY <1>1, <2>1, Descent
<1>. QED
  BY <1>2

\* bytelen(n) bytes hold n, and no fewer do.
LEMMA ByteLenBounds ==
  ASSUME NEW n \in Nat
  PROVE  /\ n < Shifted[8 * ByteLen[n]]
         /\ \A k \in Nat : n < Shifted[8 * k] => ByteLen[n] <= k
<1>. DEFINE T == {m \in Nat : ~ /\ m < Shifted[8 * ByteLen[m]]
                                /\ \A k \in Nat : m < Shifted[8 * k] => ByteLen[m] <= k}
<1>1. ASSUME NEW m \in T PROVE \E l \in T : l < m
  <2>. DEFINE q == m \div 256
  <2>1. m # 0
    <3>1. ByteLen[0] = 0 /\ Shifted[8 * 0] = 1
      BY ByteLenFact, ShiftedFact
    <3>. QED
      BY <3>1
  <2>2. q \in Nat /\ q < m /\ 256 * q <= m /\ m < 256 * q + 256
    BY <2>1
  <2>3. ByteLen[m] = ByteLen[q] + 1 /\ ByteLen[q] \in Nat
    BY <2>1, <2>2, ByteLenFact
  <2>. HIDE DEF q
  <2>4. /\ Shifted[8 * ByteLen[m]] = 256 * Shifted[8 * ByteLen[q]]
        /\ Shifted[8 * ByteLen[q]] \in Nat
    <3>1. 8 * ByteLen[m] = 8 * ByteLen[q] + 8 /\ 8 * ByteLen[q] \in Nat
      BY <2>3
    <3>. QED
      BY <3>1, ShiftedNext
  <2>5. q \in T
    <3>1. SUFFICES ASSUME q \notin T PROVE FALSE
      OBVIOUS
    <3>2. /\ q < Shifted[8 * ByteLen[q]]
          /\ \A k \in Nat : q < Shifted[8 * k] => ByteLen[q] <= k
      BY <2>2, <3>1
    <3>3. m < Shifted[8 * ByteLen[m]]
      BY <2>2, <2>4, <3>2
    <3>4. ASSUME NEW k \in Nat, m < Shifted[8 * k] PROVE ByteLen[m] <= k
      <4>1. k # 0
        <5>1. Shifted[8 * 0] = 1
          BY ShiftedFact
        <5>. QED
          BY <2>1, <3>4, <5>1
      <4>2. k - 1 \in Nat /\ 8 * k = 8 * (k - 1) + 8 /\ 8 * (k - 1) \in Nat
        BY <4>1
      <4>3. /\ Shifted[8 * k] = 256 * Shifted[8 * (k - 1)]
            /\ Shifted[8 * (k - 1)] \in Nat
        BY <4>2, ShiftedNext
      <4>4. q < Shifted[8 * (k - 1)]
        BY <2>2, <3>4, <4>3
      <4>5. ByteLen[q] <= k - 1
        BY <3>2, <4>2, <4>4
      <4>. QED
        BY <2>3, <4>2, <4>5
    <3>. QED
      BY <3>3, <3>4
  <2>. QED
    BY <2>2, <2>5
<1>2. T = {}
  <2>1. T \in SUBSET Nat
    OBVIOUS
  <2>. HIDE DEF T
  <2>. QED
    BY <1>1, <2>1, Descent
<1>. QED
  BY <1>2

\* What the behaviour steps through are instances.
LEMMA AlwaysSizesOK == Spec => []SizesOK
<1>1. Init => SizesOK
  BY SizesAssumption DEF Init, InitSizes, SizesOK
<1>2. SizesOK /\ [Next]_vars => SizesOK'
  <2>1. CASE UNCHANGED sizes
    BY <2>1 DEF SizesOK, sizes
  <2>2. CASE SizeStep
    BY <2>2 DEF SizesOK, SizeStep, NextSize
  <2>3. RecStart \/ RecLevel => UNCHANGED sizes
    BY DEF RecStart, RecLevel
  <2>4. BmnoStart \/ BmnoMap \/ BmnoLevel \/ UNCHANGED vars => UNCHANGED sizes
    BY DEF BmnoStart, BmnoMap, BmnoLevel, vars
  <2>. QED
    BY <2>1, <2>2, <2>3, <2>4 DEF Next
<1>. QED
  BY <1>1, <1>2, PTL DEF Spec
-----------------------------------------------------------------------------
\* Bounds of pmax(), and the bits it takes.
LEMMA PtrMaxBounds ==
  ASSUME NEW h \in Nat \ {0}, NEW bytes \in Nat \ {0}
  PROVE  /\ PtrMax(h, bytes) \in Nat
         /\ 8 * bytes <= Shifted[BindBits(bytes)]
         /\ PtrBits(h, bytes) \in Nat \ {0}
         /\ PtrMax(h, bytes) < Shifted[PtrBits(h, bytes)]
         /\ 16 * (bytes * h) <= PtrMax(h, bytes) + 1
         /\ PtrMax(h, bytes) + 1 <= 32 * (bytes * h) - 16 * bytes
<1>. DEFINE H == BitLen[h - 1]
            B == BitLen[8 * bytes - 1]
            Q == Shifted[H]
            P == Shifted[B]
            hb == bytes * h
            low == (h - 1) * P
<1>1. h - 1 \in Nat /\ 8 * bytes - 1 \in Nat \ {0}
  OBVIOUS
<1>2. H \in Nat /\ B \in Nat
  BY <1>1, BitLenFact
<1>3. /\ Q \in Nat /\ P \in Nat \ {0} /\ h <= Q /\ 8 * bytes <= P
      /\ P <= 2 * (8 * bytes - 1)
  <2>1. Q \in Nat /\ P \in Nat \ {0}
    BY <1>2, ShiftedNext
  <2>2. h - 1 < Q
    BY <1>1, BitLenBounds
  <2>3. 8 * bytes - 1 < P /\ P <= 2 * (8 * bytes - 1)
    BY <1>1, BitLenBounds
  <2>. HIDE DEF P, Q, H, B
  <2>. QED
    BY <2>1, <2>2, <2>3
<1>4. Shifted[H + B + 1] = 2 * (Q * P)
  <2>. HIDE DEF H, B
  <2>1. H + B \in Nat
    BY <1>2
  <2>2. Shifted[H + B] = Q * P
    BY <1>2, ShiftedSum
  <2>3. Shifted[H + B + 1] = 2 * Shifted[H + B]
    BY <2>1, ShiftedNext
  <2>. QED
    BY <2>2, <2>3
<1>5. /\ BindBits(bytes) = B
      /\ PtrBits(h, bytes) = H + B + 1
      /\ PtrMax(h, bytes) = (low + 8 * bytes - 1) * 2 + 1
  BY DEF BindBits, HoldBits, PtrBits, PtrMax
<1>. HIDE DEF H, B, Q, P
<1>6. low \in Nat /\ hb \in Nat
  BY <1>1, <1>3
<1>7. low + P <= Q * P
  <2>1. (h - 1) * P + P = h * P
    BY <1>3
  <2>2. h * P <= Q * P
    BY <1>3
  <2>. QED
    BY <2>1, <2>2
<1>8. 8 * hb - 8 * bytes <= low
  <2>1. (h - 1) * (8 * bytes) <= (h - 1) * P
    BY <1>1, <1>3
  <2>2. (h - 1) * (8 * bytes) = 8 * hb - 8 * bytes
    OBVIOUS
  <2>. QED
    BY <2>1, <2>2
<1>9. low <= 16 * hb - 16 * bytes
  <2>1. (h - 1) * P <= (h - 1) * (16 * bytes)
    BY <1>1, <1>3
  <2>2. (h - 1) * (16 * bytes) = 16 * hb - 16 * bytes
    OBVIOUS
  <2>. QED
    BY <2>1, <2>2
<1>. DEFINE qp == Q * P
<1>10. qp \in Nat /\ low + P <= qp /\ Shifted[H + B + 1] = 2 * qp
  BY <1>3, <1>4, <1>7
<1>. HIDE DEF low, hb, qp
<1>. QED
  <2>1. H + B + 1 \in Nat \ {0}
    BY <1>2
  <2>2. PtrMax(h, bytes) \in Nat
    BY <1>5, <1>6
  <2>3. 8 * bytes <= Shifted[BindBits(bytes)] /\ PtrBits(h, bytes) \in Nat \ {0}
    BY <1>3, <1>5, <2>1 DEF P
  <2>4. PtrMax(h, bytes) < Shifted[PtrBits(h, bytes)]
    BY <1>3, <1>5, <1>6, <1>10
  <2>5. 16 * hb <= PtrMax(h, bytes) + 1
        /\ PtrMax(h, bytes) + 1 <= 32 * hb - 16 * bytes
    BY <1>5, <1>6, <1>8, <1>9
  <2>. QED
    BY <2>2, <2>3, <2>4, <2>5 DEF hb

\* ceiling(num, denom) * denom is not less than num.
LEMMA CeilingFact ==
  ASSUME NEW num \in Nat \ {0}, NEW denom \in Nat \ {0}
  PROVE  /\ Ceiling(num, denom) \in Nat \ {0}
         /\ num <= denom * Ceiling(num, denom)
<1>. DEFINE q == (num - 1) \div denom
<1>1. q \in Nat /\ num - 1 < denom * q + denom
  <2>1. num - 1 \in Nat
    OBVIOUS
  <2>. QED
    BY <2>1, DivFacts
<1>2. Ceiling(num, denom) = 1 + q
  BY DEF Ceiling
<1>. HIDE DEF q
<1>3. denom * (1 + q) = denom * q + denom
  BY <1>1
<1>4. denom * q \in Nat
  BY <1>1
<1>. QED
  BY <1>1, <1>2, <1>3, <1>4

(***************************************************************************)
(* Pointers fit their bits and bytes, for every number of slots and every  *)
(* blocksize (DWPointer).                                                  *)
(***************************************************************************)
THEOREM SizesPointerFits == Spec => []PointerFits
<1>1. SizesOK => PointerFits
  <2>. SUFFICES ASSUME SizesOK PROVE PointerFits
    OBVIOUS
  <2>. DEFINE bits == PtrBits(size, blocksize)
              bytes == PtrBytes(size, blocksize)
              max == PtrMax(size, blocksize)
  <2>0. size \in Nat \ {0} /\ blocksize \in Nat \ {0}
    BY DEF SizesOK
  <2>1. /\ max \in Nat /\ 8 * blocksize <= Shifted[BindBits(blocksize)]
        /\ bits \in Nat \ {0} /\ max < Shifted[bits]
    BY <2>0, PtrMaxBounds
  <2>2. bytes \in Nat /\ bits <= 8 * bytes
    <3>1. 8 \in Nat \ {0}
      OBVIOUS
    <3>. QED
      BY <2>1, <3>1, CeilingFact DEF PtrBytes
  <2>3. Shifted[bits] <= Shifted[8 * bytes] /\ Shifted[bits] \in Nat
        /\ Shifted[8 * bytes] \in Nat
    <3>. HIDE DEF bits, bytes
    <3>1. bits \in Nat /\ 8 * bytes \in Nat
      BY <2>1, <2>2
    <3>2. Shifted[bits] \in Nat /\ Shifted[8 * bytes] \in Nat
      BY <3>1, ShiftedNext
    <3>. QED
      BY <2>2, <3>1, <3>2, ShiftedMonotone
  <2>4. max < Shifted[8 * bytes]
    BY <2>1, <2>3
  <2>5. ByteLen[max] <= bytes
    BY <2>1, <2>2, <2>4, ByteLenBounds
  <2>. QED
    BY <2>1, <2>5 DEF PointerFits
<1>. QED
  BY <1>1, AlwaysSizesOK, PTL

-----------------------------------------------------------------------------
(***************************************************************************)
(* The rows of the trie.                                                   *)
(***************************************************************************)
LEMMA MaxFact ==
  ASSUME NEW a \in Nat, NEW b \in Nat
  PROVE  Max({a, b}) = IF a >= b THEN a ELSE b
<1>. DEFINE m == IF a >= b THEN a ELSE b
<1>1. m \in {a, b} /\ \A y \in {a, b} : m >= y
  OBVIOUS
<1>2. \A x \in {a, b} : (\A y \in {a, b} : x >= y) => x = m
  OBVIOUS
<1>. QED
  BY <1>1, <1>2 DEF Max

\* What the division in NumNodes says.
LEMMA NumNodesFact ==
  ASSUME SizesOK
  PROVE  /\ NumNodes \in Nat
         /\ size <= (branching - 1) * NumNodes + branching
         /\ NumNodes # 0 => size > branching /\ NumNodes <= size - 2
<1>. DEFINE d == branching - 1
            m == IF size >= 2 THEN size - 2 ELSE 0
<1>1. size \in Nat \ {0} /\ branching \in Nat /\ d \in Nat \ {0} /\ m \in Nat
  BY DEF SizesOK
<1>2. NumNodes = m \div d
  <2>1. Max({size, 2}) - 2 = m
    BY <1>1, MaxFact
  <2>. QED
    BY <2>1 DEF NumNodes
<1>3. NumNodes \in Nat /\ d * NumNodes <= m /\ m < d * NumNodes + d
  BY <1>1, <1>2, DivFacts
<1>4. size <= d * NumNodes + branching
  BY <1>1, <1>3
<1>5. ASSUME NumNodes # 0 PROVE size > branching /\ NumNodes <= size - 2
  <2>1. d * 1 <= d * NumNodes /\ 1 * NumNodes <= d * NumNodes
    BY <1>1, <1>3, <1>5
  <2>. QED
    BY <1>1, <1>3, <2>1
<1>. QED
  BY <1>3, <1>4, <1>5

\* The rows grow at least as the powers of two do.
LEMMA RowsFact ==
  ASSUME SizesOK, NEW h \in Nat
  PROVE  /\ SoFar[h] \in Nat
         /\ SoFar[h + 1] = branching * (SoFar[h] + 1)
         /\ Shifted[h] <= SoFar[h] + 1
<1>1. ASSUME NEW m \in Nat
      PROVE  SoFar[m] \in Nat /\ SoFar[m + 1] = branching * (SoFar[m] + 1)
  <2>1. m + 1 \in Nat \ {0} /\ (m + 1) - 1 = m
    OBVIOUS
  <2>. QED
    BY <2>1, SoFarFact
<1>. DEFINE T == {m \in Nat : ~(Shifted[m] <= SoFar[m] + 1)}
<1>2. ASSUME NEW m \in T PROVE \E k \in T : k < m
  <2>1. m # 0
    BY SoFarFact, ShiftedFact
  <2>2. m - 1 \in Nat /\ (m - 1) + 1 = m
    BY <2>1
  <2>3. /\ SoFar[m] = branching * (SoFar[m - 1] + 1) /\ SoFar[m - 1] \in Nat
        /\ Shifted[m] = 2 * Shifted[m - 1] /\ Shifted[m - 1] \in Nat
    BY <1>1, <2>2, ShiftedNext
  <2>4. branching * (SoFar[m - 1] + 1) >= 2 * (SoFar[m - 1] + 1)
    BY <2>3 DEF SizesOK
  <2>5. branching * (SoFar[m - 1] + 1) \in Nat
    BY <2>3 DEF SizesOK
  <2>6. m - 1 \in T
    <3>1. SUFFICES ASSUME Shifted[m - 1] <= SoFar[m - 1] + 1 PROVE FALSE
      BY <2>2
    <3>. QED
      BY <2>3, <2>4, <2>5, <3>1
  <2>. QED
    BY <2>2, <2>6
<1>3. T = {}
  <2>1. T \in SUBSET Nat
    OBVIOUS
  <2>. HIDE DEF T
  <2>. QED
    BY <1>2, <2>1, Descent
<1>. QED
  BY <1>1, <1>3

\* heighthelp ends.
LEMMA HeightFact ==
  ASSUME SizesOK, NEW n \in Nat
  PROVE  /\ HeightHelp(n) \in Nat
         /\ SoFar[HeightHelp(n)] >= n
         /\ \A h \in Nat : SoFar[h] >= n => HeightHelp(n) <= h
<1>. DEFINE T == {h \in 0 .. BitLen[n] : SoFar[h] >= n}
<1>1. BitLen[n] \in Nat /\ n < Shifted[BitLen[n]]
  BY BitLenFact, BitLenBounds
<1>2. BitLen[n] \in T
  BY <1>1, RowsFact, ShiftedNext
<1>3. T \in SUBSET Nat /\ T # {}
  BY <1>1, <1>2
<1>4. HeightHelp(n) = Min(T)
  BY DEF HeightHelp
<1>5. ASSUME NEW h \in Nat, SoFar[h] >= n, h > BitLen[n] PROVE Min(T) <= h
  <2>1. Min(T) \in T
    <3>. HIDE DEF T
    <3>. QED
      BY <1>3, MinFact
  <2>. QED
    BY <1>1, <1>5, <2>1
<1>6. Min(T) \in T /\ \A y \in T : Min(T) <= y
  <2>. HIDE DEF T
  <2>. QED
    BY <1>3, MinFact
<1>. QED
  BY <1>1, <1>4, <1>5, <1>6

\* What is within the first h rows is not deeper than h.
LEMMA DepthFacts ==
  ASSUME SizesOK, NEW h \in Nat
  PROVE  \A n \in 0 .. SoFar[h] : Depth[n] \in 0 .. h
<1>. DEFINE Within(l) == \A n \in 0 .. SoFar[l] : Depth[n] \in 0 .. l
            T == {l \in Nat : ~Within(l)}
<1>0. branching \in Nat \ {0}
  BY DEF SizesOK
<1>1. ASSUME NEW l \in T PROVE \E k \in T : k < l
  <2>1. l # 0
    <3>1. SoFar[0] = 0 /\ Depth[0] = 0
      BY SoFarFact, DepthFact
    <3>. QED
      BY <3>1
  <2>2. l - 1 \in Nat /\ (l - 1) + 1 = l
    BY <2>1
  <2>3. /\ SoFar[l] = branching * (SoFar[l - 1] + 1)
        /\ SoFar[l - 1] \in Nat /\ SoFar[l] \in Nat
    BY <2>2, RowsFact
  <2>4. SUFFICES ASSUME Within(l - 1) PROVE FALSE
    BY <2>2
  <2>5. ASSUME NEW n \in 0 .. SoFar[l] PROVE Depth[n] \in 0 .. l
    <3>1. CASE n = 0
      BY <2>2, <3>1, DepthFact
    <3>2. CASE n # 0
      <4>1. n \in Nat \ {0} /\ n - 1 \in Nat /\ n - 1 < branching * (SoFar[l - 1] + 1)
        BY <2>3, <3>2
      <4>2. (n - 1) \div branching \in Nat
            /\ (n - 1) \div branching < SoFar[l - 1] + 1
        <5>1. SoFar[l - 1] + 1 \in Nat
          BY <2>3
        <5>. QED
          BY <1>0, <4>1, <5>1, DivFacts, DivBelow
      <4>3. Depth[(n - 1) \div branching] \in 0 .. l - 1
        BY <2>3, <2>4, <4>2
      <4>4. Depth[n] = 1 + Depth[(n - 1) \div branching]
        BY <4>1, DepthFact
      <4>. QED
        BY <2>2, <4>3, <4>4
    <3>. QED
      BY <3>1, <3>2
  <2>. QED
    BY <2>5
<1>2. T = {}
  <2>1. T \in SUBSET Nat
    OBVIOUS
  <2>. HIDE DEF T
  <2>. QED
    BY <1>1, <2>1, Descent
<1>. QED
  BY <1>2

(***************************************************************************)
(* Every path of a trie fits into the height() + 1 entries that pathto     *)
(* fills, and every position has a place in a node, for every number of    *)
(* positions and every branching factor.                                   *)
(***************************************************************************)
THEOREM SizesPathsFit == Spec => []PathsFit
<1>1. SizesOK => PathsFit
  <2>. SUFFICES ASSUME SizesOK, NumNodes > 0 PROVE
         /\ TrieIndex(size - 1) <= MaxIndex
         /\ \A i \in 0 .. size - 1 : Depth[TrieIndex(i)] \in 1 .. Height + 1
         /\ \A n \in 1 .. NumNodes : Depth[n] <= Height
    BY DEF PathsFit
  <2>0. size \in Nat \ {0} /\ branching \in Nat \ {0}
    BY DEF SizesOK
  <2>1. NumNodes \in Nat \ {0} /\ size <= (branching - 1) * NumNodes + branching
    BY NumNodesFact
  <2>2. branching * NumNodes = (branching - 1) * NumNodes + NumNodes
    BY <2>0, <2>1
  <2>3. (branching - 1) * NumNodes \in Int
    BY <2>0, <2>1
  <2>4. NumNodes + size <= branching * NumNodes + branching
    BY <2>0, <2>1, <2>2, <2>3
  <2>5. Height \in Nat /\ SoFar[Height] \in Nat /\ SoFar[Height] >= NumNodes
    BY <2>1, HeightFact, RowsFact DEF Height
  <2>6. ASSUME NEW n \in 0 .. NumNodes PROVE Depth[n] \in 0 .. Height
    BY <2>1, <2>5, DepthFacts
  <2>7. ASSUME NEW i \in 0 .. size - 1
        PROVE  Depth[TrieIndex(i)] \in 1 .. Height + 1
    <3>. DEFINE parent == (NumNodes + i) \div branching
    <3>1. NumNodes + i \in Nat /\ NumNodes + i + 1 \in Nat \ {0}
          /\ (NumNodes + i + 1) - 1 = NumNodes + i
      BY <2>0, <2>1
    <3>2. NumNodes + i < branching * (NumNodes + 1)
      <4>1. branching * (NumNodes + 1) = branching * NumNodes + branching
        BY <2>0, <2>1
      <4>2. branching * NumNodes \in Nat
        BY <2>0, <2>1
      <4>. QED
        BY <2>0, <2>1, <2>4, <4>1, <4>2
    <3>3. parent \in Nat /\ parent < NumNodes + 1
      <4>1. NumNodes + 1 \in Nat
        BY <2>1
      <4>. QED
        BY <2>0, <3>1, <3>2, <4>1, DivFacts, DivBelow
    <3>4. Depth[NumNodes + i + 1] = 1 + Depth[parent]
      BY <3>1, DepthFact
    <3>. HIDE DEF parent
    <3>5. Depth[parent] \in 0 .. Height
      BY <2>1, <2>6, <3>3
    <3>. QED
      BY <2>5, <3>4, <3>5 DEF TrieIndex
  <2>8. TrieIndex(size - 1) <= MaxIndex
    BY <2>0, <2>1, <2>4 DEF TrieIndex, MaxIndex
  <2>. QED
    BY <2>1, <2>5, <2>6, <2>7, <2>8
<1>. QED
  BY <1>1, AlwaysSizesOK, PTL

-----------------------------------------------------------------------------
(***************************************************************************)
(* The trie in the memory that is set apart for it.                        *)
(***************************************************************************)
\* The conditions under which TrieMemoryFits promises anything.
TrieFits ==
  /\ MapBytes > 0
  /\ MapBytes % 16 = 0
  /\ NumNodes > 0
  /\ memory > size
  /\ NodesPerBlock(ByteLen[MaxLeaf]) > 0
  /\ memory - TrieBlocks > size
  /\ NodesPerBlock(NodePtrSize) > 0

\* Half of a block or more is left to the nodes.
LEMMA MapBytesFact ==
  ASSUME SizesOK, TrieFits
  PROVE  /\ MapBytes \in Nat \ {0} /\ blocksize = MapBytes + 16
         /\ blocksize >= 32 /\ blocksize <= 2 * MapBytes
<1>1. MapBytes \in Nat /\ MapBytes > 0 /\ MapBytes % 16 = 0
      /\ blocksize = MapBytes + 16
  BY DEF SizesOK, TrieFits, MapBytes
<1>2. MapBytes >= 16
  BY <1>1
<1>. QED
  BY <1>1, <1>2

\* The positions that the leaves hold, those of a ring of memory - size slots.
LEMMA MaxLeafFact ==
  ASSUME SizesOK, TrieFits
  PROVE  /\ blocksize * (memory - size) \in Nat \ {0}
         /\ MaxLeaf \in Nat \ {0}
         /\ 16 * (blocksize * (memory - size)) <= MaxLeaf + 1
         /\ ByteLen[MaxLeaf] \in Nat /\ ByteLen[MaxLeaf] >= 2
<1>1. /\ memory - size \in Nat \ {0} /\ blocksize \in Nat \ {0}
      /\ blocksize >= 32
  BY MapBytesFact DEF SizesOK, TrieFits
<1>2. MaxLeaf = PtrMax(memory - size, blocksize)
  BY DEF MaxLeaf, DetWoPMax
<1>3. /\ MaxLeaf \in Nat
      /\ 16 * (blocksize * (memory - size)) <= MaxLeaf + 1
  BY <1>1, <1>2, PtrMaxBounds
<1>4. blocksize * (memory - size) \in Nat \ {0}
  BY <1>1
<1>5. MaxLeaf >= 256
  <2>1. 32 * 1 <= blocksize * (memory - size)
    BY <1>1
  <2>. DEFINE bits == blocksize * (memory - size)
  <2>2. bits \in Nat /\ bits >= 32 /\ 16 * bits <= MaxLeaf + 1
    BY <1>3, <1>4, <2>1
  <2>. HIDE DEF bits
  <2>. QED
    BY <1>3, <2>2
<1>6. MaxLeaf \div 256 \in Nat \ {0}
  BY <1>3, <1>5
<1>7. ByteLen[MaxLeaf \div 256] \in Nat /\ ByteLen[MaxLeaf \div 256] >= 1
  <2>1. (MaxLeaf \div 256) \div 256 \in Nat
    BY <1>6
  <2>2. ByteLen[MaxLeaf \div 256] = 1 + ByteLen[(MaxLeaf \div 256) \div 256]
        /\ ByteLen[(MaxLeaf \div 256) \div 256] \in Nat
    BY <1>6, <2>1, ByteLenFact
  <2>. QED
    BY <2>2
<1>8. ByteLen[MaxLeaf] = 1 + ByteLen[MaxLeaf \div 256]
  BY <1>3, <1>5, ByteLenFact
<1>9. ByteLen[MaxLeaf] \in Nat /\ ByteLen[MaxLeaf] >= 2
  BY <1>7, <1>8
<1>. QED
  BY <1>3, <1>4, <1>5, <1>9

\* NodesPerBlock(ptrsize) nodes are no longer than what is left of a block, one
\* more are.
LEMMA NodesFact ==
  ASSUME SizesOK, TrieFits, NEW ptrsize \in Nat \ {0}
  PROVE  /\ NodeLength(ptrsize) \in Nat \ {0}
         /\ NodesPerBlock(ptrsize) \in Nat
         /\ NodeLength(ptrsize) * NodesPerBlock(ptrsize) <= MapBytes
         /\ MapBytes
              < NodeLength(ptrsize) * NodesPerBlock(ptrsize) + NodeLength(ptrsize)
<1>. DEFINE d == NodeLength(ptrsize)
<1>1. d \in Nat \ {0} /\ MapBytes \in Nat
  BY MapBytesFact DEF SizesOK, NodeLength
<1>2. NodesPerBlock(ptrsize) = MapBytes \div d
  BY DEF NodesPerBlock
<1>. HIDE DEF d
<1>3. /\ MapBytes \div d \in Nat
      /\ d * (MapBytes \div d) <= MapBytes
      /\ MapBytes < d * (MapBytes \div d) + d
  BY <1>1, DivFacts
<1>. QED
  BY <1>1, <1>2, <1>3 DEF d

\* The blocks have been counted with at most three times as many nodes in each,
\* but for four times as many nodes as there are.
LEMMA TrieBlocksFact ==
  ASSUME SizesOK, TrieFits
  PROVE  /\ TrieBlocks \in Nat \ {0}
         /\ TrieBlocks * NodesPerBlock(ByteLen[MaxLeaf]) \in Nat
         /\ 4 * NumNodes <= 3 * (TrieBlocks * NodesPerBlock(ByteLen[MaxLeaf]))
<1>. DEFINE h == HeightHelp(size)
            l == NodesPerBlock(ByteLen[MaxLeaf])
            d == NodeLength(ByteLen[MaxLeaf])
            k == blocksize \div d
<1>1. /\ size \in Nat /\ branching \in Nat
      /\ NumNodes \in Nat \ {0} /\ size > branching
  BY NumNodesFact DEF SizesOK, TrieFits
<1>2. h \in Nat /\ h >= 2
  <2>1. h \in Nat /\ SoFar[h] >= size
    BY <1>1, HeightFact
  <2>2. SoFar[0] = 0 /\ SoFar[0 + 1] = branching * (SoFar[0] + 1)
    BY SoFarFact, RowsFact
  <2>3. SoFar[0] < size /\ SoFar[1] < size
    BY <1>1, <2>2
  <2>4. h # 0 /\ h # 1
    <3>. HIDE DEF h
    <3>. QED
      BY <1>1, <2>1, <2>2, <2>3
  <2>. QED
    BY <2>1, <2>4
<1>3. k \in Nat \ {0} /\ l \in Nat \ {0} /\ k <= 3 * l
  <2>1. ByteLen[MaxLeaf] \in Nat \ {0}
    BY MaxLeafFact
  <2>2. /\ d \in Nat \ {0} /\ l \in Nat /\ d * l <= MapBytes
        /\ MapBytes < d * l + d
    BY <2>1, NodesFact
  <2>3. l # 0
    BY DEF TrieFits
  <2>4. MapBytes \in Nat /\ blocksize \in Nat /\ MapBytes <= blocksize
        /\ blocksize <= 2 * MapBytes
    BY MapBytesFact DEF SizesOK
  <2>. HIDE DEF d, l
  <2>5. /\ k \in Nat /\ d * k <= blocksize /\ blocksize < d * k + d
    BY <2>2, <2>4, DivFacts
  <2>6. blocksize < d * (2 * l + 2)
    <3>1. d * (2 * l + 2) = 2 * (d * l + d) /\ d * l \in Nat
      BY <2>2
    <3>. QED
      BY <2>2, <2>4, <3>1
  <2>7. k < 2 * l + 2
    <3>1. 2 * l + 2 \in Nat
      BY <2>2
    <3>. QED
      BY <2>2, <2>4, <2>6, <3>1, DivBelow
  <2>8. k # 0
    <3>1. d * 1 <= d * l
      BY <2>2, <2>3
    <3>2. d <= blocksize
      BY <2>2, <2>4, <3>1
    <3>3. ASSUME k = 0 PROVE FALSE
      <4>1. d * k = 0
        BY <2>2, <3>3
      <4>. HIDE DEF k
      <4>. QED
        BY <2>2, <2>4, <2>5, <3>2, <4>1
    <3>. QED
      BY <3>3
  <2>. HIDE DEF k
  <2>. QED
    BY <2>2, <2>3, <2>5, <2>7, <2>8
<1>4. TrieBlocks = Ceiling((h + 2) * NumNodes, k)
  BY DEF TrieBlocks
<1>. HIDE DEF h, k, l
<1>5. 4 * NumNodes <= (h + 2) * NumNodes /\ (h + 2) * NumNodes \in Nat \ {0}
  <2>1. 4 <= h + 2 /\ h + 2 \in Nat
    BY <1>2
  <2>2. 4 * NumNodes <= (h + 2) * NumNodes /\ (h + 2) * NumNodes \in Nat
    BY <1>1, <2>1
  <2>. QED
    BY <1>1, <2>2
<1>. DEFINE num == (h + 2) * NumNodes
<1>. HIDE DEF num
<1>6. num \in Nat \ {0} /\ 4 * NumNodes <= num /\ TrieBlocks = Ceiling(num, k)
  BY <1>4, <1>5 DEF num
<1>7. TrieBlocks \in Nat \ {0} /\ num <= k * TrieBlocks
  BY <1>3, <1>6, CeilingFact
<1>8. k * TrieBlocks <= 3 * (TrieBlocks * l)
      /\ k * TrieBlocks \in Nat /\ TrieBlocks * l \in Nat
  <2>1. TrieBlocks * k <= TrieBlocks * (3 * l)
    BY <1>3, <1>7
  <2>2. TrieBlocks * k = k * TrieBlocks /\ k * TrieBlocks \in Nat
        /\ TrieBlocks * (3 * l) = 3 * (TrieBlocks * l)
        /\ TrieBlocks * l \in Nat
    BY <1>3, <1>7
  <2>. QED
    BY <2>1, <2>2
<1>9. 4 * NumNodes <= 3 * (TrieBlocks * l)
  <2>. DEFINE x == k * TrieBlocks
              y == TrieBlocks * l
  <2>1. x \in Nat /\ y \in Nat /\ num <= x /\ x <= 3 * y
    BY <1>7, <1>8
  <2>. HIDE DEF x, y
  <2>2. 4 * NumNodes <= 3 * y
    BY <1>1, <1>6, <2>1
  <2>. QED
    BY <2>2 DEF y
<1>. QED
  BY <1>7, <1>8, <1>9 DEF l

\* The ring of the nodes has no more bits than that of the data, so that its
\* positions are at most twice as large.
LEMMA NodePtrMax ==
  ASSUME SizesOK, TrieFits, NEW ptrsize \in Nat \ {0}, NodeHold(ptrsize) \in Nat \ {0}
  PROVE  /\ PtrMax(NodeHold(ptrsize), NodeLength(ptrsize)) \in Nat
         /\ PtrMax(NodeHold(ptrsize), NodeLength(ptrsize)) + 3 <= 2 * (MaxLeaf + 1)
<1>. DEFINE d == NodeLength(ptrsize)
            k == NodesPerBlock(ptrsize)
            hold == NodeHold(ptrsize)
            bits == blocksize * (memory - size)
            room == TrieBlocks * blocksize
<1>1. /\ d \in Nat \ {0} /\ k \in Nat /\ d * k <= blocksize
      /\ blocksize \in Nat \ {0}
  <2>1. /\ d \in Nat \ {0} /\ k \in Nat /\ d * k <= MapBytes
    BY NodesFact
  <2>2. MapBytes \in Nat /\ blocksize = MapBytes + 16
    BY MapBytesFact
  <2>. HIDE DEF d, k
  <2>3. d * k \in Nat
    BY <2>1
  <2>. QED
    BY <2>1, <2>2, <2>3
<1>2. /\ TrieBlocks \in Nat \ {0} /\ TrieBlocks <= memory - size - 1
      /\ memory - size \in Nat \ {0}
  BY TrieBlocksFact DEF TrieFits, SizesOK
<1>3. NumNodes \in Nat
  BY NumNodesFact
<1>4. hold = TrieBlocks * k - NumNodes /\ hold \in Nat \ {0}
  BY DEF NodeHold
<1>. HIDE DEF d, k, hold
<1>5. room + blocksize <= bits /\ room \in Nat /\ bits \in Nat
  <2>1. (TrieBlocks + 1) * blocksize <= (memory - size) * blocksize
    BY <1>1, <1>2
  <2>2. (TrieBlocks + 1) * blocksize = room + blocksize
    BY <1>1, <1>2
  <2>3. (memory - size) * blocksize = bits
    BY <1>1, <1>2
  <2>. QED
    BY <1>1, <1>2, <2>1, <2>2, <2>3
<1>6. d * hold <= room
  <2>1. TrieBlocks * k \in Nat /\ hold <= TrieBlocks * k
    BY <1>1, <1>2, <1>3, <1>4
  <2>2. d * hold <= d * (TrieBlocks * k)
    BY <1>1, <1>4, <2>1
  <2>3. d * (TrieBlocks * k) = TrieBlocks * (d * k)
    BY <1>1, <1>2
  <2>4. TrieBlocks * (d * k) <= TrieBlocks * blocksize
    BY <1>1, <1>2
  <2>5. d * hold \in Nat /\ TrieBlocks * (d * k) \in Nat /\ room \in Nat
    BY <1>1, <1>2, <1>4
  <2>6. d * hold <= TrieBlocks * (d * k)
    BY <2>2, <2>3
  <2>. HIDE DEF room
  <2>7. TrieBlocks * (d * k) <= room
    BY <2>4 DEF room
  <2>. DEFINE x == d * hold
              y == TrieBlocks * (d * k)
  <2>8. x \in Nat /\ y \in Nat /\ x <= y /\ y <= room
    BY <2>5, <2>6, <2>7
  <2>. HIDE DEF x, y
  <2>9. x <= room
    BY <2>5, <2>8
  <2>. QED
    BY <2>9 DEF x
<1>7. /\ PtrMax(hold, d) \in Nat
      /\ PtrMax(hold, d) + 1 <= 32 * (d * hold) - 16 * d
  BY <1>1, <1>4, PtrMaxBounds
<1>8. 16 * bits <= MaxLeaf + 1 /\ MaxLeaf \in Nat
  BY MaxLeafFact
<1>9. d * hold \in Nat
  BY <1>1, <1>4
<1>. DEFINE dh == d * hold
<1>. HIDE DEF bits, room, dh
<1>10. PtrMax(hold, d) + 3 <= 2 * (MaxLeaf + 1)
  <2>1. /\ dh \in Nat /\ dh <= room /\ room + blocksize <= bits
        /\ PtrMax(hold, d) + 1 <= 32 * dh - 16 * d
    BY <1>5, <1>6, <1>7, <1>9 DEF dh
  <2>. QED
    BY <1>1, <1>5, <1>7, <1>8, <2>1
<1>. QED
  BY <1>7, <1>10 DEF hold, d

\* Therefore the pointers of the nodes are at most one byte longer than those
\* that they have been sized with.
LEMMA NodePtrSizeFact ==
  ASSUME SizesOK, TrieFits
  PROVE  /\ NodePtrSize \in {ByteLen[MaxLeaf], ByteLen[MaxLeaf] + 1}
         /\ NodeHold(ByteLen[MaxLeaf]) \in Nat \ {0}
         /\ PtrMax(NodeHold(ByteLen[MaxLeaf]), NodeLength(ByteLen[MaxLeaf])) + 1
              < Shifted[8 * NodePtrSize]
         /\ NodePtrSize = ByteLen[MaxLeaf] + 1 =>
              MaxLeaf
                <= PtrMax(NodeHold(ByteLen[MaxLeaf]), NodeLength(ByteLen[MaxLeaf]))
<1>. DEFINE small == ByteLen[MaxLeaf]
            max == PtrMax(NodeHold(small), NodeLength(small))
            greater == IF MaxLeaf >= max + 1 THEN MaxLeaf ELSE max + 1
            S == Shifted[8 * small]
<1>1. MaxLeaf \in Nat /\ small \in Nat \ {0}
  BY MaxLeafFact
<1>2. NodeHold(small) \in Nat \ {0}
  <2>1. /\ 4 * NumNodes <= 3 * (TrieBlocks * NodesPerBlock(small))
        /\ NumNodes \in Nat \ {0}
        /\ TrieBlocks * NodesPerBlock(small) \in Nat
    BY TrieBlocksFact, NumNodesFact DEF TrieFits
  <2>. QED
    BY <2>1 DEF NodeHold
<1>3. max \in Nat /\ max + 3 <= 2 * (MaxLeaf + 1)
  BY <1>1, <1>2, NodePtrMax
<1>4. NodePtrSize = ByteLen[greater]
  <2>1. Max({MaxLeaf, max + 1}) = greater
    BY <1>1, <1>3, MaxFact
  <2>. QED
    BY <2>1 DEF NodePtrSize
<1>5. MaxLeaf < S /\ S \in Nat /\ Shifted[8 * (small + 1)] = 256 * S
  <2>1. MaxLeaf < S
    BY <1>1, ByteLenBounds
  <2>. HIDE DEF small
  <2>. QED
    BY <1>1, <2>1, ByteLonger
<1>. HIDE DEF small, max, S
<1>6. greater \in Nat /\ greater < 256 * S /\ MaxLeaf <= greater
      /\ max + 1 <= greater
  BY <1>1, <1>3, <1>5
<1>. HIDE DEF greater
<1>7. /\ NodePtrSize \in Nat
      /\ NodePtrSize <= small + 1
      /\ greater < Shifted[8 * NodePtrSize]
      /\ Shifted[8 * NodePtrSize] \in Nat
  <2>1. NodePtrSize \in Nat
    BY <1>4, <1>6, ByteLenFact
  <2>2. Shifted[8 * NodePtrSize] \in Nat
    <3>1. 8 * NodePtrSize \in Nat
      BY <2>1
    <3>. QED
      BY <3>1, ShiftedNext
  <2>3. greater < Shifted[8 * NodePtrSize]
    BY <1>4, <1>6, ByteLenBounds
  <2>4. small + 1 \in Nat /\ greater < Shifted[8 * (small + 1)]
    BY <1>1, <1>5, <1>6
  <2>5. NodePtrSize <= small + 1
    BY <1>4, <1>6, <2>4, ByteLenBounds
  <2>. QED
    BY <2>1, <2>2, <2>3, <2>5
<1>8. small <= NodePtrSize
  <2>1. MaxLeaf < Shifted[8 * NodePtrSize]
    BY <1>1, <1>6, <1>7
  <2>. QED
    BY <1>1, <1>7, <2>1, ByteLenBounds DEF small
<1>9. ASSUME NodePtrSize = small + 1 PROVE MaxLeaf <= max
  <2>1. SUFFICES ASSUME max + 1 <= MaxLeaf PROVE FALSE
    BY <1>1, <1>3
  <2>2. greater = MaxLeaf
    BY <1>1, <1>3, <2>1 DEF greater
  <2>3. NodePtrSize = small
    BY <1>4, <2>2 DEF small
  <2>. QED
    BY <1>1, <1>9, <2>3
<1>. QED
  BY <1>1, <1>2, <1>3, <1>6, <1>7, <1>8, <1>9 DEF small, max

\* If they are longer, the ring of the nodes has more bits than half of the
\* memory set apart for it, so that it takes more than half of the nodes there
\* is room for.
LEMMA LongerFact ==
  ASSUME SizesOK, TrieFits, NodePtrSize = ByteLen[MaxLeaf] + 1
  PROVE  2 * NumNodes < TrieBlocks * NodesPerBlock(ByteLen[MaxLeaf])
<1>. DEFINE small == ByteLen[MaxLeaf]
            d == NodeLength(small)
            l == NodesPerBlock(small)
            hold == NodeHold(small)
            max == PtrMax(hold, d)
            bits == blocksize * (memory - size)
            nodes == TrieBlocks * l
<1>1. /\ small \in Nat \ {0} /\ MaxLeaf \in Nat
      /\ bits \in Nat /\ 16 * bits <= MaxLeaf + 1
  BY MaxLeafFact
<1>2. /\ d \in Nat \ {0} /\ l \in Nat /\ d * l <= MapBytes
  BY <1>1, NodesFact
<1>3. hold \in Nat \ {0} /\ MaxLeaf <= max
  BY NodePtrSizeFact
<1>4. max \in Nat /\ max + 1 <= 32 * (d * hold) - 16 * d
  <2>. HIDE DEF d, hold
  <2>. QED
    BY <1>2, <1>3, PtrMaxBounds
<1>5. /\ TrieBlocks \in Nat \ {0} /\ nodes \in Nat
      /\ memory - size \in Nat /\ TrieBlocks <= memory - size - 1
      /\ NumNodes \in Nat
  BY TrieBlocksFact, NumNodesFact DEF TrieFits, SizesOK
<1>6. /\ MapBytes \in Nat /\ blocksize \in Nat /\ MapBytes <= blocksize
  BY MapBytesFact DEF SizesOK
<1>7. hold = nodes - NumNodes
  BY DEF NodeHold
<1>. HIDE DEF small, d, l, hold, max
<1>8. d * nodes <= bits /\ d * nodes \in Nat
  <2>1. d * l \in Nat /\ d * l <= blocksize
    BY <1>2, <1>6
  <2>2. TrieBlocks * (d * l) <= TrieBlocks * blocksize
    <3>. DEFINE x == d * l
    <3>1. x \in Nat /\ x <= blocksize
      BY <2>1
    <3>. HIDE DEF x
    <3>2. TrieBlocks * x <= TrieBlocks * blocksize
      BY <1>5, <1>6, <3>1
    <3>. QED
      BY <3>2 DEF x
  <2>3. TrieBlocks * blocksize <= (memory - size) * blocksize
    BY <1>5, <1>6
  <2>4. (memory - size) * blocksize = bits /\ TrieBlocks * blocksize \in Nat
    BY <1>5, <1>6
  <2>5. TrieBlocks * (d * l) = d * nodes /\ d * nodes \in Nat
    BY <1>2, <1>5
  <2>. DEFINE y == TrieBlocks * blocksize
              z == d * nodes
  <2>6. y \in Nat /\ z \in Nat /\ z <= y /\ y <= bits
    BY <2>2, <2>3, <2>4, <2>5
  <2>. HIDE DEF y, z, nodes, bits
  <2>7. z <= bits
    BY <1>1, <2>6
  <2>. QED
    BY <2>5, <2>7 DEF z
<1>. HIDE DEF bits, nodes
<1>9. d * hold = d * nodes - d * NumNodes /\ d * NumNodes \in Nat
  BY <1>2, <1>5, <1>7
<1>10. 2 * (d * NumNodes) < d * nodes
  <2>. DEFINE x == d * nodes
              y == d * NumNodes
              z == d * hold
  <2>1. /\ x \in Nat /\ y \in Nat /\ z = x - y /\ x <= bits
        /\ max + 1 <= 32 * z - 16 * d
    BY <1>4, <1>8, <1>9
  <2>. HIDE DEF x, y, z
  <2>2. 2 * y < x
    BY <1>1, <1>2, <1>3, <1>4, <2>1
  <2>. QED
    BY <2>2 DEF x, y
<1>11. SUFFICES ASSUME nodes <= 2 * NumNodes PROVE FALSE
  BY <1>5 DEF nodes, l, small
<1>12. d * nodes <= d * (2 * NumNodes)
  BY <1>2, <1>5, <1>11
<1>13. d * (2 * NumNodes) = 2 * (d * NumNodes)
  BY <1>2, <1>5
<1>. QED
  BY <1>8, <1>9, <1>10, <1>12, <1>13

(***************************************************************************)
(* The nodes of a trie in DetWoCryptTrie have a ring, and its positions    *)
(* and the null position fit into the pointers of a node, for every size   *)
(* of the memory, of its blocks and of the trie.                           *)
(***************************************************************************)
THEOREM FactoriesTrieMemoryFits == Spec => []TrieMemoryFits
<1>1. SizesOK => TrieMemoryFits
  <2>. SUFFICES ASSUME SizesOK, TrieFits
                PROVE  /\ NodeHold(ByteLen[MaxLeaf]) >= 1
                       /\ NodeHold(NodePtrSize) >= 1
                       /\ PtrMax(NodeHold(NodePtrSize), NodeLength(NodePtrSize))
                            < Shifted[8 * NodePtrSize] - 1
    BY DEF TrieMemoryFits, TrieFits
  <2>. DEFINE small == ByteLen[MaxLeaf]
              S == Shifted[8 * small]
  <2>1. MaxLeaf \in Nat /\ small \in Nat \ {0}
    BY MaxLeafFact
  <2>2. /\ NodePtrSize \in {small, small + 1}
        /\ NodeHold(small) \in Nat \ {0}
        /\ PtrMax(NodeHold(small), NodeLength(small)) + 1 < Shifted[8 * NodePtrSize]
    BY NodePtrSizeFact
  <2>3. MaxLeaf < S /\ S \in Nat /\ Shifted[8 * (small + 1)] = 256 * S
    <3>1. MaxLeaf < S
      BY <2>1, ByteLenBounds
    <3>. HIDE DEF small
    <3>. QED
      BY <2>1, <3>1, ByteLonger
  <2>0. NodeHold(ByteLen[MaxLeaf]) >= 1
    BY <2>2 DEF small
  <2>. HIDE DEF small, S
  <2>4. CASE NodePtrSize = small
    <3>1. PtrMax(NodeHold(small), NodeLength(small)) \in Nat
      BY <2>1, <2>2, NodePtrMax DEF small
    <3>2. 8 * NodePtrSize \in Nat
      BY <2>1, <2>4
    <3>3. Shifted[8 * NodePtrSize] \in Nat
      BY <3>2, ShiftedNext
    <3>. QED
      BY <2>0, <2>2, <2>4, <3>1, <3>3
  <2>5. CASE NodePtrSize = small + 1
    <3>. DEFINE k == NodesPerBlock(small)
                l == NodesPerBlock(small + 1)
    <3>1. /\ TrieBlocks \in Nat \ {0} /\ 2 * NumNodes < TrieBlocks * k
          /\ NumNodes \in Nat \ {0}
      BY <2>5, TrieBlocksFact, LongerFact, NumNodesFact DEF small, TrieFits
    <3>2. k \in Nat /\ l \in Nat \ {0} /\ k <= 2 * l
      <4>. DEFINE d == NodeLength(small)
                  e == NodeLength(small + 1)
      <4>1. /\ d \in Nat \ {0} /\ k \in Nat /\ d * k <= MapBytes
            /\ e \in Nat \ {0} /\ l \in Nat /\ MapBytes < e * l + e
            /\ MapBytes \in Nat
        <5>1. small + 1 \in Nat \ {0}
          BY <2>1
        <5>. QED
          BY <2>1, <5>1, NodesFact, MapBytesFact
      <4>2. l # 0
        BY <2>5 DEF TrieFits
      <4>3. 2 * e <= 3 * d
        <5>1. /\ branching \in Nat /\ small \in Nat /\ small >= 2
          BY MaxLeafFact DEF SizesOK, small
        <5>2. e = d + branching /\ branching * 2 <= d
          BY <5>1 DEF NodeLength
        <5>. HIDE DEF d, e
        <5>. QED
          BY <4>1, <5>1, <5>2
      <4>. HIDE DEF d, e, k, l
      <4>4. 2 * (e * l + e) <= d * (3 * l + 3)
        <5>1. (2 * e) * (l + 1) <= (3 * d) * (l + 1)
          BY <4>1, <4>3
        <5>2. (2 * e) * (l + 1) = 2 * (e * l + e)
              /\ (3 * d) * (l + 1) = d * (3 * l + 3)
          BY <4>1
        <5>. QED
          BY <5>1, <5>2
      <4>5. k <= 2 * l
        <5>1. SUFFICES ASSUME 2 * l + 1 <= k PROVE FALSE
          BY <4>1
        <5>2. d * (2 * l + 1) <= d * k
          BY <4>1, <5>1
        <5>3. 2 * (d * (2 * l + 1)) = d * (3 * l + 3) + d * (l - 1)
          BY <4>1
        <5>4. d * (l - 1) \in Nat
          BY <4>1, <4>2
        <5>. DEFINE u == d * (2 * l + 1)
                    v == d * (3 * l + 3)
                    w == d * (l - 1)
                    x == e * l + e
                    y == d * k
        <5>5. /\ u \in Nat /\ v \in Nat /\ w \in Nat /\ x \in Nat /\ y \in Nat
          BY <4>1, <5>4
        <5>6. u <= y /\ 2 * u = v + w /\ 2 * x <= v
              /\ y <= MapBytes /\ MapBytes < x
          BY <4>1, <4>4, <5>2, <5>3
        <5>. HIDE DEF u, v, w, x, y
        <5>. QED
          BY <4>1, <5>5, <5>6
      <4>. QED
        BY <4>1, <4>2, <4>5
    <3>3. NodeHold(small + 1) = TrieBlocks * l - NumNodes
      BY DEF NodeHold
    <3>. HIDE DEF k, l
    <3>4. 2 * NumNodes < 2 * (TrieBlocks * l) /\ TrieBlocks * l \in Nat
      <4>1. TrieBlocks * k <= TrieBlocks * (2 * l)
        BY <3>1, <3>2
      <4>2. TrieBlocks * (2 * l) = 2 * (TrieBlocks * l)
            /\ TrieBlocks * l \in Nat
        BY <3>1, <3>2
      <4>3. TrieBlocks * k \in Nat
        BY <3>1, <3>2
      <4>. QED
        BY <3>1, <4>1, <4>2, <4>3
    <3>5. NodeHold(small + 1) \in Nat \ {0}
      BY <3>1, <3>3, <3>4
    <3>6. small + 1 \in Nat \ {0}
      BY <2>1
    <3>7. /\ PtrMax(NodeHold(small + 1), NodeLength(small + 1)) \in Nat
          /\ PtrMax(NodeHold(small + 1), NodeLength(small + 1)) + 3 <= 2 * (MaxLeaf + 1)
      BY <3>5, <3>6, NodePtrMax
    <3>. DEFINE p == PtrMax(NodeHold(small + 1), NodeLength(small + 1))
    <3>. HIDE DEF p
    <3>8. p \in Nat /\ p < 256 * S - 1
      BY <2>1, <2>3, <3>7 DEF p
    <3>. QED
      BY <2>0, <2>3, <2>5, <3>5, <3>8 DEF p
  <2>. QED
    BY <2>2, <2>4, <2>5
<1>. QED
  BY <1>1, AlwaysSizesOK, PTL

-----------------------------------------------------------------------------
(***************************************************************************)
(* The parts of a recursive ORAM.                                          *)
(***************************************************************************)
\* Division rounds down to no less than any number that fits.
LEMMA DivFrom ==
  ASSUME NEW n \in Nat, NEW d \in Nat \ {0}, NEW k \in Nat, n >= d * k
  PROVE  n \div d >= k
<1>. DEFINE q == n \div d
<1>1. q \in Nat /\ n < d * q + d
  BY DivFacts
<1>. HIDE DEF q
<1>2. SUFFICES ASSUME q + 1 <= k PROVE FALSE
  BY <1>1 DEF q
<1>3. d * (q + 1) <= d * k
  BY <1>1, <1>2
<1>4. d * (q + 1) = d * q + d
  BY <1>1
<1>. QED
  BY <1>1, <1>3, <1>4

\* A larger number has no fewer bytes, and none but 0 has no byte.
LEMMA ByteLenMonotone ==
  ASSUME NEW a \in Nat, NEW c \in Nat, a <= c
  PROVE  /\ ByteLen[a] \in Nat /\ ByteLen[c] \in Nat
         /\ ByteLen[a] <= ByteLen[c]
         /\ a # 0 => ByteLen[a] # 0
<1>1. ByteLen[a] \in Nat /\ ByteLen[c] \in Nat
  BY ByteLenFact
<1>2. c < Shifted[8 * ByteLen[c]] /\ Shifted[8 * ByteLen[c]] \in Nat
  BY <1>1, ByteLenBounds, ByteLonger
<1>3. a < Shifted[8 * ByteLen[c]]
  BY <1>2
<1>4. ByteLen[a] <= ByteLen[c]
  BY <1>1, <1>3, ByteLenBounds
<1>5. ASSUME ByteLen[a] = 0 PROVE a = 0
  <2>1. a < Shifted[8 * ByteLen[a]]
    BY ByteLenBounds
  <2>2. 8 * ByteLen[a] = 0
    BY <1>5
  <2>. QED
    BY <2>1, <2>2, ShiftedFact
<1>. QED
  BY <1>1, <1>4, <1>5

\* Rounded up, a quotient is the least number that suffices.
LEMMA CeilingLeast ==
  ASSUME NEW num \in Nat \ {0}, NEW denom \in Nat \ {0}
  PROVE  /\ denom * (Ceiling(num, denom) - 1) < num
         /\ \A x \in Nat : num <= denom * x => Ceiling(num, denom) <= x
<1>. DEFINE q == (num - 1) \div denom
<1>1. q \in Nat /\ denom * q <= num - 1
  <2>1. num - 1 \in Nat
    OBVIOUS
  <2>. QED
    BY <2>1, DivFacts
<1>2. Ceiling(num, denom) - 1 = q
  BY <1>1 DEF Ceiling
<1>3. ASSUME NEW x \in Nat, num <= denom * x PROVE q < x
  <2>1. denom * x \in Nat /\ num - 1 \in Nat
    OBVIOUS
  <2>2. num - 1 < denom * x
    BY <1>3, <2>1
  <2>. QED
    BY <2>1, <2>2, DivBelow
<1>. HIDE DEF q
<1>4. denom * q < num
  <2>1. denom * q \in Nat
    BY <1>1
  <2>. QED
    BY <1>1, <2>1
<1>5. Ceiling(num, denom) = q + 1
  BY <1>1, <1>2, CeilingFact
<1>. QED
  BY <1>1, <1>2, <1>3, <1>4, <1>5

\* It grows with the number and shrinks with the divisor.
LEMMA CeilingMonotone ==
  ASSUME NEW n \in Nat \ {0}, NEW m \in Nat \ {0}, n <= m,
         NEW d \in Nat \ {0}, NEW e \in Nat \ {0}, e <= d
  PROVE  Ceiling(n, d) <= Ceiling(m, e)
<1>. DEFINE x == Ceiling(m, e)
<1>1. x \in Nat \ {0} /\ m <= e * x
  BY CeilingFact
<1>. HIDE DEF x
<1>2. e * x <= d * x /\ d * x \in Nat /\ e * x \in Nat
  BY <1>1
<1>3. n <= d * x
  BY <1>1, <1>2
<1>. QED
  BY <1>1, <1>3, CeilingLeast DEF x

\* By two or more it at least halves.
LEMMA CeilingHalf ==
  ASSUME NEW n \in Nat \ {0}, NEW d \in Nat, d >= 2
  PROVE  /\ Ceiling(n, d) \in Nat \ {0}
         /\ 2 * Ceiling(n, d) <= n + 1
<1>. DEFINE c == Ceiling(n, d)
<1>1. c \in Nat \ {0} /\ d * (c - 1) < n
  BY CeilingFact, CeilingLeast
<1>. HIDE DEF c
<1>2. 2 * (c - 1) <= d * (c - 1)
  <2>1. c - 1 \in Nat
    BY <1>1
  <2>. QED
    BY <2>1
<1>. QED
  BY <1>1, <1>2 DEF c

\* A longer ring has positions that are no smaller.
LEMMA PtrMaxMonotone ==
  ASSUME NEW h \in Nat \ {0}, NEW g \in Nat \ {0}, h <= g,
         NEW bytes \in Nat \ {0}
  PROVE  /\ PtrMax(h, bytes) <= PtrMax(g, bytes)
         /\ h < g => PtrMax(h, bytes) < PtrMax(g, bytes)
<1>. DEFINE S == Shifted[BindBits(bytes)]
<1>1. S \in Nat /\ S >= 1
  <2>1. BindBits(bytes) \in Nat
    BY BitLenFact DEF BindBits
  <2>2. S \in Nat
    BY <2>1, ShiftedFact
  <2>3. 8 * bytes <= S
    BY PtrMaxBounds
  <2>. HIDE DEF S
  <2>. QED
    BY <2>2, <2>3
<1>2. /\ PtrMax(h, bytes) = ((h - 1) * S + 8 * bytes - 1) * 2 + 1
      /\ PtrMax(g, bytes) = ((g - 1) * S + 8 * bytes - 1) * 2 + 1
  BY DEF PtrMax
<1>. HIDE DEF S
<1>3. /\ (h - 1) * S <= (g - 1) * S
      /\ (h - 1) * S \in Nat /\ (g - 1) * S \in Nat
  <2>1. h - 1 \in Nat /\ g - 1 \in Nat /\ h - 1 <= g - 1
    OBVIOUS
  <2>. QED
    BY <1>1, <2>1
<1>4. ASSUME h < g PROVE (h - 1) * S < (g - 1) * S
  <2>1. h * S <= (g - 1) * S
    <3>1. g - 1 \in Nat /\ h <= g - 1
      BY <1>4
    <3>. QED
      BY <1>1, <3>1
  <2>2. (h - 1) * S + S = h * S /\ h * S \in Nat
    BY <1>1
  <2>. QED
    BY <1>1, <1>3, <2>1, <2>2
<1>. QED
  BY <1>2, <1>3, <1>4

\* What RecStart asks of a memory, and the pointers to a ring in a block.
TwoPerBlock == blocksize >= 2 * ByteLen[PtrMax(memory, blocksize)]
PerBlock(h) == blocksize \div ByteLen[PtrMax(h, blocksize)]

\* With more blocks to point into there are fewer pointers in a block.
LEMMA PerBlockFact ==
  ASSUME SizesOK, TwoPerBlock,
         NEW g \in 1 .. memory, NEW h \in 1 .. g
  PROVE  /\ PerBlock(h) \in Nat /\ PerBlock(g) \in Nat
         /\ PerBlock(g) >= 2 /\ PerBlock(h) >= PerBlock(g)
<1>. DEFINE B(x) == ByteLen[PtrMax(x, blocksize)]
<1>0. blocksize \in Nat \ {0} /\ memory \in Nat \ {0}
  BY DEF SizesOK
<1>1. ASSUME NEW x \in 1 .. memory, NEW y \in 1 .. x
      PROVE  B(x) \in Nat \ {0} /\ B(y) \in Nat \ {0} /\ B(y) <= B(x)
  <2>1. /\ PtrMax(x, blocksize) \in Nat /\ PtrMax(y, blocksize) \in Nat
        /\ PtrMax(y, blocksize) <= PtrMax(x, blocksize)
        /\ 16 * (blocksize * y) <= PtrMax(y, blocksize) + 1
    <3>1. x \in Nat \ {0} /\ y \in Nat \ {0} /\ y <= x
      BY <1>0
    <3>2. PtrMax(x, blocksize) \in Nat
      BY <1>0, <3>1, PtrMaxBounds
    <3>3. /\ PtrMax(y, blocksize) \in Nat
          /\ 16 * (blocksize * y) <= PtrMax(y, blocksize) + 1
      BY <1>0, <3>1, PtrMaxBounds
    <3>4. PtrMax(y, blocksize) <= PtrMax(x, blocksize)
      BY <1>0, <3>1, PtrMaxMonotone
    <3>. QED
      BY <3>2, <3>3, <3>4
  <2>2. blocksize * y \in Nat \ {0}
    BY <1>0
  <2>3. PtrMax(y, blocksize) # 0 /\ PtrMax(x, blocksize) # 0
    BY <2>1, <2>2
  <2>. QED
    BY <2>1, <2>3, ByteLenMonotone
<1>2. B(memory) \in Nat \ {0} /\ B(g) \in Nat \ {0} /\ B(h) \in Nat \ {0}
      /\ B(g) <= B(memory) /\ B(h) <= B(g)
  <2>1. memory \in 1 .. memory /\ g \in 1 .. memory /\ h \in 1 .. g
    BY <1>0
  <2>. QED
    BY <1>1, <2>1
<1>3. blocksize >= B(g) * 2
  BY <1>0, <1>2 DEF TwoPerBlock
<1>. DEFINE k == blocksize \div B(g)
<1>4. k >= 2 /\ k \in Nat /\ B(g) * k <= blocksize
  BY <1>0, <1>2, <1>3, DivFrom, DivFacts
<1>5. blocksize \div B(h) >= k /\ blocksize \div B(h) \in Nat
  <2>. HIDE DEF k, B
  <2>1. B(h) * k <= B(g) * k /\ B(h) * k \in Nat /\ B(g) * k \in Nat
    BY <1>2, <1>4
  <2>2. blocksize >= B(h) * k
    BY <1>0, <1>4, <2>1
  <2>. QED
    BY <1>0, <1>2, <1>4, <2>2, DivFrom, DivFacts
<1>. QED
  BY <1>4, <1>5 DEF PerBlock

\* The blocks of a map.
LEMMA PmBlocksFact ==
  ASSUME SizesOK, TwoPerBlock, NEW n \in 1 .. memory - 1
  PROVE  /\ PmBlocks(n) = Ceiling(n, PerBlock(memory - n))
         /\ PerBlock(memory - n) \in Nat /\ PerBlock(memory - n) >= 2
         /\ PmBlocks(n) \in 1 .. memory - 1
         /\ 2 * PmBlocks(n) <= n + 1
         /\ PmBlocks(n) <= n
<1>1. memory \in Nat
  BY DEF SizesOK
<1>2. memory - n \in 1 .. memory /\ memory - n \in 1 .. memory - n
  BY <1>1
<1>3. PerBlock(memory - n) \in Nat /\ PerBlock(memory - n) >= 2
  BY <1>2, PerBlockFact
<1>4. PmBlocks(n) = Ceiling(n, PerBlock(memory - n))
  BY DEF PmBlocks, PpmSize, DetWoPMax, PerBlock
<1>5. n \in Nat \ {0}
  BY <1>1
<1>. HIDE DEF PerBlock
<1>6. PmBlocks(n) \in Nat \ {0} /\ 2 * PmBlocks(n) <= n + 1
  BY <1>3, <1>4, <1>5, CeilingHalf
<1>. QED
  BY <1>1, <1>3, <1>4, <1>5, <1>6

\* RecPrefSize is what its definition says.
LEMMA RecPrefSizeFact ==
  ASSUME SizesOK, TwoPerBlock, memory > 1
  PROVE  /\ RecPrefSize[1] = 1
         /\ \A n \in 2 .. memory - 1 :
              RecPrefSize[n] = RecPrefSize[PmBlocks(n)] + 2 * n
         /\ \A n \in 1 .. memory - 1 :
              RecPrefSize[n] \in Nat /\ RecPrefSize[n] >= n
<1>. DEFINE prev == [n \in Nat |-> IF n \in 2 .. memory - 1 THEN PmBlocks(n) ELSE 0]
            step == [p \in Nat \X Nat |-> IF p[1] <= 1 THEN p[1] ELSE p[2] + 2 * p[1]]
            Dom == 0 .. memory - 1
<1>0. memory \in Nat /\ memory > 1
  BY DEF SizesOK
<1>1. ASSUME NEW n \in 2 .. memory - 1
      PROVE  PmBlocks(n) \in Nat \ {0} /\ PmBlocks(n) < n /\ PmBlocks(n) \in 1 .. memory - 1
  <2>1. n \in 1 .. memory - 1
    BY <1>0
  <2>2. PmBlocks(n) \in 1 .. memory - 1 /\ 2 * PmBlocks(n) <= n + 1
    BY <2>1, PmBlocksFact
  <2>. QED
    BY <1>0, <2>2
<1>2. /\ prev \in [Nat -> Nat]
      /\ \A n \in 2 .. memory - 1 : prev[n] = PmBlocks(n)
      /\ \A n \in Nat \ {0} : prev[n] < n
  BY <1>0, <1>1
<1>3. /\ step \in [Nat \X Nat -> Nat] /\ 0 \in Nat
      /\ \A x \in Nat : step[<<1, x>>] = 1
      /\ \A n \in Nat, x \in Nat : n > 1 => step[<<n, x>>] = x + 2 * n
  OBVIOUS
<1>. HIDE DEF prev, step
<1>4. PICK f : Computes(f, Nat, 0, prev, step)
  BY <1>2, <1>3, Recursion
<1>5. f \in [Nat -> Nat] /\ f[0] = 0 /\ f[1] = 1
  <2>1. f[1] = step[<<1, f[prev[1]]>>] /\ f \in [Nat -> Nat] /\ f[0] = 0
    BY <1>4 DEF Computes
  <2>2. f[prev[1]] \in Nat
    BY <1>2, <2>1
  <2>. QED
    BY <1>3, <2>1, <2>2
<1>6. ASSUME NEW n \in 2 .. memory - 1 PROVE f[n] = f[PmBlocks(n)] + 2 * n
  <2>1. n \in Nat /\ n > 1 /\ n \in Nat \ {0} /\ f[PmBlocks(n)] \in Nat
    BY <1>0, <1>1, <1>5
  <2>2. f[n] = step[<<n, f[PmBlocks(n)]>>]
    BY <1>2, <1>4, <2>1 DEF Computes
  <2>. QED
    BY <1>3, <2>1, <2>2
<1>. DEFINE g == [n \in Dom |-> f[n]]
            next(h, n) == IF n <= 1 THEN n ELSE h[PmBlocks(n)] + DetWoPrefSize(n)
<1>7. ASSUME NEW n \in Dom PROVE g[n] = next(g, n)
  <2>1. CASE n \in 2 .. memory - 1
    <3>1. g[n] = f[n] /\ g[PmBlocks(n)] = f[PmBlocks(n)]
      BY <1>0, <1>1, <2>1
    <3>. QED
      BY <1>0, <1>6, <2>1, <3>1 DEF DetWoPrefSize
  <2>2. CASE n \notin 2 .. memory - 1
    <3>1. n \in {0, 1} /\ g[n] = f[n]
      BY <1>0, <2>2
    <3>. QED
      BY <1>5, <3>1
  <2>. QED
    BY <2>1, <2>2
<1>8. g = [n \in Dom |-> next(g, n)]
  <2>1. g = [n \in Dom |-> g[n]]
    OBVIOUS
  <2>. HIDE DEF g, next
  <2>. QED
    BY <1>7, <2>1
<1>9. RecPrefSize = [n \in Dom |-> next(RecPrefSize, n)]
  <2>. HIDE DEF g, Dom
  <2>1. RecPrefSize = CHOOSE h : h = [n \in Dom |-> next(h, n)]
    BY Zenon DEF RecPrefSize, Dom
  <2>. QED
    BY <1>8, <2>1, Zenon
<1>10. /\ RecPrefSize[1] = 1
       /\ \A n \in 2 .. memory - 1 :
            RecPrefSize[n] = RecPrefSize[PmBlocks(n)] + 2 * n
  <2>1. \A n \in Dom : RecPrefSize[n] = next(RecPrefSize, n)
    <3>. HIDE DEF next, Dom
    <3>. QED
      BY <1>9
  <2>2. 1 \in Dom /\ \A n \in 2 .. memory - 1 : n \in Dom /\ ~(n <= 1)
    BY <1>0
  <2>3. RecPrefSize[1] = 1
    BY <2>1, <2>2
  <2>. HIDE DEF Dom
  <2>. QED
    BY <2>1, <2>2, <2>3 DEF DetWoPrefSize
<1>. DEFINE T == {n \in 1 .. memory - 1 : ~(RecPrefSize[n] \in Nat /\ RecPrefSize[n] >= n)}
<1>11. ASSUME NEW n \in T PROVE \E m \in T : m < n
  <2>1. n \in 2 .. memory - 1
    BY <1>0, <1>10
  <2>2. RecPrefSize[n] = RecPrefSize[PmBlocks(n)] + 2 * n
    BY <1>10, <2>1
  <2>3. RecPrefSize[PmBlocks(n)] \notin Nat
    BY <1>0, <2>1, <2>2
  <2>. QED
    BY <1>1, <2>1, <2>3
<1>12. T = {}
  <2>1. T \in SUBSET Nat
    BY <1>0
  <2>. HIDE DEF T
  <2>. QED
    BY <1>11, <2>1, Descent
<1>. QED
  BY <1>10, <1>12

\* The bytes of a pointer to a ring next to n indices.
PtrLen(n) == ByteLen[PtrMax(memory - n, blocksize)]

\* If at least three quarters of the memory are left next to y indices, then
\* no positions are more than one byte longer than those, which have two.
LEMMA PtrLenFact ==
  ASSUME SizesOK, TwoPerBlock,
         NEW y \in 2 .. memory - 1, memory >= 4 * y - 1
  PROVE  /\ PtrLen(y) \in Nat \ {0}
         /\ \A z \in 1 .. memory - 1 :
              PtrLen(z) \in Nat \ {0} /\ PtrLen(z) <= PtrLen(y) + 1
         /\ PtrLen(y) = 1 => blocksize < 4
<1>. DEFINE M == memory - y
            p == PtrMax(M, blocksize)
            l == ByteLen[p]
            S == Shifted[8 * l]
<1>0. blocksize \in Nat \ {0} /\ memory \in Nat \ {0}
  BY DEF SizesOK
<1>1. M \in Nat \ {0} /\ M >= 5 /\ 3 * memory <= 4 * M + 1
  BY <1>0
<1>. HIDE DEF M
<1>2. p \in Nat /\ 16 * (blocksize * M) <= p + 1
  BY <1>0, <1>1, PtrMaxBounds
<1>3. blocksize * M >= 5 * blocksize /\ blocksize * M \in Nat
  BY <1>0, <1>1
<1>. HIDE DEF p
<1>4. p # 0
  BY <1>0, <1>2, <1>3
<1>5. l \in Nat \ {0}
  BY <1>2, <1>4, ByteLenMonotone
<1>6. p < S
  BY <1>2, ByteLenBounds
<1>7. S \in Nat /\ Shifted[8 * (l + 1)] = 256 * S
  <2>. HIDE DEF l
  <2>. QED
    BY <1>5, ByteLonger
<1>8. PtrLen(y) = l
  BY DEF PtrLen, l, p, M
<1>9. ASSUME NEW z \in 1 .. memory - 1
      PROVE  PtrLen(z) \in Nat \ {0} /\ PtrLen(z) <= l + 1
  <2>. DEFINE Z == memory - z
              r == PtrMax(Z, blocksize)
  <2>1. Z \in Nat \ {0} /\ Z <= 2 * M
    BY <1>0, <1>1
  <2>. HIDE DEF Z
  <2>2. /\ r \in Nat /\ r + 1 <= 32 * (blocksize * Z) - 16 * blocksize
        /\ 16 * (blocksize * Z) <= r + 1
    BY <1>0, <2>1, PtrMaxBounds
  <2>3. /\ blocksize * Z \in Nat /\ blocksize * Z >= blocksize
        /\ blocksize * Z <= 2 * (blocksize * M)
    <3>1. blocksize * Z <= blocksize * (2 * M)
      BY <1>0, <1>1, <2>1
    <3>2. blocksize * (2 * M) = 2 * (blocksize * M)
      BY <1>0, <1>1
    <3>3. blocksize * Z \in Nat /\ blocksize * Z >= blocksize
      BY <1>0, <2>1
    <3>. QED
      BY <3>1, <3>2, <3>3
  <2>. HIDE DEF r
  <2>4. r # 0 /\ r + 1 <= 4 * (p + 1)
    BY <1>0, <1>2, <1>3, <2>2, <2>3
  <2>5. r < Shifted[8 * (l + 1)]
    <3>. HIDE DEF l, S
    <3>. QED
      BY <1>2, <1>6, <1>7, <2>2, <2>4
  <2>6. ByteLen[r] \in Nat \ {0}
    BY <2>2, <2>4, ByteLenMonotone
  <2>7. ByteLen[r] <= l + 1
    <3>1. l + 1 \in Nat
      BY <1>5
    <3>. HIDE DEF l
    <3>. QED
      BY <2>2, <2>5, <3>1, ByteLenBounds
  <2>8. PtrLen(z) = ByteLen[r]
    BY DEF PtrLen, r, Z
  <2>. QED
    BY <2>6, <2>7, <2>8
<1>10. ASSUME l = 1 PROVE blocksize < 4
  <2>1. S = 256
    <3>1. 8 * 0 = 0 /\ 0 + 1 = l
      BY <1>10
    <3>2. Shifted[8 * (0 + 1)] = 256 * Shifted[8 * 0]
      BY ByteLonger
    <3>3. Shifted[8 * 0] = 1
      BY <3>1, ShiftedFact
    <3>. QED
      BY <3>1, <3>2, <3>3
  <2>. HIDE DEF S, l
  <2>2. 16 * (5 * blocksize) <= 256
    BY <1>0, <1>2, <1>3, <1>6, <2>1
  <2>. QED
    BY <1>0, <2>2
<1>. QED
  BY <1>5, <1>8, <1>9, <1>10

\* One byte less in a pointer of two: no more pointers than the square.
LEMMA PerBlockSquare ==
  ASSUME SizesOK, NEW l \in Nat, l >= 2, blocksize \div (l + 1) >= 2
  PROVE  blocksize \div l
           <= (blocksize \div (l + 1)) * (blocksize \div (l + 1))
<1>. DEFINE j == blocksize \div l
            k == blocksize \div (l + 1)
<1>0. blocksize \in Nat /\ l \in Nat \ {0} /\ l + 1 \in Nat \ {0}
  BY DEF SizesOK
<1>1. j \in Nat /\ l * j <= blocksize
  BY <1>0, DivFacts
<1>2. k \in Nat /\ blocksize < (l + 1) * k + (l + 1)
  BY <1>0, DivFacts
<1>3. k >= 2
  OBVIOUS
<1>. HIDE DEF j, k
<1>4. 2 * ((l + 1) * (k + 1)) <= (3 * l) * (k + 1)
      /\ (3 * l) * (k + 1) = l * (3 * k + 3)
  <2>1. 2 * (l + 1) <= 3 * l /\ k + 1 \in Nat
    BY <1>2
  <2>2. (2 * (l + 1)) * (k + 1) <= (3 * l) * (k + 1)
    BY <2>1
  <2>. QED
    BY <1>2, <2>2
<1>5. l * (2 * j) < l * (3 * k + 3)
  <2>1. l * (2 * j) = 2 * (l * j) /\ l * j \in Nat
        /\ (l + 1) * (k + 1) = (l + 1) * k + (l + 1)
    BY <1>0, <1>1, <1>2
  <2>2. (l + 1) * k \in Nat /\ l * (3 * k + 3) \in Nat
    BY <1>0, <1>2
  <2>. QED
    BY <1>0, <1>1, <1>2, <1>4, <2>1, <2>2
<1>6. 2 * j < 3 * k + 3
  <2>1. SUFFICES ASSUME 3 * k + 3 <= 2 * j PROVE FALSE
    BY <1>1, <1>2
  <2>2. l * (3 * k + 3) <= l * (2 * j)
    BY <1>1, <1>2, <2>1
  <2>3. l * (3 * k + 3) \in Nat /\ l * (2 * j) \in Nat
    BY <1>1, <1>2
  <2>. QED
    BY <1>5, <2>2, <2>3
<1>7. j <= k * k
  <2>1. CASE k = 2
    BY <1>1, <1>6, <2>1
  <2>2. CASE k >= 3
    <3>1. 3 * k <= k * k /\ k * k \in Nat
      BY <1>2, <2>2
    <3>. QED
      BY <1>1, <1>2, <1>6, <2>2, <3>1
  <2>. QED
    BY <1>2, <1>3, <2>1, <2>2
<1>. QED
  BY <1>7 DEF j, k

\* As long as a block holds the same number of pointers, fewer indices take
\* fewer blocks.
LEMMA RecPrefSizeMonotone ==
  ASSUME SizesOK, TwoPerBlock, NEW top \in 1 .. memory - 1, NEW k,
         \A z \in 1 .. top : PerBlock(memory - z) = k
  PROVE  \A y \in 1 .. top : \A x \in 1 .. y : RecPrefSize[x] <= RecPrefSize[y]
<1>. DEFINE T == {y \in 1 .. top : \E x \in 1 .. y : ~(RecPrefSize[x] <= RecPrefSize[y])}
<1>0. memory \in Nat /\ memory > 1
  BY DEF SizesOK
<1>1. ASSUME NEW y \in T PROVE \E m \in T : m < y
  <2>1. PICK x \in 1 .. y : ~(RecPrefSize[x] <= RecPrefSize[y])
    OBVIOUS
  <2>2. y \in 1 .. memory - 1 /\ x \in 1 .. memory - 1 /\ y \in 1 .. top
        /\ x \in 1 .. top
        /\ y \in Nat /\ x \in Nat
    BY <1>0
  <2>3. RecPrefSize[y] \in Nat /\ RecPrefSize[y] >= y
    BY <1>0, <2>2, RecPrefSizeFact
  <2>4. RecPrefSize[1] = 1
    BY <1>0, RecPrefSizeFact
  <2>5. x # 1
    BY <2>1, <2>2, <2>3, <2>4
  <2>6. x \in 2 .. memory - 1 /\ y \in 2 .. memory - 1
    BY <2>2, <2>5
  <2>7. /\ RecPrefSize[x] = RecPrefSize[PmBlocks(x)] + 2 * x
        /\ RecPrefSize[y] = RecPrefSize[PmBlocks(y)] + 2 * y
    BY <1>0, <2>6, RecPrefSizeFact
  <2>8. /\ PmBlocks(x) = Ceiling(x, k) /\ k \in Nat /\ k >= 2
        /\ PmBlocks(x) \in 1 .. memory - 1
    BY <2>2, PmBlocksFact
  <2>9. PmBlocks(y) = Ceiling(y, k) /\ PmBlocks(y) \in 1 .. memory - 1
        /\ 2 * PmBlocks(y) <= y + 1
    BY <2>2, PmBlocksFact
  <2>10. PmBlocks(x) <= PmBlocks(y)
    <3>1. x \in Nat \ {0} /\ y \in Nat \ {0} /\ x <= y /\ k \in Nat \ {0} /\ k <= k
      BY <2>2, <2>8
    <3>2. Ceiling(x, k) <= Ceiling(y, k)
      BY <3>1, CeilingMonotone
    <3>. QED
      BY <2>8, <2>9, <3>2
  <2>11. PmBlocks(y) < y /\ PmBlocks(y) \in 1 .. top
         /\ PmBlocks(x) \in 1 .. PmBlocks(y)
    BY <1>0, <2>2, <2>6, <2>8, <2>9, <2>10
  <2>12. RecPrefSize[PmBlocks(x)] \in Nat /\ RecPrefSize[PmBlocks(y)] \in Nat
    BY <1>0, <2>8, <2>9, RecPrefSizeFact
  <2>13. ~(RecPrefSize[PmBlocks(x)] <= RecPrefSize[PmBlocks(y)])
    BY <2>1, <2>2, <2>7, <2>12
  <2>. QED
    BY <2>11, <2>13
<1>2. T = {}
  <2>1. T \in SUBSET Nat
    BY <1>0
  <2>. HIDE DEF T
  <2>. QED
    BY <1>1, <2>1, Descent
<1>. QED
  BY <1>2

\* The blocks of a map and its own map are at most x more for x indices than
\* they are for more indices, y.
LittleMore(x, y) == RecPrefSize[x] <= RecPrefSize[y] + x

\* The same for the parts: a memory for y has room for x indices and their map.
LEMMA PartsFit ==
  ASSUME SizesOK, TwoPerBlock,
         NEW y \in 2 .. memory - 1, memory >= 4 * y - 1,
         NEW x \in 1 .. y - 1,
         \A v \in 1 .. y, u \in 1 .. x : u <= v /\ u < x => LittleMore(u, v)
  PROVE  x + RecPrefSize[PmBlocks(x)] < RecPrefSize[y]
<1>0. memory \in Nat /\ memory > 1 /\ blocksize \in Nat
  BY DEF SizesOK
<1>1. /\ x \in 1 .. memory - 1 /\ y \in 1 .. memory - 1
      /\ x \in Nat \ {0} /\ y \in Nat \ {0} /\ x <= y /\ x + 1 <= y
  BY <1>0
<1>. DEFINE p == PmBlocks(x)
            q == PmBlocks(y)
            j == PerBlock(memory - x)
            k == PerBlock(memory - y)
<1>2. /\ p = Ceiling(x, j) /\ j \in Nat /\ j >= 2
      /\ p \in 1 .. memory - 1 /\ 2 * p <= x + 1 /\ p <= x
  BY <1>1, PmBlocksFact
<1>3. /\ q = Ceiling(y, k) /\ k \in Nat /\ k >= 2
      /\ q \in 1 .. memory - 1 /\ q <= y
  BY <1>1, PmBlocksFact
<1>4. RecPrefSize[y] = RecPrefSize[q] + 2 * y
  BY <1>0, RecPrefSizeFact
<1>5. /\ RecPrefSize[p] \in Nat /\ RecPrefSize[q] \in Nat
      /\ RecPrefSize[q] >= q /\ RecPrefSize[1] = 1
  BY <1>0, <1>2, <1>3, RecPrefSizeFact
<1>. SUFFICES x + RecPrefSize[p] < RecPrefSize[y]
  OBVIOUS
<1>6. CASE p <= q
  <2>1. CASE p = x
    <3>1. p = 1
      BY <1>1, <1>2, <2>1
    <3>. HIDE DEF p, q
    <3>. QED
      BY <1>1, <1>3, <1>4, <1>5, <2>1, <3>1
  <2>2. CASE p # x
    <3>1. p \in 1 .. x /\ p < x /\ q \in 1 .. y
      BY <1>0, <1>1, <1>2, <1>3, <2>2
    <3>. HIDE DEF p, q
    <3>2. LittleMore(p, q)
      BY <1>6, <3>1
    <3>. QED
      BY <1>1, <1>2, <1>3, <1>4, <1>5, <3>1, <3>2 DEF LittleMore
  <2>. QED
    BY <2>1, <2>2
<1>7. CASE p > q
  <2>1. j < k
    <3>1. SUFFICES ASSUME k <= j PROVE FALSE
      BY <1>2, <1>3
    <3>2. j \in Nat \ {0} /\ k \in Nat \ {0}
      BY <1>2, <1>3
    <3>. HIDE DEF j, k
    <3>3. Ceiling(x, j) <= Ceiling(y, k)
      BY <1>1, <3>1, <3>2, CeilingMonotone
    <3>. HIDE DEF p, q
    <3>. QED
      BY <1>2, <1>3, <1>7, <3>3
  <2>. DEFINE l == PtrLen(y)
  <2>2. /\ l \in Nat \ {0}
        /\ \A z \in 1 .. memory - 1 : PtrLen(z) \in Nat \ {0} /\ PtrLen(z) <= l + 1
        /\ l = 1 => blocksize < 4
    BY PtrLenFact
  <2>3. /\ k = blocksize \div l
        /\ \A z \in 1 .. memory - 1 : PerBlock(memory - z) = blocksize \div PtrLen(z)
    BY DEF PerBlock, PtrLen
  <2>. HIDE DEF l
  <2>4. ASSUME NEW z \in 1 .. x PROVE PtrLen(z) = l + 1
    <3>1. /\ z \in 1 .. memory - 1 /\ memory - z \in 1 .. memory
          /\ memory - x \in 1 .. memory - z
          /\ memory - z \in Nat \ {0} /\ memory - y \in Nat \ {0}
          /\ memory - y <= memory - z /\ blocksize \in Nat \ {0}
      BY <1>0, <1>1 DEF SizesOK
    <3>2. PerBlock(memory - z) <= j /\ PerBlock(memory - z) \in Nat
      BY <3>1, PerBlockFact
    <3>3. PtrLen(z) # l
      <4>1. SUFFICES ASSUME PtrLen(z) = l PROVE FALSE
        OBVIOUS
      <4>2. PerBlock(memory - z) = k
        BY <2>3, <3>1, <4>1
      <4>. HIDE DEF j, k
      <4>. QED
        BY <1>2, <1>3, <2>1, <3>2, <4>2
    <3>4. PtrLen(z) >= l
      <4>1. PtrMax(memory - y, blocksize) <= PtrMax(memory - z, blocksize)
        BY <3>1, PtrMaxMonotone
      <4>2. PtrMax(memory - y, blocksize) \in Nat
            /\ PtrMax(memory - z, blocksize) \in Nat
        BY <3>1, PtrMaxBounds
      <4>3. ByteLen[PtrMax(memory - y, blocksize)] <= ByteLen[PtrMax(memory - z, blocksize)]
        BY <4>1, <4>2, ByteLenMonotone
      <4>. QED
        BY <4>3 DEF PtrLen, l
    <3>. QED
      BY <2>2, <3>1, <3>3, <3>4
  <2>5. x \in 1 .. x /\ p \in 1 .. x /\ p # 1 /\ p \in 2 .. memory - 1
        /\ q \in 1 .. p
    <3>. HIDE DEF p, q
    <3>. QED
      BY <1>0, <1>1, <1>2, <1>3, <1>7
  <2>6. j = blocksize \div (l + 1)
    BY <1>1, <2>3, <2>4, <2>5
  <2>7. \A z \in 1 .. x : PerBlock(memory - z) = j
    <3>1. \A z \in 1 .. x : z \in 1 .. memory - 1
      BY <1>0, <1>1
    <3>. HIDE DEF j
    <3>. QED
      BY <2>3, <2>4, <2>6, <3>1
  <2>8. l >= 2
    <3>1. l # 1
      <4>1. SUFFICES ASSUME l = 1 PROVE FALSE
        OBVIOUS
      <4>2. blocksize < 4 /\ l + 1 = 2 /\ j = blocksize \div 2
        BY <2>2, <2>6, <4>1
      <4>. HIDE DEF j
      <4>3. 2 * j <= blocksize
        BY <1>0, <4>2
      <4>. QED
        BY <1>0, <1>2, <4>2, <4>3
    <3>. QED
      BY <2>2, <3>1
  <2>9. k <= j * j
    <3>1. blocksize \div (l + 1) >= 2
      BY <1>2, <2>6
    <3>2. blocksize \div l <= (blocksize \div (l + 1)) * (blocksize \div (l + 1))
      BY <2>2, <2>8, <3>1, PerBlockSquare
    <3>. QED
      BY <2>3, <2>6, <3>2
  <2>. DEFINE r == PmBlocks(p)
  <2>10. r = Ceiling(p, j) /\ r \in 1 .. memory - 1
    <3>1. p \in 1 .. memory - 1
      BY <1>2
    <3>2. PerBlock(memory - p) = j
      BY <2>5, <2>7
    <3>. HIDE DEF p
    <3>. QED
      BY <3>1, <3>2, PmBlocksFact
  <2>. HIDE DEF j, k, r
  <2>11. q \in Nat /\ y <= k * q
    <3>1. k \in Nat \ {0}
      BY <1>3
    <3>. QED
      BY <1>1, <1>3, <3>1, CeilingFact
  <2>12. y <= j * (j * q) /\ j * q \in Nat /\ j * (j * q) \in Nat
    <3>1. j * j \in Nat /\ j * q \in Nat /\ j * (j * q) \in Nat
          /\ (j * j) * q = j * (j * q)
      BY <1>2, <2>11
    <3>2. k * q <= (j * j) * q /\ k * q \in Nat
      BY <1>3, <2>9, <2>11, <3>1
    <3>. QED
      BY <1>1, <2>11, <3>1, <3>2
  <2>13. p <= j * q
    <3>1. j \in Nat \ {0} /\ x <= j * (j * q)
      BY <1>1, <1>2, <2>12
    <3>. QED
      BY <1>1, <1>2, <2>12, <3>1, CeilingLeast
  <2>14. r <= q
    <3>1. p \in Nat \ {0} /\ j \in Nat \ {0}
      BY <1>2
    <3>. HIDE DEF p, q
    <3>. QED
      BY <2>10, <2>11, <2>13, <3>1, CeilingLeast
  <2>15. RecPrefSize[r] <= RecPrefSize[q]
    <3>1. q \in 1 .. x /\ r \in 1 .. q
      <4>. HIDE DEF p, q
      <4>. QED
        BY <1>0, <1>1, <1>3, <2>5, <2>10, <2>14
    <3>2. \A v \in 1 .. x : \A u \in 1 .. v : RecPrefSize[u] <= RecPrefSize[v]
      BY <1>1, <2>7, RecPrefSizeMonotone
    <3>. QED
      BY <3>1, <3>2
  <2>16. RecPrefSize[p] = RecPrefSize[r] + 2 * p /\ RecPrefSize[r] \in Nat
    <3>. HIDE DEF p
    <3>. QED
      BY <1>0, <2>5, <2>10, RecPrefSizeFact DEF r
  <2>. HIDE DEF p, q
  <2>. QED
    BY <1>1, <1>2, <1>4, <1>5, <2>15, <2>16
<1>. QED
  BY <1>2, <1>3, <1>6, <1>7

\* What LittleMore says holds of all numbers of indices that leave three
\* quarters of the memory.
LEMMA AlwaysLittleMore ==
  ASSUME SizesOK, TwoPerBlock, memory > 1
  PROVE  \A y \in 1 .. memory - 1 : \A x \in 1 .. y :
           memory >= 4 * y - 1 => LittleMore(x, y)
<1>. DEFINE Fails(x, y) == memory >= 4 * y - 1 /\ ~LittleMore(x, y)
            T == {x \in 1 .. memory - 1 : \E y \in x .. memory - 1 : Fails(x, y)}
<1>0. memory \in Nat /\ memory > 1
  BY DEF SizesOK
<1>1. ASSUME NEW x \in T, \A m \in T : ~(m < x) PROVE FALSE
  <2>1. PICK y \in x .. memory - 1 : Fails(x, y)
    OBVIOUS
  <2>2. /\ x \in Nat \ {0} /\ y \in Nat \ {0} /\ x <= y /\ y <= memory - 1
        /\ x \in 1 .. memory - 1 /\ y \in 1 .. memory - 1
    BY <1>0
  <2>3. /\ RecPrefSize[y] \in Nat /\ RecPrefSize[x] \in Nat
        /\ RecPrefSize[1] = 1
    BY <1>0, <2>2, RecPrefSizeFact
  <2>4. x # 1 /\ x # y
    BY <2>1, <2>2, <2>3 DEF LittleMore
  <2>5. /\ x \in 2 .. memory - 1 /\ y \in 2 .. memory - 1 /\ x \in 1 .. y - 1
        /\ memory >= 4 * y - 1
    BY <1>0, <2>1, <2>2, <2>4
  <2>6. \A v \in 1 .. y, u \in 1 .. x : u <= v /\ u < x => LittleMore(u, v)
    <3>. SUFFICES ASSUME NEW v \in 1 .. y, NEW u \in 1 .. x, u <= v, u < x
                  PROVE  LittleMore(u, v)
      OBVIOUS
    <3>1. u \in 1 .. memory - 1 /\ v \in u .. memory - 1 /\ memory >= 4 * v - 1
      BY <1>0, <2>2, <2>5
    <3>2. u \notin T
      BY <1>1
    <3>. QED
      BY <3>1, <3>2
  <2>7. x + RecPrefSize[PmBlocks(x)] < RecPrefSize[y]
    BY <2>5, <2>6, PartsFit
  <2>8. RecPrefSize[x] = RecPrefSize[PmBlocks(x)] + 2 * x
    BY <1>0, <2>5, RecPrefSizeFact
  <2>9. PmBlocks(x) \in 1 .. memory - 1
    BY <2>2, PmBlocksFact
  <2>10. RecPrefSize[PmBlocks(x)] \in Nat
    BY <1>0, <2>9, RecPrefSizeFact
  <2>. QED
    BY <2>1, <2>2, <2>3, <2>7, <2>8, <2>10 DEF LittleMore
<1>2. T = {}
  <2>1. T \in SUBSET Nat
    BY <1>0
  <2>2. \A x \in T : \E m \in T : m < x
    <3>. HIDE DEF T
    <3>. QED
      BY <1>1
  <2>. HIDE DEF T
  <2>. QED
    BY <2>1, <2>2, Descent
<1>. SUFFICES ASSUME NEW y \in 1 .. memory - 1, NEW x \in 1 .. y,
                     memory >= 4 * y - 1
              PROVE  LittleMore(x, y)
  OBVIOUS
<1>3. x \in 1 .. memory - 1 /\ y \in x .. memory - 1
  BY <1>0
<1>. QED
  BY <1>2, <1>3

(***************************************************************************)
(* What RecWoramFactory may be instantiated with at any level: as many     *)
(* blocks as prefsize asks for, for the number of indices or for more, if  *)
(* these leave three quarters of the memory.                               *)
(***************************************************************************)
Suffices(q) ==
  /\ indices <= q
  /\ RecPrefSize[q] <= blocks
  /\ indices = q \/ memory >= 4 * q - 1

RecInv ==
  factory = "rec" =>
    /\ TwoPerBlock
    /\ memory \in Nat /\ memory > 1
    /\ indices \in Nat \ {0}
    /\ blocks \in 0 .. memory
    /\ \E q \in 2 .. memory - 1 : Suffices(q)

\* The parts of a level.
LEMMA RecParts ==
  ASSUME SizesOK, RecInv, factory = "rec"
  PROVE  /\ indices \in 1 .. memory - 1 /\ 2 * indices + 1 <= memory
         /\ PmBlocks(indices) \in 1 .. memory - 1
         /\ 2 * PmBlocks(indices) <= indices + 1
         /\ RecPrefSize[PmBlocks(indices)] \in Nat
         /\ PmBlocks(indices) <= RecPrefSize[PmBlocks(indices)]
         /\ indices + RecPrefSize[PmBlocks(indices)] < blocks
<1>0. /\ TwoPerBlock /\ memory \in Nat /\ memory > 1
      /\ indices \in Nat \ {0} /\ blocks \in 0 .. memory
  BY DEF RecInv
<1>1. PICK q \in 2 .. memory - 1 : Suffices(q)
  BY DEF RecInv
<1>2. q \in Nat /\ q \in 1 .. memory - 1 /\ indices <= q
      /\ RecPrefSize[q] <= blocks
  BY <1>0, <1>1 DEF Suffices
<1>3. indices \in 1 .. memory - 1
  BY <1>0, <1>2
<1>4. RecPrefSize[q] = RecPrefSize[PmBlocks(q)] + 2 * q
  BY <1>0, RecPrefSizeFact
<1>5. PmBlocks(q) \in 1 .. memory - 1
  BY <1>0, <1>2, PmBlocksFact
<1>6. RecPrefSize[PmBlocks(q)] \in Nat /\ RecPrefSize[PmBlocks(q)] >= 1
  BY <1>0, <1>5, RecPrefSizeFact
<1>7. 2 * indices + 1 <= memory
  BY <1>0, <1>2, <1>4, <1>6
<1>8. PmBlocks(indices) \in 1 .. memory - 1
      /\ 2 * PmBlocks(indices) <= indices + 1
  BY <1>0, <1>3, PmBlocksFact
<1>9. /\ RecPrefSize[PmBlocks(indices)] \in Nat
      /\ PmBlocks(indices) <= RecPrefSize[PmBlocks(indices)]
  BY <1>0, <1>8, RecPrefSizeFact
<1>10. indices + RecPrefSize[PmBlocks(indices)] < blocks
  <2>1. CASE indices = q
    BY <1>0, <1>2, <1>4, <1>9, <2>1
  <2>2. CASE indices # q
    <3>1. memory >= 4 * q - 1 /\ indices \in 1 .. q - 1
      BY <1>0, <1>1, <1>2, <2>2 DEF Suffices
    <3>2. \A v \in 1 .. q, u \in 1 .. indices :
            u <= v /\ u < indices => LittleMore(u, v)
      <4>. SUFFICES ASSUME NEW v \in 1 .. q, NEW u \in 1 .. indices, u <= v
                    PROVE  LittleMore(u, v)
        OBVIOUS
      <4>1. v \in 1 .. memory - 1 /\ u \in 1 .. v /\ memory >= 4 * v - 1
        BY <1>0, <1>2, <3>1
      <4>. QED
        BY <1>0, <4>1, AlwaysLittleMore
    <3>3. indices + RecPrefSize[PmBlocks(indices)] < RecPrefSize[q]
      BY <1>0, <3>1, <3>2, PartsFit
    <3>4. RecPrefSize[q] \in Nat
      BY <1>4, <1>6
    <3>. QED
      BY <1>0, <1>2, <1>9, <3>3, <3>4
  <2>. QED
    BY <2>1, <2>2
<1>. QED
  BY <1>3, <1>7, <1>8, <1>9, <1>10

\* A map of n positions on fewer blocks of memory is no larger.
LEMMA NoLarger ==
  ASSUME SizesOK, TwoPerBlock, NEW n \in 1 .. memory - 1,
         NEW m \in Nat, n < m, m <= memory
  PROVE  /\ PpmSize(blocksize, n, DetWoPMax(m, n)) \in Nat \ {0}
         /\ PpmSize(blocksize, n, DetWoPMax(m, n)) <= PmBlocks(n)
<1>. DEFINE j == PerBlock(memory - n)
            k == PerBlock(m - n)
<1>1. memory - n \in 1 .. memory /\ m - n \in 1 .. memory - n /\ n \in Nat \ {0}
  BY DEF SizesOK
<1>2. j \in Nat /\ k \in Nat /\ j >= 2 /\ k >= j
  BY <1>1, PerBlockFact
<1>3. PmBlocks(n) = Ceiling(n, j)
  BY PmBlocksFact
<1>4. PpmSize(blocksize, n, DetWoPMax(m, n)) = Ceiling(n, k)
  BY DEF PpmSize, DetWoPMax, PerBlock
<1>. HIDE DEF j, k
<1>5. j \in Nat \ {0} /\ k \in Nat \ {0}
  BY <1>2
<1>6. Ceiling(n, k) <= Ceiling(n, j) /\ Ceiling(n, k) \in Nat \ {0}
  <2>1. n <= n
    BY <1>1
  <2>2. Ceiling(n, k) <= Ceiling(n, j)
    BY <1>1, <1>2, <1>5, <2>1, CeilingMonotone
  <2>. QED
    BY <1>1, <1>5, <2>2, CeilingFact
<1>. QED
  BY <1>3, <1>4, <1>6

\* The level itself.
LEMMA RecLevelFits ==
  ASSUME SizesOK, RecInv, factory = "rec"
  PROVE  /\ DetWoAssert
         /\ PackPosMapAssert => PackMemAssert
         /\ NextIndices \in Nat \ {0} /\ NextIndices <= PmBlocks(indices)
         /\ ~BaseCase => PmBlocks(indices) >= 2
<1>. DEFINE p == PmBlocks(indices)
<1>0. /\ TwoPerBlock /\ memory \in Nat /\ memory > 1
      /\ blocks \in 0 .. memory /\ blocks \in Nat /\ blocks <= memory
      /\ blocksize \in Nat \ {0}
  BY DEF RecInv, SizesOK
<1>1. /\ indices \in 1 .. memory - 1 /\ indices \in Nat
      /\ p \in 1 .. memory - 1 /\ p \in Nat /\ 2 * p <= indices + 1
      /\ RecPrefSize[p] \in Nat /\ p <= RecPrefSize[p]
      /\ indices + RecPrefSize[p] < blocks
  BY RecParts
<1>2. MapBlocks \in {p, RecPrefSize[p]}
  BY DEF MapBlocks, PmSize
<1>. HIDE DEF p
<1>3. /\ MapBlocks \in Nat /\ p <= MapBlocks
      /\ indices < blocks - MapBlocks /\ blocks - MapBlocks <= memory
      /\ blocks - MapBlocks \in Nat
      /\ indices < blocks
  BY <1>0, <1>1, <1>2
<1>4. NextIndices \in Nat \ {0} /\ NextIndices <= p
  <2>1. PpmSize(blocksize, indices, DetWoPMax(blocks - MapBlocks, indices)) \in Nat \ {0}
    BY <1>0, <1>1, <1>3, NoLarger
  <2>2. PpmSize(blocksize, indices, DetWoPMax(blocks - MapBlocks, indices)) <= PmBlocks(indices)
    BY <1>0, <1>1, <1>3, NoLarger
  <2>. QED
    BY <2>1, <2>2 DEF NextIndices, WoPMax, p
<1>5. DetWoAssert
  BY <1>1, <1>3 DEF DetWoAssert
<1>6. ByteLen[WoPMax + 1] <= blocksize
  <2>. DEFINE h == blocks - MapBlocks - indices
  <2>1. h \in Nat \ {0} /\ memory \in Nat \ {0} /\ h < memory
    BY <1>0, <1>1, <1>3
  <2>2. WoPMax = PtrMax(h, blocksize)
    BY DEF WoPMax, DetWoPMax
  <2>. HIDE DEF h
  <2>3. /\ PtrMax(h, blocksize) \in Nat /\ PtrMax(memory, blocksize) \in Nat
        /\ PtrMax(h, blocksize) + 1 <= PtrMax(memory, blocksize)
    <3>1. PtrMax(h, blocksize) \in Nat /\ PtrMax(memory, blocksize) \in Nat
      BY <1>0, <2>1, PtrMaxBounds
    <3>2. h <= memory
      BY <2>1
    <3>3. PtrMax(h, blocksize) < PtrMax(memory, blocksize)
      BY <1>0, <2>1, <3>2, PtrMaxMonotone
    <3>. QED
      BY <3>1, <3>3
  <2>4. /\ ByteLen[WoPMax + 1] \in Nat /\ ByteLen[PtrMax(memory, blocksize)] \in Nat
        /\ ByteLen[WoPMax + 1] <= ByteLen[PtrMax(memory, blocksize)]
    <3>1. WoPMax + 1 \in Nat
      BY <2>2, <2>3
    <3>. QED
      BY <2>2, <2>3, <3>1, ByteLenMonotone
  <2>. QED
    BY <1>0, <2>4 DEF TwoPerBlock
<1>7. ASSUME PackPosMapAssert PROVE PackMemAssert
  <2>1. BackBlocks(blocksize, indices, WoPMax) = NextIndices
    BY <1>7 DEF PackPosMapAssert, NextIndices
  <2>2. MapSize >= NextIndices
    BY <1>1, <1>3, <1>4 DEF MapSize
  <2>. QED
    BY <1>6, <2>1, <2>2 DEF PackMemAssert
<1>8. ASSUME ~BaseCase PROVE p >= 2
  <2>. DEFINE c == PpmSize(blocksize, indices, DetWoPMax(blocks, indices))
  <2>1. c \in Nat \ {0} /\ c <= p
    BY <1>0, <1>1, <1>3, NoLarger DEF p
  <2>2. ~(c <= blocksize)
    BY <1>8 DEF BaseCase
  <2>. HIDE DEF c
  <2>. QED
    BY <1>0, <1>1, <2>1, <2>2
<1>. QED
  BY <1>4, <1>5, <1>7, <1>8 DEF p

(***************************************************************************)
(* RecWoramFactory on prefsize(N) blocks or more: at every level that is   *)
(* reached the data are left a holding area, and if PackPosMap accepts the *)
(* width of a position, which ppm_size may underestimate by a byte, the    *)
(* map has the blocks it needs, although these have been computed for the  *)
(* whole memory, and is smaller than the level before; for every blocksize *)
(* in which two pointers fit.                                              *)
(***************************************************************************)
THEOREM FactoriesRecursionFits == Spec => []RecursionFits
<1>1. Init => RecInv
  BY DEF Init, RecInv
<1>2. SizesOK /\ RecInv /\ [Next]_vars => RecInv'
  <2>. SUFFICES ASSUME SizesOK, RecInv, [Next]_vars, factory' = "rec"
                PROVE  /\ TwoPerBlock'
                       /\ memory' \in Nat /\ memory' > 1
                       /\ indices' \in Nat \ {0}
                       /\ blocks' \in 0 .. memory'
                       /\ (\E q \in 2 .. memory - 1 : Suffices(q))'
    BY DEF RecInv
  <2>1. CASE RecStart
    <3>1. /\ size \in 2 .. memory - 1 /\ memory \in Nat /\ memory > 1
          /\ TwoPerBlock
          /\ size \in Nat \ {0}
      BY <2>1 DEF RecStart, SizesOK, TwoPerBlock
    <3>2. /\ size' = size /\ memory' = memory /\ blocksize' = blocksize
          /\ indices' = size /\ blocks' = memory /\ RecPrefSize[size] <= memory
      BY <2>1 DEF RecStart, sizes
    <3>3. RecPrefSize' = RecPrefSize
      BY <3>2 DEF RecPrefSize, PmBlocks, PpmSize, DetWoPMax, DetWoPrefSize
    <3>4. Suffices(size)'
      BY <3>1, <3>2, <3>3 DEF Suffices
    <3>5. TwoPerBlock'
      BY <3>1, <3>2 DEF TwoPerBlock
    <3>. QED
      BY <3>1, <3>2, <3>4, <3>5
  <2>2. CASE RecLevel
    <3>1. factory = "rec" /\ ~BaseCase
      BY <2>2 DEF RecLevel
    <3>2. /\ memory' = memory /\ blocksize' = blocksize
          /\ indices' = NextIndices
          /\ blocks' = RecPrefSize[PmBlocks(indices)]
      BY <2>2, <3>1 DEF RecLevel, sizes, MapBlocks, PmSize
    <3>3. RecPrefSize' = RecPrefSize
      BY <3>2 DEF RecPrefSize, PmBlocks, PpmSize, DetWoPMax, DetWoPrefSize
    <3>. DEFINE p == PmBlocks(indices)
    <3>4. /\ NextIndices \in Nat \ {0} /\ NextIndices <= p /\ p >= 2
      BY <3>1, RecLevelFits
    <3>5. /\ indices \in 1 .. memory - 1 /\ 2 * indices + 1 <= memory
          /\ p \in 1 .. memory - 1 /\ 2 * p <= indices + 1
          /\ RecPrefSize[p] \in Nat
          /\ indices + RecPrefSize[p] < blocks
      BY <3>1, RecParts
    <3>6. memory \in Nat /\ memory > 1 /\ TwoPerBlock /\ blocks \in 0 .. memory
      BY <3>1 DEF RecInv
    <3>. HIDE DEF p
    <3>7. p \in 2 .. memory - 1 /\ memory >= 4 * p - 1
      BY <3>4, <3>5, <3>6
    <3>8. RecPrefSize[p] \in 0 .. memory
      BY <3>5, <3>6
    <3>9. indices' <= p /\ blocks' = RecPrefSize[p] /\ indices' \in Nat \ {0}
      BY <3>2, <3>4 DEF p
    <3>10. TwoPerBlock'
      BY <3>2, <3>6 DEF TwoPerBlock
    <3>11. \E q \in 2 .. memory' - 1 : indices' <= q
           /\ RecPrefSize'[q] <= blocks'
             /\ (indices' = q \/ memory' >= 4 * q - 1)
      <4>1. p \in 2 .. memory' - 1 /\ RecPrefSize'[p] <= blocks'
            /\ memory' >= 4 * p - 1
        BY <3>2, <3>3, <3>5, <3>7, <3>9
      <4>. QED
        BY <3>9, <4>1
    <3>. QED
      BY <3>2, <3>6, <3>8, <3>9, <3>10, <3>11 DEF Suffices
  <2>3. CASE UNCHANGED vars
    <3>1. /\ memory' = memory /\ blocksize' = blocksize /\ indices' = indices
          /\ blocks' = blocks /\ factory' = factory
      BY <2>3 DEF vars, sizes
    <3>2. RecPrefSize' = RecPrefSize
      BY <3>1 DEF RecPrefSize, PmBlocks, PpmSize, DetWoPMax, DetWoPrefSize
    <3>3. RecInv /\ factory = "rec"
      BY <3>1
    <3>. QED
      BY <3>1, <3>2, <3>3 DEF RecInv, TwoPerBlock, Suffices
  <2>4. ~SizeStep /\ ~BmnoStart /\ ~BmnoMap /\ ~BmnoLevel
    BY DEF SizeStep, BmnoStart, BmnoMap, BmnoLevel
  <2>. QED
    BY <2>1, <2>2, <2>3, <2>4 DEF Next
<1>3. SizesOK /\ RecInv => RecursionFits
  <2>. SUFFICES ASSUME SizesOK, RecInv, factory = "rec"
                PROVE  /\ DetWoAssert
                       /\ PackPosMapAssert => PackMemAssert
                       /\ ~BaseCase => NextIndices < indices
    BY DEF RecursionFits
  <2>1. /\ DetWoAssert
        /\ PackPosMapAssert => PackMemAssert
        /\ NextIndices \in Nat \ {0} /\ NextIndices <= PmBlocks(indices)
        /\ ~BaseCase => PmBlocks(indices) >= 2
    BY RecLevelFits
  <2>2. /\ indices \in 1 .. memory - 1
        /\ PmBlocks(indices) \in 1 .. memory - 1
        /\ 2 * PmBlocks(indices) <= indices + 1
    BY RecParts
  <2>3. memory \in Nat
    BY DEF RecInv
  <2>. QED
    BY <2>1, <2>2, <2>3
<1>. QED
  BY <1>1, <1>2, <1>3, AlwaysSizesOK, PTL DEF Spec

-----------------------------------------------------------------------------
(***************************************************************************)
(* The levels of bmno_fact.                                                *)
(***************************************************************************)
\* From 4 on a number has at most half as many bits, and one.
LEMMA BitLenHalf ==
  ASSUME NEW n \in Nat
  PROVE  BitLen[n] \in Nat /\ 2 * BitLen[n] <= n + 2
<1>. DEFINE T == {m \in Nat : ~(2 * BitLen[m] <= m + 2)}
<1>1. /\ BitLen[0] = 0 /\ BitLen[1] = 1
      /\ \A m \in {2, 3} : BitLen[m] = 2
      /\ \A m \in Nat : BitLen[m] \in Nat
  <2>1. BitLen[1] = 1 + BitLen[1 \div 2]
    BY BitLenFact
  <2>2. \A m \in {2, 3} : BitLen[m] = 1 + BitLen[m \div 2]
    BY BitLenFact
  <2>3. 1 \div 2 = 0 /\ 2 \div 2 = 1 /\ 3 \div 2 = 1
    OBVIOUS
  <2>4. \A m \in {2, 3} : m \div 2 = 1
    BY <2>3
  <2>5. BitLen[1] = 1
    BY <2>1, <2>3, BitLenFact
  <2>. QED
    BY <2>2, <2>4, <2>5, BitLenFact
<1>2. ASSUME NEW m \in T PROVE \E l \in T : l < m
  <2>1. m \in Nat /\ ~(2 * BitLen[m] <= m + 2)
    OBVIOUS
  <2>. HIDE DEF T
  <2>2. m # 0 /\ m # 1 /\ m # 2 /\ m # 3
    BY <1>1, <2>1
  <2>3. m >= 4 /\ m \in Nat \ {0}
    BY <2>1, <2>2
  <2>4. m \div 2 \in Nat /\ m \div 2 <= m - 2
    BY <2>3
  <2>5. BitLen[m] = 1 + BitLen[m \div 2]
    BY <2>3, BitLenFact
  <2>6. ~(2 * BitLen[m \div 2] <= m \div 2 + 2)
    BY <1>1, <2>1, <2>4, <2>5
  <2>7. m \div 2 < m
    BY <2>3, <2>4
  <2>. QED
    BY <2>4, <2>6, <2>7 DEF T
<1>3. T = {}
  <2>1. T \in SUBSET Nat
    OBVIOUS
  <2>. HIDE DEF T
  <2>. QED
    BY <1>2, <2>1, Descent
<1>. QED
  BY <1>1, <1>3

\* A size_t.
Short(x) == x \in Nat /\ ByteLen[x] <= 8

\* In a block of the map are 14 positions or more.
LEMMA PerMapBlock ==
  ASSUME NEW x \in Nat \ {0}, Short(x), NEW bytes \in Nat, bytes >= 112
  PROVE  bytes \div ByteLen[x] \in Nat /\ bytes \div ByteLen[x] >= 14
<1>. DEFINE l == ByteLen[x]
<1>1. l \in Nat \ {0} /\ l <= 8
  BY ByteLenMonotone DEF Short
<1>. HIDE DEF l
<1>2. bytes >= l * 14
  BY <1>1
<1>3. bytes \div l >= 14
  BY <1>1, <1>2, DivFrom
<1>4. bytes \div l \in Nat
  BY <1>1, DivFacts
<1>. QED
  BY <1>3, <1>4 DEF l

\* What is no larger than a size_t is one.
LEMMA ShortBelow ==
  ASSUME NEW x, Short(x), NEW y \in Nat, y <= x
  PROVE  Short(y)
BY ByteLenMonotone DEF Short

(***************************************************************************)
(* What the factory is given: at first what its test takes, then twice as  *)
(* many blocks as indices and 90 more, unless one block holds the map.     *)
(***************************************************************************)
BmnoInv ==
  /\ factory = "bmno" =>
       /\ blocksize >= 128
       /\ indices \in Nat \ {0}
       /\ blocks = 5 * indices + 200
       /\ Short(blocks)
  /\ factory = "bmno_map" =>
       /\ blocksize >= 128
       /\ indices \in Nat \ {0}
       /\ largest \in Nat \ {0} /\ Short(largest)
       /\ blocks \in Nat \ {0} /\ Short(blocks)
       /\ indices > 14 => blocks >= 2 * indices + 90

\* The ORAM of bmno_fact: a tenth of a block for each block is enough for the
\* metadata, although the records share their blocks with an IV.
LEMMA BmnoTop ==
  ASSUME SizesOK, BmnoInv, factory = "bmno"
  PROVE  /\ BmnoAsserts
         /\ BmnoBlocks(blocks, indices) \in Nat
         /\ BmnoBlocks(blocks, indices) > 70
         /\ blocks - BmnoBlocks(blocks, indices) >= 2 * indices + 90
<1>. DEFINE n == indices
            k == blocksize \div 24
            c == Ceiling(blocks, k)
            own == BmnoBlocks(blocks, indices)
            d == MapBytes \div (ByteLen[own] + 16)
            meta == MetaBlocks(own, MapBytes, 16)
<1>1. /\ blocksize \in Nat /\ blocksize >= 128 /\ n \in Nat \ {0}
      /\ blocks = 5 * n + 200 /\ blocks \in Nat \ {0} /\ Short(blocks)
  BY DEF BmnoInv, SizesOK
<1>2. k \in Nat /\ k >= 5 /\ 24 * k <= blocksize
  BY <1>1
<1>3. own = 2 * n + c + 70
  BY DEF BmnoBlocks
<1>4. meta = Ceiling(own, d)
  BY DEF MetaBlocks
<1>. HIDE DEF n, k, own, d, meta
<1>5. /\ c \in Nat \ {0} /\ k * c >= blocks /\ c <= n + 40
      /\ k * c \in Nat /\ 5 * c <= k * c
  <2>1. c \in Nat \ {0} /\ k * c >= blocks /\ k \in Nat \ {0}
    BY <1>1, <1>2, CeilingFact
  <2>2. k * (n + 40) >= 5 * (n + 40) /\ n + 40 \in Nat /\ k * (n + 40) \in Nat
    BY <1>1, <1>2
  <2>3. blocks <= k * (n + 40)
    BY <1>1, <2>2
  <2>4. c <= n + 40
    BY <1>1, <2>1, <2>2, <2>3, CeilingLeast
  <2>. HIDE DEF c
  <2>5. k * c \in Nat /\ 5 * c <= k * c
    BY <1>2, <2>1
  <2>. QED
    BY <2>1, <2>4, <2>5
<1>. HIDE DEF c
<1>6. /\ own \in Nat \ {0} /\ own > 70 /\ own <= blocks
      /\ blocks - own >= 2 * n + 90
  BY <1>1, <1>3, <1>5
<1>7. d \in Nat /\ d >= k - 1
  <2>. DEFINE l == ByteLen[own] + 16
  <2>1. l \in Nat \ {0} /\ l <= 24
    <3>1. Short(own)
      BY <1>1, <1>6, ShortBelow
    <3>. QED
      BY <1>6, <3>1, ByteLenMonotone DEF Short
  <2>2. MapBytes \in Nat /\ MapBytes >= 24 * (k - 1) /\ k - 1 \in Nat
    BY <1>1, <1>2 DEF MapBytes
  <2>3. d = MapBytes \div l
    BY DEF d
  <2>. HIDE DEF l
  <2>4. l * (k - 1) <= 24 * (k - 1) /\ l * (k - 1) \in Nat
    BY <2>1, <2>2
  <2>5. MapBytes >= l * (k - 1)
    BY <2>2, <2>4
  <2>6. MapBytes \div l >= k - 1 /\ MapBytes \div l \in Nat
    BY <2>1, <2>2, <2>5, DivFrom, DivFacts
  <2>. QED
    BY <2>3, <2>6
<1>8. meta \in Nat /\ meta <= c + 1
  <2>1. d \in Nat \ {0} /\ c + 1 \in Nat
    BY <1>2, <1>5, <1>7
  <2>2. own <= (k - 1) * (c + 1)
    <3>1. (k - 1) * (c + 1) = k * c + k - c - 1
      BY <1>2, <1>5
    <3>. QED
      BY <1>1, <1>2, <1>3, <1>5, <3>1
  <2>3. (k - 1) * (c + 1) <= d * (c + 1) /\ d * (c + 1) \in Nat
        /\ (k - 1) * (c + 1) \in Nat
    <3>1. k - 1 \in Nat /\ k - 1 <= d
      BY <1>2, <1>7
    <3>. QED
      BY <2>1, <3>1
  <2>4. own <= d * (c + 1)
    BY <1>6, <2>2, <2>3
  <2>. QED
    BY <1>4, <1>6, <2>1, <2>4, CeilingLeast, CeilingFact
<1>9. BitLen[n] \in Nat /\ 2 * BitLen[n] <= n + 2
  BY <1>1, BitLenHalf
<1>10. own - meta > 60 + BitLen[n] + n
  BY <1>1, <1>3, <1>5, <1>6, <1>8, <1>9
<1>11. BmnoAsserts
  <2>1. BmnoRoom(own, meta, n)
    BY <1>10 DEF BmnoRoom, StashLen
  <2>2. blocks >= own
    BY <1>1, <1>6
  <2>. QED
    BY <2>1, <2>2 DEF BmnoAsserts, own, meta, n
<1>. QED
  BY <1>6, <1>11 DEF own, n

\* A level of the map.
LEMMA BmnoMapFits ==
  ASSUME SizesOK, BmnoInv, factory = "bmno_map"
  PROVE  /\ BmnoMapAsserts
         /\ Packed \in Nat \ {0}
         /\ Packed # 1 =>
              /\ Packed < indices
              /\ LevelBlocks(Packed) <= blocks
              /\ blocks - LevelBlocks(Packed) > 0
              /\ Packed > 14 => blocks - LevelBlocks(Packed) >= 2 * Packed + 90
<1>. DEFINE n == indices
            p == Packed
            d == MapBytes \div ByteLen[largest]
            own == LevelBlocks(p)
            e == MapBytes \div (ByteLen[own] + 0)
            meta == MetaBlocks(own, MapBytes, 0)
<1>1. /\ blocksize \in Nat /\ blocksize >= 128 /\ n \in Nat \ {0}
      /\ largest \in Nat \ {0} /\ Short(largest)
      /\ blocks \in Nat \ {0} /\ Short(blocks)
      /\ n > 14 => blocks >= 2 * n + 90
  BY DEF BmnoInv, SizesOK
<1>2. MapBytes \in Nat /\ MapBytes >= 112
  BY <1>1 DEF MapBytes
<1>3. d \in Nat \ {0} /\ d >= 14
  <2>1. d \in Nat /\ d >= 14
    BY <1>1, <1>2, PerMapBlock
  <2>. HIDE DEF d
  <2>. QED
    BY <2>1
<1>4. p = Ceiling(n, d)
  BY DEF Packed, PpmSize
<1>5. own = 2 * p + 70 /\ meta = Ceiling(own, e)
  BY DEF LevelBlocks, MetaBlocks
<1>. HIDE DEF n, p, d, own, e, meta
<1>6. p \in Nat \ {0} /\ 14 * (p - 1) < n
  <2>1. p \in Nat \ {0} /\ d * (p - 1) < n
    BY <1>1, <1>3, <1>4, CeilingFact, CeilingLeast
  <2>2. 14 * (p - 1) <= d * (p - 1) /\ d * (p - 1) \in Nat
        /\ 14 * (p - 1) \in Nat
    <3>1. p - 1 \in Nat
      BY <2>1
    <3>. QED
      BY <1>3, <3>1
  <2>. QED
    BY <1>1, <2>1, <2>2
<1>7. CASE p = 1
  <2>1. BmnoMapAsserts
    BY <1>1, <1>7 DEF BmnoMapAsserts, p
  <2>. QED
    BY <1>6, <1>7, <2>1 DEF p
<1>8. CASE p # 1
  <2>1. /\ n > 14 /\ p < n /\ own \in Nat \ {0} /\ own <= blocks
        /\ blocks - own > 0
        /\ blocks - own >= 2 * p + 90 \/ p <= 14
    BY <1>1, <1>5, <1>6, <1>8
  <2>2. e \in Nat /\ e >= 14
    <3>1. Short(own)
      BY <1>1, <2>1, ShortBelow
    <3>2. ByteLen[own] + 0 = ByteLen[own]
      BY <2>1, ByteLenFact
    <3>. QED
      BY <1>2, <2>1, <3>1, <3>2, PerMapBlock DEF e
  <2>3. meta \in Nat \ {0} /\ 14 * (meta - 1) < own
    <3>0. e \in Nat \ {0}
      BY <2>2
    <3>1. meta \in Nat \ {0} /\ e * (meta - 1) < own
      BY <1>5, <2>1, <3>0, CeilingFact, CeilingLeast
    <3>2. 14 * (meta - 1) <= e * (meta - 1) /\ e * (meta - 1) \in Nat
          /\ 14 * (meta - 1) \in Nat
      <4>1. meta - 1 \in Nat
        BY <3>1
      <4>. QED
        BY <2>2, <4>1
    <3>. QED
      BY <2>1, <3>1, <3>2
  <2>4. BitLen[p] \in Nat /\ 2 * BitLen[p] <= p + 2
    BY <1>6, BitLenHalf
  <2>5. own - meta > 60 + BitLen[p] + p
    BY <1>5, <1>6, <1>8, <2>1, <2>3, <2>4
  <2>6. BmnoMapAsserts
    <3>1. BmnoRoom(own, meta, p)
      BY <2>5 DEF BmnoRoom, StashLen
    <3>2. blocks >= own
      BY <1>1, <2>1
    <3>. QED
      BY <1>8, <3>1, <3>2 DEF BmnoMapAsserts, own, meta, p
  <2>. QED
    BY <1>1, <1>6, <1>8, <2>1, <2>6 DEF own, p, n
<1>. QED
  BY <1>7, <1>8

(***************************************************************************)
(* bmno_fact can be instantiated on as many blocks as its test takes: at   *)
(* each of its levels blocks and stash have "room for stash and mem", and  *)
(* the next map is smaller, for every number of indices and every          *)
(* blocksize from 128 on, as long as the sizes are a size_t.               *)
(***************************************************************************)
THEOREM FactoriesBmnoFits == Spec => []BmnoFits
<1>1. Init => BmnoInv
  BY DEF Init, BmnoInv
<1>2. SizesOK /\ BmnoInv /\ [Next]_vars => BmnoInv'
  <2>. SUFFICES ASSUME SizesOK, BmnoInv, [Next]_vars
                PROVE  BmnoInv'
    OBVIOUS
  <2>1. CASE SizeStep \/ RecStart \/ RecLevel
    <3>1. factory' \notin {"bmno", "bmno_map"}
      BY <2>1 DEF SizeStep, RecStart, RecLevel
    <3>. QED
      BY <3>1 DEF BmnoInv
  <2>2. CASE BmnoStart
    <3>1. /\ factory' = "bmno" /\ blocksize' = blocksize /\ indices' = size
          /\ blocks' = 5 * size + 200 /\ blocksize >= 128
          /\ ByteLen[5 * size + 200] <= 8 /\ size \in Nat \ {0}
      BY <2>2 DEF BmnoStart, sizes, SizesOK
    <3>2. Short(blocks')
      BY <3>1 DEF Short
    <3>. QED
      BY <3>1, <3>2 DEF BmnoInv, Short
  <2>3. CASE BmnoMap
    <3>. DEFINE own == BmnoBlocks(blocks, indices)
    <3>1. /\ factory = "bmno" /\ factory' = "bmno_map"
          /\ blocksize' = blocksize
          /\ indices' = indices /\ blocks' = blocks - own /\ largest' = own - 1
      BY <2>3 DEF BmnoMap, sizes
    <3>2. own \in Nat /\ own > 70 /\ blocks - own >= 2 * indices + 90
      BY <3>1, BmnoTop
    <3>3. /\ blocksize >= 128 /\ indices \in Nat \ {0}
          /\ blocks = 5 * indices + 200 /\ Short(blocks)
      BY <3>1 DEF BmnoInv
    <3>. HIDE DEF own
    <3>4. /\ blocks - own \in Nat \ {0} /\ own - 1 \in Nat \ {0}
          /\ blocks - own <= blocks /\ own - 1 <= blocks
      BY <3>2, <3>3
    <3>5. Short(blocks - own) /\ Short(own - 1)
      BY <3>3, <3>4, ShortBelow
    <3>. QED
      BY <3>1, <3>2, <3>3, <3>4, <3>5 DEF BmnoInv, Short
  <2>4. CASE BmnoLevel
    <3>. DEFINE p == Packed
                own == LevelBlocks(p)
    <3>1. /\ factory = "bmno_map" /\ factory' = "bmno_map"
          /\ blocksize' = blocksize
          /\ p # 1 /\ indices' = p /\ blocks' = blocks - own /\ largest' = own
      BY <2>4 DEF BmnoLevel, sizes
    <3>2. /\ p \in Nat \ {0} /\ own <= blocks /\ blocks - own > 0
          /\ p > 14 => blocks - own >= 2 * p + 90
      BY <3>1, BmnoMapFits
    <3>3. blocksize >= 128 /\ blocks \in Nat \ {0} /\ Short(blocks)
      BY <3>1 DEF BmnoInv
    <3>4. own = 2 * p + 70
      BY DEF LevelBlocks
    <3>. HIDE DEF own, p
    <3>5. /\ own \in Nat \ {0} /\ blocks - own \in Nat \ {0}
          /\ blocks - own <= blocks
      BY <3>2, <3>3, <3>4
    <3>6. Short(blocks - own) /\ Short(own)
      BY <3>2, <3>3, <3>5, ShortBelow
    <3>. QED
      BY <3>1, <3>2, <3>3, <3>5, <3>6 DEF BmnoInv, Short
  <2>5. CASE UNCHANGED vars
    BY <2>5 DEF vars, sizes, BmnoInv, Short
  <2>. QED
    BY <2>1, <2>2, <2>3, <2>4, <2>5 DEF Next
<1>3. SizesOK /\ BmnoInv => BmnoFits
  BY BmnoTop, BmnoMapFits DEF BmnoFits
<1>. QED
  BY <1>1, <1>2, <1>3, AlwaysSizesOK, PTL DEF Spec
=============================================================================
