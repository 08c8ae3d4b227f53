--------------------------- MODULE PMWoram_proofs --------------------------
(***************************************************************************)
(* Proofs about PMWoram for a holding area, a long-term area and blocks of *)
(* any size: the refresh keeps in step with the ring, no slot is           *)
(* overwritten while somebody is read from it, and the whole implements    *)
(* the abstract block device.                                              *)
(*                                                                         *)
(* The inductive invariant joins what the runs check separately.           *)
(* HoldingReliable says for how long a slot can be relied upon in terms of *)
(* Progress; InStep ties Progress to longpos; PositionInHand bridges the   *)
(* two writes with which a store ends.                                     *)
(***************************************************************************)
EXTENDS PMWoram, WellFoundedInduction, TLAPS

-----------------------------------------------------------------------------
(***************************************************************************)
(* Division.                                                               *)
(***************************************************************************)
LEMMA DivModUnique ==
  ASSUME NEW d \in Nat \ {0}, NEW q \in Nat, NEW r \in Nat, r < d
  PROVE  /\ (q * d + r) \div d = q
         /\ (q * d + r) % d = r
<1>. DEFINE a == q * d + r
<1>1. a \in Nat /\ a \div d \in Int /\ a % d \in 0 .. d - 1
  OBVIOUS
<1>2. a = d * (a \div d) + (a % d)
  BY <1>1
<1>. HIDE DEF a
<1>3. a = q * d + r
  BY DEF a
<1>4. a \div d = q
  <2>1. CASE a \div d >= q + 1
    <3>1. d * (a \div d) >= d * (q + 1)
      BY <1>1, <2>1
    <3>. QED
      BY <1>1, <1>2, <1>3, <3>1
  <2>2. CASE a \div d <= q - 1
    <3>1. d * (a \div d) <= d * (q - 1)
      BY <1>1, <2>2
    <3>. QED
      BY <1>1, <1>2, <1>3, <3>1
  <2>. QED
    BY <1>1, <2>1, <2>2
<1>5. a % d = r
  BY <1>1, <1>2, <1>3, <1>4
<1>. QED
  BY <1>4, <1>5 DEF a

LEMMA DivMonotone ==
  ASSUME NEW d \in Nat \ {0}, NEW a \in Nat, NEW b \in Nat, a <= b
  PROVE  a \div d <= b \div d
<1>1. /\ a \div d \in Int /\ a % d \in 0 .. d - 1
      /\ a = d * (a \div d) + (a % d)
      /\ b \div d \in Int /\ b % d \in 0 .. d - 1
      /\ b = d * (b \div d) + (b % d)
  OBVIOUS
<1>2. SUFFICES ASSUME a \div d >= (b \div d) + 1 PROVE FALSE
  BY <1>1
<1>3. d * (a \div d) >= d * ((b \div d) + 1)
  BY <1>1, <1>2
<1>. QED
  BY <1>1, <1>3

-----------------------------------------------------------------------------
(***************************************************************************)
(* A position gives back the three parts it was built from, and is never   *)
(* the null position (DWPointer, detworam.h).                              *)
(***************************************************************************)
THEOREM PointerRoundTrip ==
  ASSUME NEW h \in Slot, NEW i \in BitIndex, NEW v \in {0, 1}
  PROVE  /\ GetHold(Build(h, i, v)) = h
         /\ GetBind(Build(h, i, v)) = i
         /\ GetBitval(Build(h, i, v)) = v
         /\ Build(h, i, v) # NPtr
<1>0. /\ h \in Nat /\ i \in Nat /\ v \in Nat /\ v < 2
      /\ h <= HoldSize - 1 /\ i <= BlockBits - 1
      /\ BindSpan \in Nat \ {0} /\ 2 * BindSpan \in Nat \ {0}
      /\ HoldSize \in Nat \ {0} /\ BlockBits \in Nat /\ BlockBits <= BindSpan
  BY PointerAssumption DEF Slot, BitIndex
<1>1. Build(h, i, v) = h * (2 * BindSpan) + (2 * i + v)
  BY <1>0 DEF Build
<1>2. h * BindSpan + i \in Nat
  BY <1>0
<1>3. GetHold(Build(h, i, v)) = h
  <2>1. 2 * i + v \in Nat /\ 2 * i + v < 2 * BindSpan
    BY <1>0
  <2>2. (h * (2 * BindSpan) + (2 * i + v)) \div (2 * BindSpan) = h
    BY <1>0, <2>1, DivModUnique
  <2>. QED
    BY <1>1, <2>2 DEF GetHold
<1>4. Build(h, i, v) \div 2 = h * BindSpan + i /\ Build(h, i, v) % 2 = v
  BY <1>0, <1>2, DivModUnique DEF Build
<1>5. GetBind(Build(h, i, v)) = i
  BY <1>0, <1>4, DivModUnique DEF GetBind
<1>6. Build(h, i, v) # NPtr
  <2>1. h * BindSpan <= (HoldSize - 1) * BindSpan
    BY <1>0
  <2>. QED
    BY <1>0, <1>2, <2>1 DEF Build, NPtr, PMax
<1>. QED
  BY <1>3, <1>4, <1>5, <1>6 DEF GetBitval

LEMMA PointerParts ==
  ASSUME NEW p \in Pointer
  PROVE  /\ GetHold(p) \in Slot
         /\ GetBind(p) \in BitIndex
         /\ GetBitval(p) \in {0, 1}
         /\ p # NPtr
  BY PointerRoundTrip DEF Pointer

-----------------------------------------------------------------------------
(***************************************************************************)
(* Every set of natural numbers has a least element; for mismatch_bit it   *)
(* is the first bit at which two blocks differ.                            *)
(***************************************************************************)
LEMMA LeastElement ==
  ASSUME NEW T \in SUBSET Nat, T # {}
  PROVE  \E x \in T : \A y \in T : x <= y
<1>1. \E x \in T : \A y \in T : <<y, x>> \notin OpToRel(<, Nat)
  BY NatLessThanWellFounded, WFMin
<1>2. PICK x \in T : \A y \in T : <<y, x>> \notin OpToRel(<, Nat)
  BY <1>1
<1>3. ASSUME NEW y \in T PROVE x <= y
  <2>1. <<y, x>> \in Nat \X Nat
    OBVIOUS
  <2>2. ~(y < x)
    BY <1>2, <2>1 DEF OpToRel
  <2>. QED
    BY <2>2
<1>. QED
  BY <1>3

LEMMA MismatchBitFact ==
  ASSUME NEW b \in Block, NEW c \in Block, b # c
  PROVE  /\ MismatchBit(b, c) \in BitIndex
         /\ GetBit(b, MismatchBit(b, c)) # GetBit(c, MismatchBit(b, c))
<1>. DEFINE D == {i \in BitIndex : GetBit(b, i) # GetBit(c, i)}
            P(i) == /\ GetBit(b, i) # GetBit(c, i)
                    /\ \A j \in BitIndex : GetBit(b, j) # GetBit(c, j) => i <= j
<1>1. D # {}
  BY WoramAssumption
<1>2. D \in SUBSET Nat
  BY PointerAssumption DEF BitIndex
<1>3. \E i \in D : \A j \in D : i <= j
  BY <1>1, <1>2, LeastElement
<1>4. \E i \in BitIndex : P(i)
  BY <1>3
<1>5. MismatchBit(b, c) = CHOOSE i \in BitIndex : P(i)
  BY DEF MismatchBit
<1>. QED
  BY <1>4, <1>5

-----------------------------------------------------------------------------
(***************************************************************************)
(* The targets of the refresh (ltws): they grow with the slot, by no more  *)
(* than what is left to refresh, and reach Size at the last slot and not   *)
(* before, wherever the double arithmetic falls short.                     *)
(***************************************************************************)
LEMMA LtwTargetFacts ==
  ASSUME NEW k \in Slot
  PROVE  /\ LtwTarget(k) \in 0 .. Size
         /\ k < HoldSize - 1 => LtwTarget(k) < Size
         /\ k = HoldSize - 1 => LtwTarget(k) = Size
         /\ k # 0 => LtwTarget(k - 1) <= LtwTarget(k)
<1>. DEFINE exact(j) == (j + 1) * Size
            quot(j) == exact(j) \div HoldSize
<1>0. /\ HoldSize \in Nat \ {0} /\ Size \in Nat \ {0}
      /\ k \in Nat /\ k <= HoldSize - 1
  BY PointerAssumption, WoramAssumption DEF Slot
<1>1. \A j \in Slot : /\ j \in Nat
                      /\ exact(j) \in Nat
                      /\ quot(j) \in Int
                      /\ exact(j) % HoldSize \in 0 .. HoldSize - 1
                      /\ exact(j) = HoldSize * quot(j) + (exact(j) % HoldSize)
                      /\ quot(j) >= 0
  BY <1>0 DEF Slot
<1>2. \A j \in Slot : LtwTarget(j) = quot(j)
                      \/ /\ LtwTarget(j) = quot(j) - 1
                         /\ j < HoldSize - 1
                         /\ exact(j) % HoldSize = 0
  BY DEF LtwTarget
<1>3. k < HoldSize - 1 => quot(k) < Size
  <2>1. SUFFICES ASSUME k < HoldSize - 1, quot(k) >= Size PROVE FALSE
    BY <1>0, <1>1
  <2>2. HoldSize * quot(k) >= HoldSize * Size
    BY <1>0, <1>1, <2>1
  <2>3. (k + 1) * Size < HoldSize * Size
    BY <1>0, <2>1
  <2>. QED
    BY <1>0, <1>1, <2>2, <2>3
<1>4. k = HoldSize - 1 => LtwTarget(k) = Size
  <2>1. SUFFICES ASSUME k = HoldSize - 1 PROVE LtwTarget(k) = Size
    OBVIOUS
  <2>2. exact(k) = Size * HoldSize + 0
    BY <1>0, <2>1
  <2>3. quot(k) = Size
    BY <1>0, <2>2, DivModUnique
  <2>. QED
    BY <1>0, <1>2, <2>1, <2>3
<1>5. LtwTarget(k) >= 0
  <2>1. CASE exact(k) % HoldSize = 0
    <3>1. exact(k) > 0
      BY <1>0
    <3>2. quot(k) # 0
      BY <1>0, <1>1, <2>1, <3>1
    <3>. QED
      BY <1>1, <1>2, <3>2
  <2>. QED
    BY <1>1, <1>2, <2>1
<1>6. k # 0 => LtwTarget(k - 1) <= LtwTarget(k)
  <2>1. SUFFICES ASSUME k # 0 PROVE LtwTarget(k - 1) <= LtwTarget(k)
    OBVIOUS
  <2>2. k - 1 \in Slot /\ exact(k - 1) = exact(k) - Size
    BY <1>0, <2>1 DEF Slot
  <2>3. quot(k - 1) <= quot(k)
    <3>1. exact(k - 1) \in Nat /\ exact(k) \in Nat /\ exact(k - 1) <= exact(k)
      BY <1>0, <1>1, <2>2
    <3>. HIDE DEF exact
    <3>. QED
      BY <1>0, <3>1, DivMonotone
  <2>4. exact(k) % HoldSize = 0 => quot(k - 1) < quot(k)
    <3>1. SUFFICES ASSUME exact(k) % HoldSize = 0, quot(k - 1) = quot(k)
                   PROVE  FALSE
      BY <1>1, <2>2, <2>3
    <3>. QED
      BY <1>0, <1>1, <2>2, <3>1
  <2>. QED
    BY <1>1, <1>2, <2>2, <2>3, <2>4
<1>. QED
  BY <1>0, <1>1, <1>2, <1>3, <1>4, <1>5, <1>6

-----------------------------------------------------------------------------
(***************************************************************************)
(* The inductive invariant.                                                *)
(***************************************************************************)
Inv == TypeOK /\ InStep /\ HoldingReliable /\ PositionInHand

\* What the bounds and positions of a state give, stated once.
LEMMA SizeFacts ==
  /\ HoldSize \in Nat \ {0}
  /\ Size \in Nat \ {0}
  /\ 0 \in Slot /\ HoldSize - 1 \in Slot
  /\ 0 \in Index
  /\ \A k \in Slot : k \in Nat /\ k < HoldSize
  /\ \A k \in Slot : k # HoldSize - 1 => k + 1 \in Slot
  /\ \A k \in Slot : k # 0 => k - 1 \in Slot
  BY PointerAssumption, WoramAssumption DEF Slot, Index

LEMMA LoadType ==
  ASSUME WoramTypeOK, NEW i \in Index, NEW p \in Pointer \cup {NPtr}
  PROVE  Load(i, p) \in Block
  BY PointerParts DEF WoramTypeOK, Load

\* Between stores, Progress is where longpos is, and the next round of ltws
\* has between 0 and Size turns.
LEMMA RestingProgress ==
  ASSUME NEW k \in Slot
  PROVE  LET p == IF k = 0 THEN 0 ELSE LtwTarget(k - 1)
         IN  /\ p \in 0 .. Size - 1
             /\ LtwTarget(k) - p \in 0 .. Size
<1>1. CASE k = 0
  BY <1>1, LtwTargetFacts, SizeFacts
<1>2. CASE k # 0
  <2>1. k - 1 \in Slot /\ k - 1 < HoldSize - 1
    BY <1>2, SizeFacts
  <2>2. LtwTarget(k - 1) \in 0 .. Size /\ LtwTarget(k - 1) < Size
    BY <2>1, LtwTargetFacts
  <2>. QED
    BY <1>2, <2>2, LtwTargetFacts, SizeFacts
<1>. QED
  BY <1>1, <1>2

LEMMA InitInv == Init => Inv
<1>. SUFFICES ASSUME Init PROVE Inv
  OBVIOUS
<1>1. TypeOK
  BY SizeFacts, InitialAssumption DEF Init, WoramInit, TypeOK, WoramTypeOK
<1>2. Progress = 0 /\ longpos = 0 /\ holdpos = 0
  BY DEF Init, WoramInit, Progress
<1>3. InStep
  BY <1>2, SizeFacts, LtwTargetFacts DEF InStep, NumLtw
<1>4. HoldingReliable
  <2>1. \A i \in Index : ~ReadsHolding(i, posmap[i])
    BY InitialAssumption DEF Init, WoramInit, ReadsHolding
  <2>. QED
    BY <2>1 DEF HoldingReliable
<1>5. PositionInHand
  BY DEF Init, PositionInHand
<1>. QED
  BY <1>1, <1>3, <1>4, <1>5 DEF Inv

-----------------------------------------------------------------------------
(***************************************************************************)
(* The actions, one lemma each.                                            *)
(***************************************************************************)
LEMMA CallInv ==
  ASSUME Inv, NEW i \in Index, NEW b \in Block, StoreCall(i, b)
  PROVE  Inv'
<1>. USE DEF Inv, StoreCall
<1>1. holdpos \in Slot /\ longpos \in Index
  BY DEF TypeOK, WoramTypeOK
<1>2. /\ Progress = IF holdpos = 0 THEN 0 ELSE LtwTarget(holdpos - 1)
      /\ Progress \in 0 .. Size - 1
      /\ longpos = Progress
      /\ NumLtw \in 0 .. Size
  BY <1>1, RestingProgress, SizeFacts DEF InStep, Progress, NumLtw
<1>3. Progress' = Progress /\ longpos' = longpos /\ holdpos' = holdpos
  BY <1>1, <1>2, LtwTargetFacts DEF Progress, NumLtw
<1>4. TypeOK'
  <2>1. request' \in SUBSET [index : Index, buf : Block]
    BY SizeFacts
  <2>2. pc' = "ltws" /\ request' # {} /\ \A r, s \in request' : r = s
    OBVIOUS
  <2>3. WoramTypeOK'
    BY DEF TypeOK, WoramTypeOK
  <2>. QED
    BY <1>2, <2>1, <2>2, <2>3 DEF TypeOK
<1>5. InStep'
  BY <1>2, <1>3 DEF InStep
<1>6. HoldingReliable'
  BY <1>3 DEF HoldingReliable, ReadsHolding, NotYetVisited
<1>7. PositionInHand'
  BY DEF PositionInHand
<1>. QED
  BY <1>4, <1>5, <1>6, <1>7

LEMMA RefreshInv ==
  ASSUME Inv, StoreRefresh
  PROVE  Inv'
<1>. USE DEF Inv, StoreRefresh, LongTermWrite
<1>1. /\ holdpos \in Slot /\ longpos \in Index /\ todo \in 1 .. Size
      /\ posmap[longpos] \in Pointer \cup {NPtr}
  BY SizeFacts DEF TypeOK, WoramTypeOK
<1>2. /\ Progress \in 0 .. Size - 1
      /\ longpos = Progress
      /\ Progress' = Progress + 1
  BY <1>1, LtwTargetFacts, SizeFacts DEF InStep, Progress
<1>3. Load(longpos, posmap[longpos]) \in Block
  BY <1>1, LoadType DEF TypeOK
<1>4. TypeOK'
  BY <1>1, <1>3, SizeFacts DEF TypeOK, WoramTypeOK, PosmapLoad, Index
<1>5. InStep'
  BY <1>2, SizeFacts DEF InStep
<1>6. ASSUME NEW i \in Index, ReadsHolding(i, posmap[i])'
      PROVE  /\ i # longpos
             /\ ReadsHolding(i, posmap[i])
  <2>1. longterm' = [longterm EXCEPT ![longpos] = Load(longpos, posmap[longpos])]
    BY DEF PosmapLoad
  <2>2. posmap' = posmap /\ longterm \in [Index -> Block]
    BY DEF TypeOK, WoramTypeOK
  <2>3. i # longpos
    <3>1. SUFFICES ASSUME i = longpos PROVE FALSE
      OBVIOUS
    <3>2. longterm'[i] = Load(i, posmap[i])
      BY <2>1, <2>2, <3>1
    <3>3. CASE ReadsHolding(i, posmap[i])
      <4>1. longterm'[i] = holding[GetHold(posmap[i])]
        BY <3>2, <3>3 DEF Load, ReadsHolding
      <4>2. GetBit(holding[GetHold(posmap[i])], GetBind(posmap[i]))
              = GetBitval(posmap[i])
        BY <3>3 DEF HoldingReliable
      <4>. QED
        BY <1>6, <2>2, <4>1, <4>2 DEF ReadsHolding
    <3>4. CASE ~ReadsHolding(i, posmap[i])
      BY <1>6, <2>2, <3>2, <3>4 DEF Load, ReadsHolding
    <3>. QED
      BY <3>3, <3>4
  <2>. QED
    BY <1>6, <2>1, <2>2, <2>3 DEF ReadsHolding
<1>7. HoldingReliable'
  <2>. SUFFICES ASSUME NEW i \in Index, ReadsHolding(i, posmap[i])'
                PROVE  LET h == GetHold(posmap[i])
                       IN  /\ NotYetVisited(i, h, holdpos, Progress + 1)
                           /\ GetBit(holding[h], GetBind(posmap[i]))
                                = GetBitval(posmap[i])
    BY <1>2 DEF HoldingReliable, NotYetVisited
  <2>1. i # longpos /\ ReadsHolding(i, posmap[i])
    BY <1>6
  <2>2. posmap[i] \in Pointer
    BY <2>1 DEF TypeOK, ReadsHolding
  <2>3. GetHold(posmap[i]) \in Slot
    BY <2>2, PointerParts
  <2>4. LtwTarget(GetHold(posmap[i])) \in 0 .. Size
    BY <2>3, LtwTargetFacts
  <2>. QED
    BY <1>2, <2>1, <2>4, SizeFacts DEF HoldingReliable, NotYetVisited, Index
<1>8. PositionInHand'
  BY DEF PositionInHand
<1>. QED
  BY <1>4, <1>5, <1>7, <1>8

\* No index is read from the slot that is about to be overwritten.
LEMMA SlotFree ==
  ASSUME Inv
  PROVE  SlotReusable
<1>. SUFFICES ASSUME pc = "ltws", todo = 0,
                     NEW i \in Index, ReadsHolding(i, posmap[i]),
                     GetHold(posmap[i]) = holdpos
              PROVE  FALSE
  BY DEF SlotReusable
<1>1. holdpos \in Slot
  BY DEF Inv, TypeOK, WoramTypeOK
<1>2. LtwTarget(holdpos) \in 0 .. Size
  BY <1>1, LtwTargetFacts
<1>3. Progress = LtwTarget(holdpos)
  BY <1>2 DEF Progress
<1>4. NotYetVisited(i, holdpos, holdpos, Progress)
  BY DEF Inv, HoldingReliable
<1>. QED
  BY <1>1, <1>2, <1>3, <1>4, SizeFacts DEF NotYetVisited, Index

LEMMA HoldInv ==
  ASSUME Inv, StoreHold
  PROVE  Inv'
<1>. USE DEF Inv, StoreHold
<1>. DEFINE R == CHOOSE r : r \in request
            mismatch == MismatchBit(longterm[R.index], R.buf)
            diffpos == IF mismatch = BlockBits THEN 0 ELSE mismatch
            bitval == GetBit(R.buf, diffpos)
<1>1. /\ pc = "ltws" /\ todo = 0 /\ pc' = "posmap"
      /\ R \in request /\ R.index \in Index /\ R.buf \in Block
      /\ \A r \in request : r = R
      /\ holdpos \in Slot /\ longpos \in Index
      /\ longterm \in [Index -> Block] /\ holding \in [Slot -> Block]
  BY DEF TypeOK, WoramTypeOK
<1>2. /\ newpos' = Build(holdpos, diffpos, bitval)
      /\ holding' = [holding EXCEPT ![holdpos] = R.buf]
      /\ holdpos' = IF holdpos + 1 = HoldSize THEN 0 ELSE holdpos + 1
      /\ UNCHANGED <<longterm, longpos, posmap, request, todo>>
  BY <1>1 DEF NewPosition, HoldingWrite
<1>3. diffpos \in BitIndex /\ bitval \in {0, 1}
  <2>1. 0 \in BitIndex /\ BlockBits \notin BitIndex
    BY PointerAssumption DEF BitIndex
  <2>2. diffpos \in BitIndex
    BY <1>1, <2>1, MismatchBitFact DEF MismatchBit
  <2>. QED
    BY <1>1, <2>2, WoramAssumption
<1>4. /\ newpos' \in Pointer /\ newpos' # NPtr
      /\ GetHold(newpos') = holdpos
      /\ GetBind(newpos') = diffpos
      /\ GetBitval(newpos') = bitval
  <2>. HIDE DEF diffpos, bitval
  <2>1. Build(holdpos, diffpos, bitval) \in Pointer
    BY <1>1, <1>3 DEF Pointer
  <2>. QED
    BY <1>1, <1>2, <1>3, <2>1, PointerRoundTrip
<1>5. /\ holdpos' \in Slot
      /\ holdpos = IF holdpos' = 0 THEN HoldSize - 1 ELSE holdpos' - 1
  BY <1>1, <1>2, SizeFacts
<1>6. /\ Progress = LtwTarget(holdpos)
      /\ LtwTarget(holdpos) \in 0 .. Size
      /\ Progress' = IF holdpos = HoldSize - 1 THEN 0 ELSE Progress
      /\ Progress < Size <=> holdpos # HoldSize - 1
      /\ Progress' \in 0 .. Size - 1
  BY <1>1, <1>2, LtwTargetFacts, SizeFacts DEF Progress
<1>7. TypeOK'
  BY <1>1, <1>2, <1>4, <1>5 DEF TypeOK, WoramTypeOK
<1>8. InStep'
  BY <1>1, <1>2, <1>6, SizeFacts DEF InStep
<1>9. HoldingReliable'
  <2>. SUFFICES ASSUME NEW i \in Index, ReadsHolding(i, posmap[i])
                PROVE  LET h == GetHold(posmap[i])
                       IN  /\ NotYetVisited(i, h, holdpos', Progress')
                           /\ GetBit(holding'[h], GetBind(posmap[i]))
                                = GetBitval(posmap[i])
    BY <1>2 DEF HoldingReliable, ReadsHolding, NotYetVisited
  <2>. DEFINE h == GetHold(posmap[i])
  <2>1. h \in Slot
    BY PointerParts DEF TypeOK, ReadsHolding
  <2>2. h # holdpos
    BY <1>1, SlotFree DEF SlotReusable
  <2>3. LtwTarget(h) \in 0 .. Size
    BY <2>1, LtwTargetFacts
  <2>4. /\ NotYetVisited(i, h, holdpos, Progress)
        /\ GetBit(holding[h], GetBind(posmap[i])) = GetBitval(posmap[i])
    BY DEF HoldingReliable
  <2>5. holding'[h] = holding[h]
    BY <1>1, <1>2, <2>1, <2>2
  <2>6. NotYetVisited(i, h, holdpos', Progress')
    <3>. HIDE DEF h
    <3>. QED
      BY <1>1, <1>2, <1>6, <2>1, <2>2, <2>3, <2>4, SizeFacts
         DEF NotYetVisited, Index
  <2>. QED
    BY <2>4, <2>5, <2>6
<1>10. PositionInHand'
  <2>1. holding'[holdpos] = R.buf
    BY <1>1, <1>2
  <2>2. Load(R.index, newpos)' = R.buf
    <3>1. CASE longterm[R.index] = R.buf
      BY <1>2, <1>4, <2>1, <3>1 DEF Load
    <3>2. CASE longterm[R.index] # R.buf
      <4>1. diffpos = mismatch
        BY <1>1, <3>2, MismatchBitFact, PointerAssumption DEF BitIndex
      <4>2. GetBit(longterm[R.index], diffpos) # bitval
        BY <1>1, <3>2, <4>1, MismatchBitFact
      <4>. QED
        BY <1>2, <1>4, <2>1, <4>2 DEF Load
    <3>. QED
      BY <3>1, <3>2
  <2>. QED
    BY <1>1, <1>2, <1>4, <1>5, <2>1, <2>2 DEF PositionInHand
<1>. QED
  BY <1>7, <1>8, <1>9, <1>10

LEMMA PositionInv ==
  ASSUME Inv, StorePosition
  PROVE  Inv'
<1>. USE DEF Inv, StorePosition
<1>1. /\ pc = "posmap" /\ pc' = "idle"
      /\ newpos \in Pointer
      /\ holdpos \in Slot /\ longpos \in Index
      /\ UNCHANGED <<longterm, longpos, holding, holdpos, todo, newpos>>
  BY DEF TypeOK, WoramTypeOK, PositionInHand
<1>2. PICK r \in request : posmap' = [posmap EXCEPT ![r.index] = newpos]
  OBVIOUS
<1>3. r.index \in Index
  BY DEF TypeOK
<1>4. /\ Progress = IF holdpos = 0 THEN 0 ELSE LtwTarget(holdpos - 1)
      /\ Progress \in 0 .. Size - 1
      /\ Progress' = Progress
      /\ longpos = Progress
      /\ LtwTarget(holdpos) - Progress \in 0 .. Size
  BY <1>1, RestingProgress, SizeFacts DEF InStep, Progress
<1>5. TypeOK'
  BY <1>1, <1>2, <1>3 DEF TypeOK, WoramTypeOK
<1>6. InStep'
  BY <1>1, <1>4 DEF InStep, NumLtw
<1>7. HoldingReliable'
  <2>. SUFFICES ASSUME NEW i \in Index, ReadsHolding(i, posmap'[i])
                PROVE  LET h == GetHold(posmap'[i])
                       IN  /\ NotYetVisited(i, h, holdpos, Progress)
                           /\ GetBit(holding[h], GetBind(posmap'[i]))
                                = GetBitval(posmap'[i])
    BY <1>1, <1>4 DEF HoldingReliable, ReadsHolding, NotYetVisited
  <2>1. CASE i # r.index
    BY <1>2, <2>1 DEF TypeOK, HoldingReliable
  <2>2. CASE i = r.index
    <3>1. posmap'[i] = newpos
      BY <1>2, <2>2 DEF TypeOK
    <3>2. /\ GetHold(newpos) = IF holdpos = 0 THEN HoldSize - 1 ELSE holdpos - 1
          /\ holding[GetHold(newpos)] = r.buf
          /\ GetBit(r.buf, GetBind(newpos)) = GetBitval(newpos)
      BY <1>1 DEF PositionInHand
    <3>3. NotYetVisited(i, GetHold(newpos), holdpos, Progress)
      BY <1>1, <1>4, <3>2, SizeFacts, LtwTargetFacts DEF NotYetVisited, Index
    <3>. QED
      BY <3>1, <3>2, <3>3
  <2>. QED
    BY <2>1, <2>2
<1>8. PositionInHand'
  BY <1>1 DEF PositionInHand
<1>. QED
  BY <1>5, <1>6, <1>7, <1>8

LEMMA NextInv == Inv /\ [Next]_vars => Inv'
<1>1. ASSUME Inv, UNCHANGED vars PROVE Inv'
  BY <1>1 DEF vars, Inv, TypeOK, WoramTypeOK, InStep, HoldingReliable,
              PositionInHand, Progress, NumLtw, ReadsHolding, NotYetVisited, Load
<1>. QED
  BY <1>1, CallInv, RefreshInv, HoldInv, PositionInv DEF Next

LEMMA InvAlways == Spec => []Inv
  BY InitInv, NextInv, PTL DEF Spec

(***************************************************************************)
(* The variables keep their types, longpos and holdpos their bounds.       *)
(***************************************************************************)
THEOREM TypeCorrect == Spec => []TypeOK
  BY InvAlways, PTL DEF Inv

(***************************************************************************)
(* The refresh keeps in step with the ring: num_ltw never wraps.           *)
(***************************************************************************)
THEOREM RefreshInStep == Spec => []InStep
  BY InvAlways, PTL DEF Inv

(***************************************************************************)
(* A slot in use stays reliable until the refresh has reached its index.   *)
(***************************************************************************)
THEOREM HoldingIsReliable == Spec => []HoldingReliable
  BY InvAlways, PTL DEF Inv

(***************************************************************************)
(* Until posmap->store has run, the position that backend->store returned  *)
(* leads to the new block.                                                 *)
(***************************************************************************)
THEOREM InHand == Spec => []PositionInHand
  BY InvAlways, PTL DEF Inv

(***************************************************************************)
(* No slot is overwritten while an index is read from it.                  *)
(***************************************************************************)
THEOREM SlotsAreReusable == Spec => []SlotReusable
  BY InvAlways, SlotFree, PTL

-----------------------------------------------------------------------------
(***************************************************************************)
(* The refinement: what load returns changes in StorePosition only.        *)
(***************************************************************************)
LEMMA VisibleType ==
  ASSUME Inv
  PROVE  Visible \in [Index -> Block]
  BY LoadType DEF Inv, TypeOK, Visible, PMLoad, PosmapLoad

\* A turn of ltws moves a block from the holding area to its home.
LEMMA RefreshInvisible ==
  ASSUME Inv, StoreRefresh
  PROVE  Visible' = Visible
<1>. SUFFICES ASSUME NEW i \in Index
              PROVE  PMLoad(i)' = PMLoad(i)
  BY DEF Visible
<1>1. /\ longterm' = [longterm EXCEPT ![longpos] = Load(longpos, posmap[longpos])]
      /\ UNCHANGED <<holding, posmap>>
      /\ longterm \in [Index -> Block]
  BY DEF Inv, TypeOK, WoramTypeOK, StoreRefresh, LongTermWrite, PosmapLoad
<1>2. CASE i # longpos
  BY <1>1, <1>2 DEF PMLoad, PosmapLoad, Load
<1>3. CASE i = longpos
  <2>1. longterm'[i] = Load(i, posmap[i])
    BY <1>1, <1>3
  <2>2. CASE ReadsHolding(i, posmap[i])
    BY <1>1, <2>1, <2>2 DEF PMLoad, PosmapLoad, Load, ReadsHolding
  <2>3. CASE ~ReadsHolding(i, posmap[i])
    BY <1>1, <2>1, <2>3 DEF PMLoad, PosmapLoad, Load, ReadsHolding
  <2>. QED
    BY <2>2, <2>3
<1>. QED
  BY <1>2, <1>3

\* The slot that is overwritten is nobody's.
LEMMA HoldInvisible ==
  ASSUME Inv, StoreHold
  PROVE  Visible' = Visible
<1>. SUFFICES ASSUME NEW i \in Index
              PROVE  PMLoad(i)' = PMLoad(i)
  BY DEF Visible
<1>1. PICK b : holding' = [holding EXCEPT ![holdpos] = b]
  BY DEF StoreHold, HoldingWrite
<1>2. /\ UNCHANGED <<longterm, posmap>>
      /\ pc = "ltws" /\ todo = 0
      /\ holding \in [Slot -> Block]
      /\ posmap[i] \in Pointer \cup {NPtr}
  BY DEF Inv, TypeOK, WoramTypeOK, StoreHold, HoldingWrite
<1>3. CASE ReadsHolding(i, posmap[i])
  <2>1. GetHold(posmap[i]) \in Slot
    BY <1>2, <1>3, PointerParts DEF ReadsHolding
  <2>2. GetHold(posmap[i]) # holdpos
    BY <1>2, <1>3, SlotFree DEF SlotReusable
  <2>. QED
    BY <1>1, <1>2, <2>1, <2>2 DEF PMLoad, PosmapLoad, Load
<1>4. CASE ~ReadsHolding(i, posmap[i])
  BY <1>2, <1>4 DEF PMLoad, PosmapLoad, Load, ReadsHolding
<1>. QED
  BY <1>3, <1>4

LEMMA PositionVisible ==
  ASSUME Inv, StorePosition
  PROVE  Device!ReturnStore
<1>1. PICK r \in request : posmap' = [posmap EXCEPT ![r.index] = newpos]
  BY DEF StorePosition
<1>2. /\ UNCHANGED <<longterm, holding>> /\ request' = {}
      /\ pc = "posmap" /\ r.index \in Index
      /\ posmap \in [Index -> Pointer \cup {NPtr}]
  BY DEF Inv, TypeOK, StorePosition
<1>3. Load(r.index, newpos) = r.buf
  BY <1>2 DEF Inv, PositionInHand
<1>4. ASSUME NEW i \in Index
      PROVE  PMLoad(i)' = IF i = r.index THEN r.buf ELSE PMLoad(i)
  <2>1. PMLoad(i)' = Load(i, posmap'[i])
    BY <1>2 DEF PMLoad, PosmapLoad, Load
  <2>. QED
    BY <1>1, <1>2, <1>3, <2>1 DEF PMLoad, PosmapLoad
<1>5. Visible' = [Visible EXCEPT ![r.index] = r.buf]
  BY <1>2, <1>4 DEF Visible
<1>. QED
  BY <1>2, <1>5 DEF Device!ReturnStore

(***************************************************************************)
(* The ORAM is a block device: a store changes what load returns for its   *)
(* own index, when it returns, and nothing else ever changes it.           *)
(***************************************************************************)
THEOREM WoramImplementsDevice == Spec => ImplementsDevice
<1>1. Init => Device!DeviceInit
  <2>. SUFFICES ASSUME Init PROVE Device!DeviceInit
    OBVIOUS
  <2>1. Visible \in [Index -> Block]
    BY InitInv, VisibleType
  <2>. QED
    BY <2>1 DEF Init, Device!DeviceInit
<1>2. Inv /\ [Next]_vars => [Device!DeviceNext]_(Device!deviceVars)
  <2>. SUFFICES ASSUME Inv, [Next]_vars
                PROVE  \/ Device!DeviceNext
                       \/ UNCHANGED <<Visible, request>>
    BY DEF Device!deviceVars
  <2>1. ASSUME NEW i \in Index, NEW b \in Block, StoreCall(i, b)
        PROVE  Device!CallStore(i, b)
    <3>1. request = {}
      BY <2>1 DEF StoreCall, Inv, TypeOK
    <3>. QED
      BY <2>1, <3>1
         DEF StoreCall, Device!CallStore, Visible, PMLoad, PosmapLoad, Load
  <2>2. CASE StoreRefresh
    BY <2>2, RefreshInvisible DEF StoreRefresh
  <2>3. CASE StoreHold
    BY <2>3, HoldInvisible DEF StoreHold
  <2>4. CASE StorePosition
    BY <2>4, PositionVisible DEF Device!DeviceNext
  <2>5. CASE UNCHANGED vars
    BY <2>5 DEF vars, Visible, PMLoad, PosmapLoad, Load
  <2>. QED
    BY <2>1, <2>2, <2>3, <2>4, <2>5 DEF Next, Device!DeviceNext
<1>. QED
  BY <1>1, <1>2, InvAlways, PTL
     DEF Spec, ImplementsDevice, Device!DeviceSpec
=============================================================================
