-------------------------- MODULE BMNOWoram_proofs -------------------------
(***************************************************************************)
(* Proofs about BMNOWoram for any size, stash and map that starts as       *)
(* garbage: no live position is reused, so what has been stored is loaded, *)
(* and a flush can harm the block at pmax() only.  These facts are         *)
(* inductive together (Inv): a position is free if the map disagrees with  *)
(* the metadata, which is right because the map is definite for every      *)
(* index that has left the stash.                                          *)
(***************************************************************************)
EXTENDS BMNOWoram, SequenceTheorems, TLAPS

\* The stash holds indices that have been stored and none that is lost.
StashOwned ==
  /\ Stashed \subseteq DOMAIN contents
  /\ lost \subseteq DOMAIN contents \ Stashed

\* The block stored last is in its slot of the stash or at its position.
StashHolds ==
  \A n \in 1 .. Len(stashloc) : stash[n - 1] = contents[stashloc[n]]

PositionHolds ==
  \A i \in DOMAIN contents \ (lost \cup Stashed) :
    primary[posmap[i]] = contents[i]

Inv ==
  /\ TypeOK
  /\ OwnerKnown
  /\ StashDistinct
  /\ LostOnlyAtPMax
  /\ StashOwned
  /\ StashHolds
  /\ PositionHolds
-----------------------------------------------------------------------------
(***************************************************************************)
(* What the constants say of positions: the stash and at least one block   *)
(* have room, and neither null value is a value.                           *)
(***************************************************************************)
LEMMA ConstantFacts ==
  /\ PMax \in Nat /\ PMax > 0
  /\ Size \in Nat \ {0} /\ StashLen \in Nat \ {0}
  /\ NoPosition \notin Position
  /\ NoIndex \notin Index
  /\ \A si \in StashSlot : FlushTarget(si) >= PMax
  BY BMNOAssumption
     DEF PMax, NoPosition, Position, NoIndex, Index, StashSlot, FlushTarget

\* The stash is searched for an index and the slot that holds it is found.
LEMMA StashIndexFound ==
  ASSUME TypeOK, StashDistinct, NEW n \in 1 .. Len(stashloc)
  PROVE  /\ stashloc[n] \in Stashed
         /\ StashIndex(stashloc[n]) = n - 1
<1>1. n \in DOMAIN stashloc /\ DOMAIN stashloc = 1 .. Len(stashloc)
  BY DEF TypeOK
<1>2. n - 1 \in StashSlot /\ n - 1 < Len(stashloc)
  BY <1>1, ConstantFacts DEF TypeOK, StashSlot
<1>3. ASSUME NEW si \in StashSlot, si < Len(stashloc),
             stashloc[si + 1] = stashloc[n]
      PROVE  si = n - 1
  <2>1. si + 1 \in DOMAIN stashloc
    BY <1>1, <1>3 DEF StashSlot, TypeOK
  <2>2. si + 1 = n
    BY <1>1, <1>3, <2>1 DEF StashDistinct, IsInjective
  <2>. QED
    BY <2>2 DEF StashSlot
<1>4. stashloc[(n - 1) + 1] = stashloc[n]
  OBVIOUS
<1>. QED
  BY <1>1, <1>2, <1>3, <1>4 DEF StashIndex, Stashed, ToSet

\* An index in the stash has a slot.
LEMMA StashSlotOf ==
  ASSUME TypeOK, NEW i \in Stashed
  PROVE  \E n \in 1 .. Len(stashloc) : stashloc[n] = i
  BY DEF TypeOK, Stashed, ToSet
-----------------------------------------------------------------------------
LEMMA InitInv == Init => Inv
<1>. SUFFICES ASSUME Init PROVE Inv
  OBVIOUS
<1>1. Stashed = {} /\ DOMAIN contents = {} /\ Len(stashloc) = 0
  BY DEF Init, Stashed, ToSet
<1>2. TypeOK
  <2>1. /\ primary \in [Position -> Block \cup {Garbled}]
        /\ meta \in [Position -> Index \cup {NoIndex}]
        /\ posmap \in [Index -> Position \cup {NoPosition}]
        /\ stash \in [StashSlot -> Block]
    BY BMNOAssumption DEF Init
  <2>2. stashloc \in Seq(Index) /\ Len(stashloc) <= StashLen
    BY <1>1, ConstantFacts DEF Init
  <2>3. stores \in 0 .. MaxStores /\ flushes \in 0 .. MaxFlushes
    BY BMNOAssumption DEF Init
  <2>. QED
    BY <1>1, <2>1, <2>2, <2>3 DEF Init, TypeOK
<1>3. StashDistinct
  BY DEF Init, StashDistinct, IsInjective
<1>. QED
  BY <1>1, <1>2, <1>3
     DEF Init, Inv, OwnerKnown, LostOnlyAtPMax, StashOwned, StashHolds,
         PositionHolds

(***************************************************************************)
(* A block is put into the stash: over its older version, or on top.       *)
(***************************************************************************)
LEMMA StashBlockInv ==
  ASSUME Inv, StashBlock
  PROVE  Inv'
<1>. USE DEF Inv
<1>1. PICK r \in request :
        /\ \/ /\ r.index \in Stashed
              /\ stash' = [stash EXCEPT ![StashIndex(r.index)] = r.buf]
              /\ stashloc' = stashloc
           \/ /\ r.index \notin Stashed
              /\ Len(stashloc) < StashLen
              /\ stash' = [stash EXCEPT ![Len(stashloc)] = r.buf]
              /\ stashloc' = Append(stashloc, r.index)
        /\ contents' = [i \in DOMAIN contents \cup {r.index} |->
                          IF i = r.index THEN r.buf ELSE contents[i]]
        /\ lost' = lost \ {r.index}
  BY DEF StashBlock
<1>2. r.index \in Index /\ r.buf \in Block
  BY DEF TypeOK
<1>3. /\ primary' = primary /\ meta' = meta /\ posmap' = posmap
      /\ request' = {} /\ pc' \in {"idle", "rewrite"}
      /\ UNCHANGED <<used, stores, flushes>>
  BY DEF StashBlock
<1>4. DOMAIN contents' = DOMAIN contents \cup {r.index}
  BY <1>1
<1>5. CASE r.index \in Stashed
  <2>1. PICK n \in 1 .. Len(stashloc) : stashloc[n] = r.index
    BY <1>5, StashSlotOf
  <2>2. /\ stash' = [stash EXCEPT ![n - 1] = r.buf]
        /\ stashloc' = stashloc
    BY <1>1, <1>5, <2>1, StashIndexFound
  <2>3. n - 1 \in StashSlot
    BY ConstantFacts DEF TypeOK, StashSlot
  <2>4. Stashed' = Stashed
    BY <2>2 DEF Stashed, ToSet
  <2>5. TypeOK'
    BY <1>1, <1>2, <1>3, <1>4, <2>2, <2>3 DEF TypeOK
  <2>6. StashHolds'
    <3>1. SUFFICES ASSUME NEW k \in 1 .. Len(stashloc)
                   PROVE  stash'[k - 1] = contents'[stashloc[k]]
      BY <2>2 DEF StashHolds
    <3>2. k - 1 \in StashSlot /\ k \in DOMAIN stashloc /\ n \in DOMAIN stashloc
      BY ConstantFacts DEF TypeOK, StashSlot
    <3>3. stashloc[k] \in DOMAIN contents
      BY <3>2 DEF StashOwned, Stashed, ToSet
    <3>4. CASE k = n
      BY <1>1, <1>4, <2>1, <2>2, <2>3, <3>4 DEF TypeOK
    <3>5. CASE k # n
      <4>1. stashloc[k] # r.index
        BY <2>1, <3>2, <3>5 DEF StashDistinct, IsInjective
      <4>2. stash'[k - 1] = stash[k - 1]
        BY <2>2, <3>2, <3>5 DEF TypeOK
      <4>. QED
        BY <1>1, <3>3, <4>1, <4>2 DEF StashHolds
    <3>. QED
      BY <3>4, <3>5
  <2>. QED
    BY <1>1, <1>3, <1>4, <1>5, <2>2, <2>4, <2>5, <2>6
       DEF OwnerKnown, StashDistinct, LostOnlyAtPMax, StashOwned, PositionHolds
<1>6. CASE r.index \notin Stashed
  <2>0. DEFINE len == Len(stashloc)
  <2>1. /\ len \in Nat /\ len < StashLen
        /\ stash' = [stash EXCEPT ![len] = r.buf]
        /\ stashloc' = Append(stashloc, r.index)
    BY <1>1, <1>6 DEF TypeOK
  <2>2. /\ len \in StashSlot
        /\ Len(stashloc') = len + 1
        /\ DOMAIN stashloc = 1 .. len /\ DOMAIN stashloc' = 1 .. len + 1
        /\ \A k \in 1 .. len : stashloc'[k] = stashloc[k]
        /\ stashloc'[len + 1] = r.index
    BY <1>2, <2>1, ConstantFacts DEF TypeOK, StashSlot
  <2>3. Stashed' = Stashed \cup {r.index}
    BY <2>1, <2>2 DEF Stashed, ToSet
  <2>4. TypeOK'
    <3>1. stashloc' \in Seq(Index) /\ Len(stashloc') <= StashLen
      BY <1>2, <2>1, <2>2, ConstantFacts DEF TypeOK
    <3>2. stash' \in [StashSlot -> Block]
      BY <1>2, <2>1, <2>2 DEF TypeOK
    <3>3. DOMAIN contents' \subseteq Index /\ lost' \subseteq Index
      BY <1>1, <1>2, <1>4 DEF TypeOK
    <3>. QED
      BY <1>3, <3>1, <3>2, <3>3 DEF TypeOK
  <2>5. StashDistinct'
    BY <1>6, <2>2 DEF StashDistinct, IsInjective, Stashed, ToSet
  <2>6. StashHolds'
    <3>1. SUFFICES ASSUME NEW k \in 1 .. len + 1
                   PROVE  stash'[k - 1] = contents'[stashloc'[k]]
      BY <2>2 DEF StashHolds
    <3>2. CASE k = len + 1
      <4>1. k - 1 = len /\ stashloc'[k] = r.index
        BY <2>1, <2>2, <3>2
      <4>2. contents'[r.index] = r.buf
        BY <1>1, <1>4
      <4>3. stash'[len] = r.buf
        BY <2>1, <2>2 DEF TypeOK
      <4>. QED
        BY <4>1, <4>2, <4>3
    <3>3. CASE k \in 1 .. len
      <4>1. stashloc[k] \in Stashed /\ stashloc[k] \in DOMAIN contents
        BY <2>2, <3>3 DEF StashOwned, Stashed, ToSet
      <4>2. stash'[k - 1] = stash[k - 1]
        BY <2>1, <2>2, <3>3, ConstantFacts DEF TypeOK, StashSlot
      <4>. QED
        BY <1>1, <1>6, <2>2, <3>3, <4>1, <4>2 DEF StashHolds
    <3>. QED
      BY <2>1, <3>2, <3>3
  <2>. QED
    BY <1>1, <1>3, <1>4, <2>3, <2>4, <2>5, <2>6
       DEF OwnerKnown, LostOnlyAtPMax, StashOwned, PositionHolds
<1>. QED
  BY <1>5, <1>6
-----------------------------------------------------------------------------
(***************************************************************************)
(* A position at which an index is live is not replaced: the metadata name *)
(* the index and the map is definite about it.                             *)
(***************************************************************************)
LEMMA LiveNotReplaced ==
  ASSUME Inv, NEW i \in DOMAIN contents \ Stashed,
         NEW curpos \in Position, MayReplace(curpos)
  PROVE  posmap[i] # curpos
<1>1. SUFFICES ASSUME posmap[i] = curpos PROVE FALSE
  OBVIOUS
<1>2. i \in Index /\ meta[curpos] = i
  BY <1>1 DEF Inv, TypeOK, OwnerKnown
<1>3. posmap[i] # NoPosition
  BY <1>1, ConstantFacts
<1>4. MapLoad(i) = {curpos}
  BY <1>1, <1>3 DEF MapLoad
<1>. QED
  BY <1>2, <1>4 DEF MayReplace

(***************************************************************************)
(* The last block of the stash is moved to its position.                   *)
(***************************************************************************)
LEMMA ReplaceInv ==
  ASSUME Inv, NEW curpos \in Position, MayReplace(curpos), Replace(curpos),
         UNCHANGED <<stash, request, contents, lost, stores, flushes>>,
         pc' \in {"idle", "stash", "rewrite", "aborted"},
         used' \subseteq Position
  PROVE  Inv'
<1>. USE DEF Inv
<1>. DEFINE top == Len(stashloc)
            moved == stashloc[top]
<1>1. /\ top \in Nat /\ top > 0
      /\ DOMAIN stashloc = 1 .. top
      /\ moved \in Index
  <2>1. top \in Nat /\ DOMAIN stashloc = 1 .. top
    BY DEF TypeOK
  <2>2. stashloc # <<>>
    BY DEF MayReplace
  <2>3. top > 0
    BY <2>1, <2>2, EmptySeq DEF TypeOK
  <2>. QED
    BY <2>1, <2>3 DEF TypeOK
<1>2. /\ primary' = [primary EXCEPT ![curpos] = stash[top - 1]]
      /\ meta' = [meta EXCEPT ![curpos] = moved]
      /\ posmap' = [posmap EXCEPT ![moved] = curpos]
      /\ stashloc' = SubSeq(stashloc, 1, top - 1)
  BY DEF Replace
<1>3. /\ stashloc' \in Seq(Index)
      /\ Len(stashloc') = top - 1
      /\ DOMAIN stashloc' = 1 .. top - 1
      /\ \A k \in 1 .. top - 1 : stashloc'[k] = stashloc[k]
  BY <1>1, <1>2 DEF TypeOK
<1>4. moved \in Stashed /\ moved \in DOMAIN contents /\ moved \notin lost
  BY <1>1 DEF StashOwned, Stashed, ToSet
<1>5. Stashed' = Stashed \ {moved}
  <2>1. ASSUME NEW k \in 1 .. top - 1 PROVE stashloc[k] # moved
    BY <1>1, <2>1 DEF StashDistinct, IsInjective
  <2>. QED
    BY <1>1, <1>3, <2>1 DEF Stashed, ToSet
<1>6. top - 1 \in StashSlot /\ stash[top - 1] = contents[moved]
  BY <1>1, ConstantFacts DEF TypeOK, StashSlot, StashHolds
<1>7. TypeOK'
  <2>1. primary' \in [Position -> Block \cup {Garbled}]
    BY <1>2, <1>6 DEF TypeOK
  <2>2. meta' \in [Position -> Index \cup {NoIndex}]
    BY <1>1, <1>2 DEF TypeOK
  <2>3. posmap' \in [Index -> Position \cup {NoPosition}]
    BY <1>1, <1>2 DEF TypeOK
  <2>4. Len(stashloc') <= StashLen
    BY <1>1, <1>3, ConstantFacts DEF TypeOK
  <2>. QED
    BY <1>3, <2>1, <2>2, <2>3, <2>4 DEF TypeOK
<1>8. /\ primary'[curpos] = contents[moved]
      /\ meta'[curpos] = moved
      /\ posmap'[moved] = curpos
  BY <1>1, <1>2, <1>6 DEF TypeOK
<1>9. ASSUME NEW i \in DOMAIN contents \ Stashed
      PROVE  /\ i # moved /\ posmap'[i] = posmap[i]
             /\ posmap[i] \in Position /\ posmap[i] # curpos
             /\ meta'[posmap[i]] = meta[posmap[i]]
             /\ primary'[posmap[i]] = primary[posmap[i]]
  <2>1. i # moved /\ i \in Index /\ posmap[i] # curpos
    BY <1>4, LiveNotReplaced DEF TypeOK
  <2>2. posmap[i] \in Position
    BY <2>1, ConstantFacts DEF OwnerKnown, TypeOK, Position, NoPosition
  <2>. QED
    BY <1>2, <2>1, <2>2 DEF TypeOK
<1>10. OwnerKnown'
  BY <1>4, <1>5, <1>8, <1>9, ConstantFacts DEF OwnerKnown, Position
<1>11. StashDistinct'
  BY <1>1, <1>3 DEF StashDistinct, IsInjective
<1>12. LostOnlyAtPMax' /\ StashOwned'
  BY <1>4, <1>5, <1>9 DEF LostOnlyAtPMax, StashOwned
<1>13. StashHolds'
  BY <1>1, <1>3 DEF StashHolds
<1>14. PositionHolds'
  BY <1>4, <1>5, <1>8, <1>9 DEF PositionHolds
<1>. QED
  BY <1>7, <1>10, <1>11, <1>12, <1>13, <1>14

LEMMA RewriteInv ==
  ASSUME Inv, NEW curpos \in Position, Rewrite(curpos)
  PROVE  Inv'
<1>1. /\ pc' \in {"idle", "stash", "rewrite", "aborted"}
      /\ used' \subseteq Position
      /\ UNCHANGED <<stash, request, contents, lost, stores, flushes>>
  BY DEF Rewrite, Inv, TypeOK
<1>2. CASE MayReplace(curpos) /\ Replace(curpos)
  BY <1>1, <1>2, ReplaceInv
<1>3. CASE UNCHANGED <<primary, meta, posmap, stashloc>>
  BY <1>1, <1>3
     DEF Inv, TypeOK, OwnerKnown, StashDistinct, LostOnlyAtPMax, StashOwned,
         StashHolds, PositionHolds, Stashed
<1>. QED
  BY <1>2, <1>3 DEF Rewrite

(***************************************************************************)
(* A flush writes to pmax() and beyond: of the positions with blocks, only *)
(* to pmax(), and what it changes there is lost.                           *)
(***************************************************************************)
LEMMA FlushInv ==
  ASSUME Inv, Flush
  PROVE  Inv'
<1>. USE DEF Inv
<1>. DEFINE flushed ==
       [p \in Position |->
          IF \E si \in StashSlot : FlushTarget(si) = p
          THEN IF Rec
               THEN stash[CHOOSE si \in StashSlot : FlushTarget(si) = p]
               ELSE Garbled
          ELSE primary[p]]
<1>1. /\ primary' = flushed
      /\ lost' = lost \cup {i \in DOMAIN contents \ Stashed :
                              flushed[posmap[i]] # primary[posmap[i]]}
      /\ flushes < MaxFlushes /\ flushes' = flushes + 1
      /\ UNCHANGED <<meta, posmap, stash, stashloc, request, pc, used,
                     contents, stores>>
  BY DEF Flush
<1>2. flushed \in [Position -> Block \cup {Garbled}]
  <2>1. ASSUME NEW p \in Position, \E si \in StashSlot : FlushTarget(si) = p
        PROVE  stash[CHOOSE si \in StashSlot : FlushTarget(si) = p] \in Block
    BY <2>1 DEF TypeOK
  <2>. QED
    BY <2>1 DEF TypeOK
<1>3. ASSUME NEW p \in Position, flushed[p] # primary[p]
      PROVE  p = PMax
  <2>1. PICK si \in StashSlot : FlushTarget(si) = p
    BY <1>3
  <2>. QED
    BY <2>1, ConstantFacts DEF Position
<1>4. ASSUME NEW i \in DOMAIN contents \ Stashed
      PROVE  i \in Index /\ posmap[i] \in Position
  BY ConstantFacts DEF OwnerKnown, TypeOK, Position, NoPosition
<1>5. TypeOK'
  BY <1>1, <1>2, BMNOAssumption DEF TypeOK
<1>6. Stashed' = Stashed
  BY <1>1 DEF Stashed
<1>7. LostOnlyAtPMax'
  BY <1>1, <1>3, <1>4 DEF LostOnlyAtPMax
<1>8. OwnerKnown' /\ StashDistinct' /\ StashHolds' /\ StashOwned'
  BY <1>1, <1>6 DEF OwnerKnown, StashDistinct, StashHolds, StashOwned
<1>9. PositionHolds'
  BY <1>1, <1>4, <1>6 DEF PositionHolds
<1>. QED
  BY <1>5, <1>7, <1>8, <1>9

LEMMA NextInv == Inv /\ [Next]_vars => Inv'
<1>. SUFFICES ASSUME Inv, [Next]_vars PROVE Inv'
  OBVIOUS
<1>. DEFINE Same == UNCHANGED <<primary, meta, posmap, stash, stashloc,
                                contents, lost, flushes>>
<1>0. ASSUME Same, TypeOK' PROVE Inv'
  BY <1>0
     DEF Inv, OwnerKnown, StashDistinct, LostOnlyAtPMax, StashOwned,
         StashHolds, PositionHolds, Stashed
<1>1. ASSUME NEW index \in Index, NEW buf \in Block, StoreCall(index, buf)
      PROVE  Inv'
  <2>1. Same /\ TypeOK'
    BY <1>1, BMNOAssumption DEF StoreCall, Inv, TypeOK
  <2>. QED
    BY <1>0, <2>1
<1>2. CASE StashBlock
  BY <1>2, StashBlockInv
<1>3. CASE StashOverflow
  <2>1. Same /\ TypeOK'
    BY <1>3 DEF StashOverflow, Inv, TypeOK
  <2>. QED
    BY <1>0, <2>1
<1>4. CASE Commit
  <2>1. Same /\ TypeOK'
    BY <1>4 DEF Commit, Inv, TypeOK
  <2>. QED
    BY <1>0, <2>1
<1>5. ASSUME NEW curpos \in Position, Rewrite(curpos) PROVE Inv'
  BY <1>5, RewriteInv
<1>6. CASE Flush
  BY <1>6, FlushInv
<1>7. CASE UNCHANGED vars
  <2>1. Same /\ TypeOK'
    BY <1>7 DEF vars, Inv, TypeOK
  <2>. QED
    BY <1>0, <2>1
<1>. QED
  BY <1>1, <1>2, <1>3, <1>4, <1>5, <1>6, <1>7 DEF Next

LEMMA InvAlways == Spec => []Inv
  BY InitInv, NextInv, PTL DEF Spec
-----------------------------------------------------------------------------
(***************************************************************************)
(* The variables keep their types, and the stash never holds more than     *)
(* stashlen() blocks.                                                      *)
(***************************************************************************)
THEOREM BmnoTypeCorrect == Spec => []TypeOK
  BY InvAlways, PTL DEF Inv

(***************************************************************************)
(* A block that has left the stash is found by metadata and map alike and  *)
(* is never taken for free space, whatever both held at the start.         *)
(***************************************************************************)
THEOREM BmnoOwnerKnown == Spec => []OwnerKnown
  BY InvAlways, PTL DEF Inv

(***************************************************************************)
(* No index is in the stash twice.                                         *)
(***************************************************************************)
THEOREM BmnoStashDistinct == Spec => []StashDistinct
  BY InvAlways, PTL DEF Inv

(***************************************************************************)
(* A flush is harmless to every block but the one at position pmax().      *)
(***************************************************************************)
THEOREM BmnoLostOnlyAtPMax == Spec => []LostOnlyAtPMax
  BY InvAlways, PTL DEF Inv

(***************************************************************************)
(* load returns what has been stored, unless a flush has overwritten it.   *)
(***************************************************************************)
THEOREM BmnoStoredIsLoaded == Spec => []StoredIsLoaded
<1>1. ASSUME Inv, NEW i \in DOMAIN contents \ lost
      PROVE  Load(i) = {contents[i]}
  <2>. USE <1>1 DEF Inv
  <2>1. CASE i \in Stashed
    <3>1. PICK n \in 1 .. Len(stashloc) : stashloc[n] = i
      BY <2>1, StashSlotOf
    <3>2. stash[StashIndex(i)] = contents[i]
      BY <3>1, StashIndexFound DEF StashHolds
    <3>. QED
      BY <2>1, <3>2 DEF Load
  <2>2. CASE i \notin Stashed
    <3>1. i \in Index /\ posmap[i] <= PMax /\ posmap[i] # NoPosition
      BY <2>2, ConstantFacts DEF OwnerKnown, TypeOK, NoPosition, Position
    <3>2. ~(posmap[i] > PMax)
      BY <3>1, ConstantFacts DEF TypeOK, Position, NoPosition
    <3>3. MapLoad(i) = {posmap[i]}
      BY <3>1 DEF MapLoad
    <3>4. primary[posmap[i]] = contents[i]
      BY <2>2 DEF PositionHolds
    <3>. QED
      BY <2>2, <3>2, <3>3, <3>4 DEF Load
  <2>. QED
    BY <2>1, <2>2
<1>2. Inv => StoredIsLoaded
  BY <1>1 DEF StoredIsLoaded
<1>. QED
  BY <1>2, InvAlways, PTL
=============================================================================
