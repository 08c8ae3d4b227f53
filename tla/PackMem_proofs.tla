--------------------------- MODULE PackMem_proofs --------------------------
(***************************************************************************)
(* Proofs about PackMem for any number and size of blocks: its caches stay *)
(* coherent, a flush makes the backend complete, and it implements the     *)
(* abstract block device.  CachesCoherent is inductive together with the   *)
(* type invariant; the other two follow from it step by step.              *)
(***************************************************************************)
EXTENDS PackMem, TLAPS

Inv == TypeOK /\ CachesCoherent

(***************************************************************************)
(* outer and inner are the halves of an index: they are in range.          *)
(***************************************************************************)
LEMMA DivModFacts ==
  ASSUME NEW a \in Nat, NEW d \in Nat \ {0}, NEW n \in Nat, a < n * d
  PROVE  /\ a \div d \in 0 .. n - 1
         /\ a % d \in 0 .. d - 1
<1>1. a \div d \in Int /\ a % d \in 0 .. d - 1 /\ a = d * (a \div d) + (a % d)
  OBVIOUS
<1>2. a \div d >= 0
  OBVIOUS
<1>3. a \div d < n
  <2>1. SUFFICES ASSUME a \div d >= n PROVE FALSE
    BY <1>1
  <2>2. d * (a \div d) >= d * n
    BY <1>1, <2>1
  <2>. QED
    BY <1>1, <2>2
<1>. QED
  BY <1>1, <1>2, <1>3

LEMMA IndexSplit ==
  ASSUME NEW index \in Index
  PROVE  /\ Outer(index) \in OuterIndex
         /\ Inner(index) \in InnerIndex
<1>1. index \in Nat /\ index < BackSize * PerBlock
  BY PackAssumption DEF Index
<1>. QED
  BY <1>1, DivModFacts, PackAssumption DEF Outer, Inner, OuterIndex, InnerIndex
-----------------------------------------------------------------------------
LEMMA InitInv == Init => Inv
  BY DEF Init, Inv, TypeOK, CachesCoherent, OuterIndex, NoBlock

LEMMA NextInv == Inv /\ [Next]_vars => Inv'
<1>. SUFFICES ASSUME Inv, [Next]_vars PROVE Inv'
  OBVIOUS
<1>. USE DEF Inv, TypeOK, CachesCoherent
<1>0. NoBlock \notin OuterIndex
  BY PackAssumption DEF NoBlock, OuterIndex
<1>1. ASSUME NEW index \in Index, Load(index) PROVE Inv'
  BY <1>0, <1>1, IndexSplit DEF Load
<1>2. ASSUME NEW index \in Index, NEW buf \in Item, StoreCall(index, buf)
      PROVE  Inv'
  BY <1>2 DEF StoreCall
<1>3. CASE StoreEvict
  BY <1>0, <1>3 DEF StoreEvict, WriteBack
<1>4. CASE StoreThrows
  BY <1>4 DEF StoreThrows
<1>5. CASE StoreFetch
  <2>1. PICK r \in request :
          /\ Outer(r.index) # wind
          /\ IF Outer(r.index) = rind
             THEN wblock' = rblock /\ rind' = NoBlock
             ELSE wblock' = back[Outer(r.index)] /\ rind' = rind
          /\ wind' = Outer(r.index)
    BY <1>5 DEF StoreFetch
  <2>2. r.index \in Index
    OBVIOUS
  <2>3. Outer(r.index) \in OuterIndex
    BY <2>2, IndexSplit
  <2>. QED
    BY <1>0, <1>5, <2>1, <2>3 DEF StoreFetch
<1>6. CASE StoreWrite
  <2>1. PICK r \in request :
          /\ Outer(r.index) = wind
          /\ wblock' = [wblock EXCEPT ![Inner(r.index)] = r.buf]
    BY <1>6 DEF StoreWrite
  <2>2. r.index \in Index /\ r.buf \in Item
    OBVIOUS
  <2>3. Outer(r.index) \in OuterIndex /\ Inner(r.index) \in InnerIndex
    BY <2>2, IndexSplit
  <2>4. wblock' \in BackBlock
    BY <2>1, <2>2, <2>3 DEF BackBlock
  <2>. QED
    BY <1>0, <1>6, <2>1, <2>3, <2>4 DEF StoreWrite
<1>7. CASE Flush
  BY <1>0, <1>7 DEF Flush, WriteBack
<1>8. CASE UNCHANGED vars
  BY <1>8 DEF vars
<1>. QED
  BY <1>1, <1>2, <1>3, <1>4, <1>5, <1>6, <1>7, <1>8 DEF Next

LEMMA InvAlways == Spec => []Inv
  BY InitInv, NextInv, PTL DEF Spec

(***************************************************************************)
(* The variables keep their types, for any number and size of blocks.      *)
(***************************************************************************)
THEOREM PackTypeCorrect == Spec => []TypeOK
  BY InvAlways, PTL DEF Inv

(***************************************************************************)
(* The read cache, the write cache and the backend never disagree.         *)
(***************************************************************************)
THEOREM PackCoherent == Spec => []CachesCoherent
  BY InvAlways, PTL DEF Inv

LEMMA FlushStep ==
  ASSUME Inv, Flush, NEW index \in Index
  PROVE  back'[Outer(index)][Inner(index)] = LoadedItem(index)
  BY IndexSplit, PackAssumption
     DEF Inv, TypeOK, CachesCoherent, Flush, WriteBack, LoadedItem, OuterIndex,
         NoBlock

(***************************************************************************)
(* After a flush the backend holds every block that was stored: nothing is *)
(* left in the write cache only.                                           *)
(***************************************************************************)
THEOREM PackFlushPersists == Spec => FlushPersists
<1>1. Inv /\ [Next]_vars =>
        [Flush => \A index \in Index :
           back'[Outer(index)][Inner(index)] = LoadedItem(index)]_vars
  BY FlushStep
<1>. QED
  BY <1>1, InvAlways, PTL DEF Spec, FlushPersists
-----------------------------------------------------------------------------
(***************************************************************************)
(* The refinement.  A step is seen from outside only when it calls, ends   *)
(* or breaks off a store; two lemmas say what is visible after a step.     *)
(***************************************************************************)
LEMMA VisibleType ==
  ASSUME Inv, NEW index \in Index
  PROVE  LoadedItem(index) \in Item
  BY IndexSplit DEF Inv, TypeOK, CachesCoherent, LoadedItem, BackBlock

\* Nothing is visible while no small block of the write cache changes.
LEMMA VisibleUnchanged ==
  ASSUME Inv,
         \/ \E index \in Index : Load(index)
         \/ StoreEvict \/ StoreFetch \/ Flush
         \/ UNCHANGED <<back, wblock, wind, wchange, rblock, rind>>
  PROVE  Visible' = Visible
<1>. SUFFICES ASSUME NEW index \in Index
              PROVE  LoadedItem(index)' = LoadedItem(index)
  BY DEF Visible
<1>. USE DEF Inv, TypeOK, CachesCoherent, LoadedItem
<1>0. /\ NoBlock \notin OuterIndex
      /\ Outer(index) \in OuterIndex
      /\ \A r \in request : Outer(r.index) \in OuterIndex
  BY PackAssumption, IndexSplit DEF NoBlock, OuterIndex
<1>1. CASE \E i \in Index : Load(i)
  <2>. PICK i \in Index : Load(i)
    BY <1>1
  <2>. QED
    BY <1>0, IndexSplit DEF Load
<1>2. CASE StoreEvict
  BY <1>0, <1>2 DEF StoreEvict, WriteBack
<1>3. CASE StoreFetch
  BY <1>0, <1>3 DEF StoreFetch
<1>4. CASE Flush
  BY <1>0, <1>4 DEF Flush, WriteBack
<1>5. CASE UNCHANGED <<back, wblock, wind, wchange, rblock, rind>>
  BY <1>5
<1>. QED
  BY <1>1, <1>2, <1>3, <1>4, <1>5

\* Two indices with the same halves are the same.
LEMMA IndexJoin ==
  ASSUME NEW i \in Index, NEW j \in Index,
         Outer(i) = Outer(j), Inner(i) = Inner(j)
  PROVE  i = j
<1>1. \A k \in Index : k \in Nat /\ k = PerBlock * Outer(k) + Inner(k)
  BY PackAssumption DEF Index, Outer, Inner
<1>. QED
  BY <1>1

LEMMA VisibleAfterWrite ==
  ASSUME Inv, NEW r \in request, StoreWrite
  PROVE  Visible' = [Visible EXCEPT ![r.index] = r.buf]
<1>. USE DEF Inv, TypeOK, CachesCoherent
<1>1. /\ r.index \in Index
      /\ r.buf \in Item
  OBVIOUS
<1>2. /\ Outer(r.index) = wind
      /\ wblock' = [wblock EXCEPT ![Inner(r.index)] = r.buf]
      /\ UNCHANGED <<back, wind, rblock, rind>>
  BY DEF StoreWrite
<1>3. wblock \in [InnerIndex -> Item]
  BY DEF BackBlock
<1>4. ASSUME NEW index \in Index
      PROVE  LoadedItem(index)' =
               IF index = r.index THEN r.buf ELSE LoadedItem(index)
  <2>1. Inner(index) \in InnerIndex /\ Inner(r.index) \in InnerIndex
    BY <1>1, IndexSplit
  <2>2. CASE Outer(index) = wind /\ Inner(index) = Inner(r.index)
    BY <1>1, <1>2, <1>3, <2>1, <2>2, IndexJoin DEF LoadedItem
  <2>3. CASE Outer(index) = wind /\ Inner(index) # Inner(r.index)
    BY <1>2, <1>3, <2>1, <2>3 DEF LoadedItem
  <2>4. CASE Outer(index) # wind
    BY <1>2, <2>4 DEF LoadedItem
  <2>. QED
    BY <2>2, <2>3, <2>4
<1>. QED
  BY <1>1, <1>4 DEF Visible

(***************************************************************************)
(* PackMem is a block device of small blocks: a store changes its own      *)
(* index when it returns, or nothing when the backend throws, and loads,   *)
(* write-backs and flushes cannot be seen.                                 *)
(***************************************************************************)
THEOREM PackImplementsDevice == Spec => ImplementsDevice
<1>1. Init => Device!DeviceInit
  <2>. SUFFICES ASSUME Init PROVE Device!DeviceInit
    OBVIOUS
  <2>1. Inv
    BY InitInv
  <2>2. Visible \in [Index -> Item]
    BY <2>1, VisibleType DEF Visible
  <2>. QED
    BY <2>2 DEF Init, Device!DeviceInit
<1>2. Inv /\ [Next]_vars => [Device!DeviceNext]_(Device!deviceVars)
  <2>. SUFFICES ASSUME Inv, [Next]_vars
                PROVE  \/ Device!DeviceNext
                       \/ UNCHANGED <<Visible, request>>
    BY DEF Device!deviceVars
  <2>1. ASSUME NEW index \in Index, Load(index)
        PROVE  UNCHANGED <<Visible, request>>
    BY <2>1, VisibleUnchanged DEF Load
  <2>2. ASSUME NEW index \in Index, NEW buf \in Item, StoreCall(index, buf)
        PROVE  Device!CallStore(index, buf)
    BY <2>2, VisibleUnchanged DEF StoreCall, Device!CallStore
  <2>3. CASE StoreEvict
    BY <2>3, VisibleUnchanged DEF StoreEvict
  <2>4. CASE StoreThrows
    BY <2>4, VisibleUnchanged
       DEF StoreThrows, Device!DeviceNext, Device!RefuseStore
  <2>5. CASE StoreFetch
    BY <2>5, VisibleUnchanged DEF StoreFetch
  <2>6. CASE StoreWrite
    <3>1. PICK r \in request : TRUE
      BY <2>6 DEF StoreWrite
    <3>2. Visible' = [Visible EXCEPT ![r.index] = r.buf]
      BY <2>6, <3>1, VisibleAfterWrite
    <3>. QED
      BY <2>6, <3>1, <3>2 DEF StoreWrite, Device!DeviceNext, Device!ReturnStore
  <2>7. CASE Flush
    BY <2>7, VisibleUnchanged DEF Flush
  <2>8. CASE UNCHANGED vars
    BY <2>8, VisibleUnchanged DEF vars
  <2>. QED
    BY <2>1, <2>2, <2>3, <2>4, <2>5, <2>6, <2>7, <2>8
       DEF Next, Device!DeviceNext
<1>. QED
  BY <1>1, <1>2, InvAlways, PTL
     DEF Spec, ImplementsDevice, Device!DeviceSpec
=============================================================================
