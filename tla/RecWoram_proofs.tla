-------------------------- MODULE RecWoram_proofs --------------------------
(***************************************************************************)
(* Proof that a level of the recursion implements the ORAM with an array   *)
(* for a position map, and hence a block device, for any sizes.  The       *)
(* invariants of the two halves are those already proved of them: J joins  *)
(* them with the link between the two calls in progress.  A step of a      *)
(* level is a step of PMWoram or invisible to it, and a step of PackMem or *)
(* invisible to it; so both invariants are preserved.                      *)
(***************************************************************************)
EXTENDS RecWoram, TLAPS

PackP == INSTANCE PackMem_proofs WITH
  Item <- MaybePosition, BackThrows <- FALSE, request <- posrequest

PlainP == INSTANCE PMWoram_proofs WITH
  posmap <- [i \in Index |-> Position(i)],
  pc <- IF pc = "pack" THEN "posmap" ELSE pc

\* The call of PackMem::store is the one that PMWoram::store is waiting for.
Link ==
  /\ pc \in {"idle", "ltws", "posmap", "pack"}
  /\ posrequest = IF pc = "pack"
                  THEN {[index |-> r.index, buf |-> newpos] : r \in request}
                  ELSE {}

J == PlainP!Inv /\ PackP!Inv /\ Link

\* The assumptions of PackMem and PMWoram.
LEMMA PackOK ==
  /\ BackSize \in Nat \ {0}
  /\ PerBlock \in Nat \ {0}
  /\ Size \in 1 .. BackSize * PerBlock
  /\ MaybePosition # {}
  /\ FALSE \in BOOLEAN
  BY RecAssumption, WoramAssumption DEF MaybePosition

LEMMA PlainOK ==
  /\ InitialBlocks \subseteq Block
  /\ InitialBlocks # {}
  /\ InitialPositions \subseteq Pointer \cup {NPtr}
  /\ InitialPositions # {}
  /\ \A b \in InitialBlocks, p \in InitialPositions \ {NPtr} :
       GetBit(b, GetBind(p)) = GetBitval(p)
  BY RecAssumption DEF MaybePosition

\* PackMem is instanced twice, by RecWoram and here.
LEMMA SamePack ==
  /\ \A i : Pack!Load(i) <=> PackP!Load(i)
  /\ \A i, b : Pack!StoreCall(i, b) <=> PackP!StoreCall(i, b)
  /\ Pack!StoreEvict <=> PackP!StoreEvict
  /\ Pack!StoreFetch <=> PackP!StoreFetch
  /\ Pack!StoreWrite <=> PackP!StoreWrite
  /\ Pack!Flush <=> PackP!Flush
  /\ Pack!Init <=> PackP!Init
  /\ [i \in Index |-> Position(i)] = PackP!Visible
  BY DEF Pack!Load, PackP!Load, Pack!StoreCall, PackP!StoreCall,
         Pack!StoreEvict, PackP!StoreEvict, Pack!WriteBack, PackP!WriteBack,
         Pack!StoreFetch, PackP!StoreFetch, Pack!StoreWrite, PackP!StoreWrite,
         Pack!Flush, PackP!Flush, Pack!Init, PackP!Init, Pack!Outer, PackP!Outer,
         Pack!Inner, PackP!Inner, Pack!OuterIndex, PackP!OuterIndex,
         Pack!InnerIndex, PackP!InnerIndex, Pack!BackBlock, PackP!BackBlock,
         Pack!NoBlock, PackP!NoBlock, Position, Pack!LoadedItem,
         PackP!LoadedItem, PackP!Visible, PackP!Index, Index

LEMMA PackNext ==
  PackP!Inv /\ [PackP!Next]_(PackP!vars) => PackP!Inv'
  BY PackP!NextInv, PackOK

LEMMA SamePointers ==
  /\ Slot = PlainP!Slot /\ BitIndex = PlainP!BitIndex
  /\ Pointer = PlainP!Pointer /\ NPtr = PlainP!NPtr
  /\ \A p : GetBind(p) = PlainP!GetBind(p)
  /\ \A p : GetBitval(p) = PlainP!GetBitval(p)
  BY DEF Slot, PlainP!Slot, BitIndex, PlainP!BitIndex, Pointer, PlainP!Pointer,
         NPtr, PlainP!NPtr, PMax, PlainP!PMax, Build, PlainP!Build,
         GetBind, PlainP!GetBind, GetBitval, PlainP!GetBitval

LEMMA PlainInit == PlainP!Init => PlainP!Inv
  BY SamePointers, PlainP!InitInv, PlainOK, PointerAssumption, WoramAssumption

LEMMA PlainNext ==
  PlainP!Inv /\ [PlainP!Next]_(PlainP!vars) => PlainP!Inv'
  BY SamePointers, PlainP!NextInv, PlainOK, PointerAssumption, WoramAssumption

LEMMA PlainDevice == PlainP!Spec => PlainP!ImplementsDevice
  BY SamePointers, PlainP!WoramImplementsDevice, PlainOK, PointerAssumption,
     WoramAssumption

\* So is DetWoram, by RecWoram and by PMWoram.
LEMMA SameWoram ==
  /\ Index = PlainP!Index /\ Slot = PlainP!Slot
  /\ Pointer = PlainP!Pointer /\ NPtr = PlainP!NPtr
  /\ NumLtw = PlainP!NumLtw
  /\ \A p : LongTermWrite(p) <=> PlainP!LongTermWrite(p)
  /\ \A i, b : NewPosition(i, b) = PlainP!NewPosition(i, b)
  /\ \A b : HoldingWrite(b) <=> PlainP!HoldingWrite(b)
  BY DEF Index, PlainP!Index, Slot, PlainP!Slot, BitIndex, PlainP!BitIndex,
         Pointer, PlainP!Pointer, NPtr, PlainP!NPtr, PMax, PlainP!PMax,
         Build, PlainP!Build, GetBind, PlainP!GetBind, GetHold, PlainP!GetHold,
         GetBitval, PlainP!GetBitval, NumLtw, PlainP!NumLtw, LtwTarget,
         PlainP!LtwTarget, Load, PlainP!Load, LongTermWrite,
         PlainP!LongTermWrite, MismatchBit, PlainP!MismatchBit, NewPosition,
         PlainP!NewPosition, HoldingWrite, PlainP!HoldingWrite

\* What the invariant of PMWoram says of the variables of a level.
LEMMA PlainTypes ==
  ASSUME PlainP!Inv
  PROVE  /\ longpos \in Index
         /\ newpos \in MaybePosition
         /\ request \in SUBSET [index : Index, buf : Block]
         /\ \A r, s \in request : r = s
         /\ pc = "idle" => request = {}
         /\ pc \in {"ltws", "posmap", "pack"} => request # {}
  BY SameWoram DEF PlainP!Inv, PlainP!TypeOK, PlainP!WoramTypeOK, MaybePosition
-----------------------------------------------------------------------------
(***************************************************************************)
(* The steps.                                                              *)
(***************************************************************************)
Map == [i \in Index |-> Position(i)]

LEMMA MapIsVisible == Map = PackP!Visible /\ Map' = PackP!Visible'
  BY DEF Map, Index, Position, Pack!LoadedItem, Pack!Outer, Pack!Inner,
         PackP!Visible, PackP!Index, PackP!LoadedItem, PackP!Outer, PackP!Inner

LEMMA MapUnchanged ==
  ASSUME PackP!Inv,
         \/ \E i \in Index : Pack!Load(i)
         \/ Pack!StoreEvict \/ Pack!StoreFetch \/ Pack!Flush
         \/ UNCHANGED <<back, wblock, wind, wchange, rblock, rind>>
  PROVE  Map' = Map
<1>1. PackP!Index = Index
  BY DEF PackP!Index, Index
<1>2. PackP!Visible' = PackP!Visible
  BY <1>1, SamePack, PackOK, PackP!VisibleUnchanged
<1>. QED
  BY <1>2, MapIsVisible

\* Every step is one of PackMem, or leaves it alone.
LEMMA PackSimulated ==
  ASSUME J, [Next]_vars
  PROVE  [PackP!Next]_(PackP!vars)
<1>. USE DEF J
<1>0. PackP!Index = Index
  BY DEF PackP!Index, Index
<1>1. ASSUME UNCHANGED posrequest, UNCHANGED <<back, wblock, wind, wchange, rblock, rind>>
      PROVE  UNCHANGED PackP!vars
  BY <1>1 DEF PackP!vars
<1>2. CASE \E i \in Index : RecLoad(i)
  BY <1>0, <1>2, SamePack DEF RecLoad, PackP!Next
<1>3. CASE StoreRefresh
  BY <1>0, <1>3, SamePack, PlainTypes DEF StoreRefresh, PackP!Next
<1>4. CASE PosmapCall
  <2>1. PICK r \in request : Pack!StoreCall(r.index, newpos)
    BY <1>4 DEF PosmapCall
  <2>2. r.index \in Index /\ newpos \in MaybePosition
    BY PlainTypes
  <2>. QED
    BY <1>0, <2>1, <2>2, SamePack DEF PackP!Next
<1>5. CASE PosmapEvict \/ PosmapFetch \/ PosmapWrite \/ Flush
  BY <1>5, SamePack DEF PosmapEvict, PosmapFetch, PosmapWrite, Flush, PackP!Next
<1>6. CASE \/ \E i \in Index, b \in Block : StoreCall(i, b)
           \/ StoreHold
           \/ UNCHANGED vars
  BY <1>1, <1>6 DEF StoreCall, StoreHold, posmapVars, vars
<1>. QED
  BY <1>2, <1>3, <1>4, <1>5, <1>6 DEF Next

LEMMA LinkNext ==
  ASSUME J, [Next]_vars
  PROVE  Link'
<1>. USE DEF J, Link
<1>1. CASE \/ \E i \in Index : RecLoad(i)
           \/ StoreRefresh
           \/ Flush
  BY <1>1 DEF RecLoad, StoreRefresh, Flush, callVars, Pack!Load, Pack!Flush,
              Pack!WriteBack
<1>2. CASE \E i \in Index, b \in Block : StoreCall(i, b)
  BY <1>2 DEF StoreCall, posmapVars
<1>3. CASE StoreHold
  BY <1>3 DEF StoreHold, posmapVars
<1>4. CASE PosmapCall
  BY <1>4, PlainTypes DEF PosmapCall, Pack!StoreCall
<1>5. CASE PosmapEvict \/ PosmapFetch
  BY <1>5 DEF PosmapEvict, PosmapFetch, callVars, Pack!StoreEvict,
              Pack!WriteBack, Pack!StoreFetch
<1>6. CASE PosmapWrite
  BY <1>6 DEF PosmapWrite, Pack!StoreWrite
<1>7. CASE UNCHANGED vars
  BY <1>7 DEF vars
<1>. QED
  BY <1>1, <1>2, <1>3, <1>4, <1>5, <1>6, <1>7 DEF Next

(***************************************************************************)
(* A position map that is packed into blocks behaves as an array: a step   *)
(* of a level is a step of PMWoram, or one that it does not see.           *)
(***************************************************************************)
LEMMA PlainSimulated ==
  ASSUME J, [Next]_vars
  PROVE  [PlainP!Next]_(PlainP!vars)
<1>. USE DEF J, Link
<1>0. SUFFICES ASSUME Next PROVE PlainP!Next \/ UNCHANGED PlainP!vars
  <2>1. CASE UNCHANGED vars
    <3>1. Map' = Map
      BY <2>1, MapUnchanged DEF vars
    <3>. QED
      BY <2>1, <3>1 DEF vars, PlainP!vars, Map
  <2>. QED
    BY <1>0, <2>1
<1>1. CASE (\E i \in Index : RecLoad(i)) \/ PosmapEvict \/ PosmapFetch \/ Flush
  <2>1. Map' = Map
    BY <1>1, MapUnchanged DEF RecLoad, PosmapEvict, PosmapFetch, Flush
  <2>2. UNCHANGED <<woramVars, callVars>>
    BY <1>1 DEF RecLoad, PosmapEvict, PosmapFetch, Flush
  <2>. QED
    BY <2>1, <2>2 DEF woramVars, callVars, PlainP!vars, Map
<1>2. ASSUME NEW i \in Index, NEW b \in Block, StoreCall(i, b)
      PROVE  PlainP!StoreCall(i, b)
  <2>1. Map' = Map
    BY <1>2, MapUnchanged DEF StoreCall, posmapVars
  <2>. QED
    BY <1>2, <2>1, SameWoram
       DEF StoreCall, PlainP!StoreCall, woramVars, posmapVars, Map
<1>3. CASE StoreRefresh
  <2>1. Map' = Map
    BY <1>3, MapUnchanged, PlainTypes DEF StoreRefresh
  <2>2. PlainP!PosmapLoad(longpos) = Position(longpos)
    BY PlainTypes DEF PlainP!PosmapLoad
  <2>3. PlainP!StoreRefresh
    BY <1>3, <2>1, <2>2, SameWoram DEF StoreRefresh, PlainP!StoreRefresh, Map
  <2>. QED
    BY <2>3 DEF PlainP!Next
<1>4. CASE StoreHold
  <2>1. Map' = Map
    BY <1>4, MapUnchanged DEF StoreHold, posmapVars
  <2>2. PlainP!StoreHold
    BY <1>4, <2>1, SameWoram DEF StoreHold, PlainP!StoreHold, Map
  <2>. QED
    BY <2>2 DEF PlainP!Next
<1>5. CASE PosmapCall
  <2>1. Map' = Map
    BY <1>5, MapUnchanged DEF PosmapCall, Pack!StoreCall
  <2>. QED
    BY <1>5, <2>1 DEF PosmapCall, woramVars, PlainP!vars, Map
<1>6. CASE PosmapWrite
  <2>1. PICK r \in request : request = {r}
    BY <1>6, PlainTypes DEF PosmapWrite
  <2>2. [index |-> r.index, buf |-> newpos] \in posrequest
    BY <1>6, <2>1 DEF PosmapWrite
  <2>3. PackP!Visible' = [PackP!Visible EXCEPT ![r.index] = newpos]
    BY <1>6, <2>2, SamePack, PackOK, PackP!VisibleAfterWrite DEF PosmapWrite
  <2>4. Map' = [Map EXCEPT ![r.index] = newpos]
    BY <2>3, MapIsVisible
  <2>5. PlainP!StorePosition
    BY <1>6, <2>1, <2>4 DEF PosmapWrite, PlainP!StorePosition, woramVars, Map
  <2>. QED
    BY <2>5 DEF PlainP!Next
<1>. QED
  BY <1>0, <1>1, <1>2, <1>3, <1>4, <1>5, <1>6, SameWoram DEF Next, PlainP!Next

LEMMA JInit == Init => J /\ PlainP!Init
<1>. SUFFICES ASSUME Init PROVE J /\ PlainP!Init
  OBVIOUS
<1>1. PackP!Inv
  BY SamePack, PackOK, PackP!InitInv DEF Init
<1>2. Map \in [Index -> InitialPositions]
  <2>1. ASSUME NEW i \in Index
        PROVE  Position(i) \in InitialPositions
    <3>1. i \in PackP!Index
      BY <2>1 DEF Index, PackP!Index
    <3>2. Pack!Outer(i) \in Pack!OuterIndex /\ Pack!Inner(i) \in Pack!InnerIndex
      BY <3>1, PackOK, PackP!IndexSplit
         DEF Pack!Outer, Pack!Inner, Pack!OuterIndex, Pack!InnerIndex,
             PackP!Outer, PackP!Inner, PackP!OuterIndex, PackP!InnerIndex
    <3>3. wind = BackSize /\ rind = BackSize /\ BackSize \notin Pack!OuterIndex
      BY PackOK DEF Init, Pack!Init, Pack!NoBlock, Pack!OuterIndex
    <3>4. Position(i) = back[Pack!Outer(i)][Pack!Inner(i)]
      BY <3>2, <3>3 DEF Position, Pack!LoadedItem
    <3>. QED
      BY <3>2, <3>4 DEF Init
  <2>. QED
    BY <2>1 DEF Map
<1>3. PlainP!Init
  BY <1>2, SameWoram DEF Init, WoramInit, PlainP!Init, PlainP!WoramInit, Map
<1>4. PlainP!Inv
  BY <1>3, PlainInit
<1>5. Link
  BY DEF Init, Pack!Init, Link
<1>. QED
  BY <1>1, <1>3, <1>4, <1>5 DEF J

LEMMA JNext == J /\ [Next]_vars => J'
<1>. SUFFICES ASSUME J, [Next]_vars PROVE J'
  OBVIOUS
<1>1. PackP!Inv'
  BY PackSimulated, PackNext DEF J
<1>2. PlainP!Inv'
  BY PlainSimulated, PlainNext DEF J
<1>. QED
  BY <1>1, <1>2, LinkNext DEF J

LEMMA JAlways == Spec => []J
  BY JInit, JNext, PTL DEF Spec

\* PMWoram is instanced twice, by RecWoram and here.
LEMMA SamePlain == PlainP!Spec => Plain!Spec
<1>1. PlainP!Init => Plain!Init
  BY DEF Plain!Init, PlainP!Init, Plain!WoramInit, PlainP!WoramInit,
         Plain!Index, PlainP!Index, Plain!Slot, PlainP!Slot, Plain!NPtr,
         PlainP!NPtr, Plain!PMax, PlainP!PMax, Plain!Build, PlainP!Build
<1>2. [PlainP!Next]_(PlainP!vars) => [Plain!Next]_(Plain!vars)
  BY DEF Plain!Next, PlainP!Next, Plain!vars, PlainP!vars,
         Plain!StoreCall, PlainP!StoreCall, Plain!StoreRefresh,
         PlainP!StoreRefresh, Plain!StoreHold, PlainP!StoreHold,
         Plain!StorePosition, PlainP!StorePosition, Plain!PosmapLoad,
         PlainP!PosmapLoad, Plain!Index, PlainP!Index, Plain!Slot, PlainP!Slot,
         Plain!BitIndex, PlainP!BitIndex, Plain!Pointer, PlainP!Pointer,
         Plain!NPtr, PlainP!NPtr, Plain!PMax, PlainP!PMax, Plain!Build,
         PlainP!Build, Plain!GetBind, PlainP!GetBind, Plain!GetHold,
         PlainP!GetHold, Plain!GetBitval, PlainP!GetBitval, Plain!NumLtw,
         PlainP!NumLtw, Plain!LtwTarget, PlainP!LtwTarget, Plain!Load,
         PlainP!Load, Plain!LongTermWrite, PlainP!LongTermWrite,
         Plain!MismatchBit, PlainP!MismatchBit, Plain!NewPosition,
         PlainP!NewPosition, Plain!HoldingWrite, PlainP!HoldingWrite
<1>. QED
  BY <1>1, <1>2, PTL DEF Plain!Spec, PlainP!Spec

(***************************************************************************)
(* A level of the recursion implements PMWoram with an array for a         *)
(* position map, for any sizes: PackPosMap always answers with the         *)
(* position stored last, also in the middle of a store.                    *)
(***************************************************************************)
THEOREM RecImplementsPMWoram == Spec => ImplementsPMWoram
<1>1. Spec => PlainP!Spec
  BY JInit, PlainSimulated, JAlways, PTL DEF Spec, PlainP!Spec
<1>. QED
  BY <1>1, SamePlain DEF ImplementsPMWoram

(***************************************************************************)
(* A level of the recursion is a block device, if the next level is one:   *)
(* by induction over the levels, so is the whole of RecWoramFactory.       *)
(***************************************************************************)
THEOREM RecImplementsDevice == Spec => PlainP!ImplementsDevice
<1>1. Spec => PlainP!Spec
  BY JInit, PlainSimulated, JAlways, PTL DEF Spec, PlainP!Spec
<1>2. PlainP!Spec => PlainP!ImplementsDevice
  BY PlainDevice
<1>. QED
  BY <1>1, <1>2
=============================================================================
