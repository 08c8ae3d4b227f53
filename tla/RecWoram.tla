------------------------------ MODULE RecWoram -----------------------------
(***************************************************************************)
(* One level of the recursion of recursive.h: a DetWoram whose position    *)
(* map is a PackPosMap, that is, positions packed into the blocks of the   *)
(* ORAM of the next level (or of the TrivialWoram of the base case), which *)
(* has one half of the memory for itself.                                  *)
(*                                                                         *)
(* The ORAM of the next level is the memory back, a block device: that is  *)
(* what this module shows of its own level, and TrivialWoram of the base   *)
(* case, so that the argument carries through any number of levels.  What  *)
(* remains to be seen is that the two halves of a level work together: the *)
(* loop of ltws loads positions through the caches of PackMem in the       *)
(* middle of a store, and these caches hold positions that the next level  *)
(* has not been told yet.                                                  *)
(***************************************************************************)
EXTENDS DetWoram

CONSTANTS
  BackSize,         \* blocks of the ORAM of the next level
  PerBlock,         \* perblock(): positions in one of its blocks
  InitialBlocks,    \* what the backing memory may hold at the start
  InitialPositions  \* what the next level may

VARIABLES
  request, pc, todo, newpos,                \* the store in progress (PMWoram)
  back,                                     \* the next level
  wblock, wind, wchange, rblock, rind,      \* the caches of PackMem
  posrequest                                \* the call of PackMem::store

MaybePosition == Pointer \cup {NPtr}

Pack == INSTANCE PackMem WITH
  Item <- MaybePosition, BackThrows <- FALSE, request <- posrequest

\* A zeroed memory reads as position 0 everywhere.
ASSUME RecAssumption ==
  /\ BackSize \in Nat \ {0}
  /\ PerBlock \in Nat \ {0}
  /\ Size <= BackSize * PerBlock
  /\ InitialBlocks \subseteq Block
  /\ InitialBlocks # {}
  /\ InitialPositions \subseteq MaybePosition
  /\ InitialPositions # {}
  /\ \A b \in InitialBlocks, p \in InitialPositions \ {NPtr} :
       GetBit(b, GetBind(p)) = GetBitval(p)

posmapVars == <<back, wblock, wind, wchange, rblock, rind, posrequest>>
callVars == <<request, pc, todo, newpos>>
vars == <<longterm, longpos, holding, holdpos, request, pc, todo, newpos,
          back, wblock, wind, wchange, rblock, rind, posrequest>>

Init ==
  /\ WoramInit(InitialBlocks)
  /\ back \in [Pack!OuterIndex -> [Pack!InnerIndex -> InitialPositions]]
  /\ wblock = back[0]
  /\ Pack!Init
  /\ request = {} /\ pc = "idle" /\ todo = 0 /\ newpos = NPtr

\* PMWoram::load: the position comes through the caches of PackMem.
Position(i) == Pack!LoadedItem(i)

RecLoad(i) ==
  /\ pc = "idle"
  /\ Pack!Load(i)
  /\ UNCHANGED <<woramVars, callVars>>

StoreCall(i, b) ==
  /\ pc = "idle"
  /\ request' = {[index |-> i, buf |-> b]}
  /\ pc' = "ltws"
  /\ todo' = NumLtw
  /\ UNCHANGED <<woramVars, posmapVars, newpos>>

\* Mutant of StoreRefresh: the position is taken from the next level, which
\* the write cache is ahead of.
StoreRefreshBehind ==
  /\ pc = "ltws"
  /\ todo # 0
  /\ Pack!Load(longpos)
  /\ LongTermWrite(back[Pack!Outer(longpos)][Pack!Inner(longpos)])
  /\ todo' = todo - 1
  /\ UNCHANGED <<request, pc, newpos>>

\* One turn of the loop of ltws, with a load of the position map.
StoreRefresh ==
  /\ pc = "ltws"
  /\ todo # 0
  /\ Pack!Load(longpos)
  /\ LongTermWrite(Position(longpos))
  /\ todo' = todo - 1
  /\ UNCHANGED <<request, pc, newpos>>

\* The rest of backend->store.
StoreHold ==
  /\ pc = "ltws"
  /\ todo = 0
  /\ \E r \in request :
       /\ newpos' = NewPosition(r.index, r.buf)
       /\ HoldingWrite(r.buf)
  /\ pc' = "posmap"
  /\ UNCHANGED <<posmapVars, request, todo>>

\* PackPosMap::store calls PackMem::store.
PosmapCall ==
  /\ pc = "posmap"
  /\ \E r \in request : Pack!StoreCall(r.index, newpos)
  /\ pc' = "pack"
  /\ UNCHANGED <<woramVars, request, todo, newpos>>

\* PackMem writes a block of positions to the next level, which runs a whole
\* store of its own, or fetches one from there.
PosmapEvict ==
  /\ pc = "pack"
  /\ Pack!StoreEvict
  /\ UNCHANGED <<woramVars, callVars>>

PosmapFetch ==
  /\ pc = "pack"
  /\ Pack!StoreFetch
  /\ UNCHANGED <<woramVars, callVars>>

\* The position is set, and all calls return.
PosmapWrite ==
  /\ pc = "pack"
  /\ Pack!StoreWrite
  /\ request' = {}
  /\ pc' = "idle"
  /\ UNCHANGED <<woramVars, todo, newpos>>

\* PMWoram::flush
Flush ==
  /\ pc = "idle"
  /\ Pack!Flush
  /\ UNCHANGED <<woramVars, callVars>>

Next ==
  \/ \E i \in Index : RecLoad(i)
  \/ \E i \in Index, b \in Block : StoreCall(i, b)
  \/ StoreRefresh
  \/ StoreHold
  \/ PosmapCall
  \/ PosmapEvict
  \/ PosmapFetch
  \/ PosmapWrite
  \/ Flush

Spec == Init /\ [][Next]_vars
-----------------------------------------------------------------------------
(***************************************************************************)
(* A level of the recursion is the ORAM of PMWoram.tla with an array for a *)
(* position map: whatever the caches of PackMem hold, and wherever in a    *)
(* store they are consulted, refilled and written back, every position     *)
(* that the ORAM acts on is the one stored last.  PMWoram implements the   *)
(* block device, so a level may serve as the memory back of the level      *)
(* above it.                                                               *)
(***************************************************************************)
Plain == INSTANCE PMWoram WITH
  posmap <- [i \in Index |-> Position(i)],
  pc <- IF pc = "pack" THEN "posmap" ELSE pc

ImplementsPMWoram == Plain!Spec
=============================================================================
