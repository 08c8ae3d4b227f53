------------------------------ MODULE PMWoram ------------------------------
(***************************************************************************)
(* A complete write-only ORAM (PMWoram of woram.h): a DetWoram and a       *)
(* position map that is an array, LocalPosMap of posmap.h.  A store goes   *)
(* through the steps below in order; loads are allowed between calls only, *)
(* since one thread makes all calls.                                       *)
(*                                                                         *)
(* LocalPosMap starts with null positions.  PackPosMap, the map that       *)
(* recursive.h puts in its place, starts with what its memory holds: the   *)
(* position 0 if that is zeroed.  This is harmless as long as the homes    *)
(* agree with the bit that the position remembers (InitialAssumption).     *)
(***************************************************************************)
EXTENDS DetWoram

CONSTANTS
  InitialBlocks,    \* what the backing memory may hold at the start
  InitialPositions  \* what the position map may

ASSUME InitialAssumption ==
  /\ InitialBlocks \subseteq Block
  /\ InitialBlocks # {}
  /\ InitialPositions \subseteq Pointer \cup {NPtr}
  /\ InitialPositions # {}
  /\ \A b \in InitialBlocks, p \in InitialPositions \ {NPtr} :
       GetBit(b, GetBind(p)) = GetBitval(p)

VARIABLES
  posmap,   \* the position map: the position of every index
  request,  \* {} or the store in progress
  pc,       \* where that store is: "idle", "ltws" or "posmap"
  todo,     \* turns left in the loop of ltws
  newpos    \* the position that backend->store returned

vars == <<longterm, longpos, holding, holdpos,
          posmap, request, pc, todo, newpos>>

TypeOK ==
  /\ WoramTypeOK
  /\ posmap \in [Index -> Pointer \cup {NPtr}]
  /\ pc \in {"idle", "ltws", "posmap"}
  /\ request \in SUBSET [index : Index, buf : Block]
  /\ pc = "idle" <=> request = {}
  /\ \A r, s \in request : r = s
  /\ todo \in 0 .. Size
  /\ newpos \in Pointer \cup {NPtr}

Init ==
  /\ WoramInit(InitialBlocks)
  /\ posmap \in [Index -> InitialPositions]
  /\ request = {}
  /\ pc = "idle"
  /\ todo = 0
  /\ newpos = NPtr

\* LocalPosMap::load
PosmapLoad(i) == posmap[i]

\* PMWoram::load: the null position of the map becomes that of the ORAM.
PMLoad(i) == Load(i, PosmapLoad(i))

\* PMWoram::store is called; backend->store enters ltws.
StoreCall(i, b) ==
  /\ pc = "idle"
  /\ request' = {[index |-> i, buf |-> b]}
  /\ pc' = "ltws"
  /\ todo' = NumLtw
  /\ UNCHANGED <<longterm, longpos, holding, holdpos, posmap, newpos>>

\* Mutant of StoreRefresh: the loop runs until longpos has reached its target
\* instead of num_ltw times.
StoreRefreshUntilTarget ==
  /\ pc = "ltws"
  /\ todo # 0
  /\ LongTermWrite(PosmapLoad(longpos))
  /\ todo' = LtwTarget(holdpos) - longpos'
  /\ UNCHANGED <<posmap, request, pc, newpos>>

\* One turn of the loop of ltws.
StoreRefresh ==
  /\ pc = "ltws"
  /\ todo # 0
  /\ LongTermWrite(PosmapLoad(longpos))
  /\ todo' = todo - 1
  /\ UNCHANGED <<posmap, request, pc, newpos>>

\* The rest of backend->store.
StoreHold ==
  /\ pc = "ltws"
  /\ todo = 0
  /\ \E r \in request :
       /\ newpos' = NewPosition(r.index, r.buf)
       /\ HoldingWrite(r.buf)
  /\ pc' = "posmap"
  /\ UNCHANGED <<posmap, request, todo>>

\* posmap->store(index, pos), and PMWoram::store returns.
StorePosition ==
  /\ pc = "posmap"
  /\ \E r \in request : posmap' = [posmap EXCEPT ![r.index] = newpos]
  /\ request' = {}
  /\ pc' = "idle"
  /\ UNCHANGED <<longterm, longpos, holding, holdpos, todo, newpos>>

Next ==
  \/ \E i \in Index, b \in Block : StoreCall(i, b)
  \/ StoreRefresh
  \/ StoreHold
  \/ StorePosition

Spec == Init /\ [][Next]_vars

\* A call that has been made runs to its end.
Fairness == WF_vars(StoreRefresh \/ StoreHold \/ StorePosition)

FairSpec == Spec /\ Fairness
-----------------------------------------------------------------------------
\* How far the refresh has come in the current round of the holding area:
\* what longpos would be if it did not return to 0 at the end of the area.
Progress ==
  IF pc = "ltws"
  THEN LtwTarget(holdpos) - todo
  ELSE IF holdpos = 0 THEN 0 ELSE LtwTarget(holdpos - 1)

\* The refresh keeps exactly in step with the ring, so that num_ltw, an
\* unsigned subtraction in ltws, never wraps.
InStep ==
  /\ Progress \in 0 .. Size
  /\ longpos = IF Progress = Size THEN 0 ELSE Progress
  /\ pc = "idle" => NumLtw \in 0 .. Size

\* Index i is read from slot GetHold(position) of the holding area.
ReadsHolding(i, position) ==
  /\ position # NPtr
  /\ GetBit(longterm[i], GetBind(position)) # GetBitval(position)

\* The refresh has not yet visited index i since slot h was last written,
\* when it has come as far as p in the round that writes slot k next.
NotYetVisited(i, h, k, p) ==
  LET start == LtwTarget(h)
  IN  IF h < k THEN ~(start <= i /\ i < p)
               ELSE p <= i /\ i < start

\* Whoever is read from the holding area can rely on its slot until the
\* refresh reaches him, and is told the truth by his bit afterwards.
HoldingReliable ==
  \A i \in Index :
    ReadsHolding(i, posmap[i]) =>
      LET h == GetHold(posmap[i])
      IN  /\ NotYetVisited(i, h, holdpos, Progress)
          /\ GetBit(holding[h], GetBind(posmap[i])) = GetBitval(posmap[i])

\* Between the write of the new block and the update of the position map,
\* the position in hand names the slot just written.
PositionInHand ==
  pc = "posmap" =>
    /\ newpos # NPtr
    /\ GetHold(newpos) = IF holdpos = 0 THEN HoldSize - 1 ELSE holdpos - 1
    /\ \A r \in request :
         /\ holding[GetHold(newpos)] = r.buf
         /\ GetBit(r.buf, GetBind(newpos)) = GetBitval(newpos)
         /\ Load(r.index, newpos) = r.buf

(***************************************************************************)
(* A slot of the holding area is overwritten only when no index is read    *)
(* from it any more (the heart of store in detworam.h: ltws runs before    *)
(* holding->store).                                                        *)
(***************************************************************************)
SlotReusable ==
  pc = "ltws" /\ todo = 0 =>
    \A i \in Index :
      ReadsHolding(i, posmap[i]) => GetHold(posmap[i]) # holdpos

(***************************************************************************)
(* The ORAM is a block device: no step of a store, and no refresh of the   *)
(* long-term area, changes what load returns for any index, until the      *)
(* store returns and exactly its own index has changed (the promise        *)
(* test_plainworam.cpp samples: TEST(temp == check[index])).               *)
(***************************************************************************)
Visible == [i \in Index |-> PMLoad(i)]

Device == INSTANCE BlockDevice WITH contents <- Visible, MayRefuse <- FALSE

ImplementsDevice == Device!DeviceSpec

(***************************************************************************)
(* Every store returns: the loop of ltws ends, whatever the sizes.         *)
(***************************************************************************)
StoreReturns == pc # "idle" ~> pc = "idle"
=============================================================================
