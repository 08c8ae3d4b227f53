--------------------------- MODULE OneWriteWoram ---------------------------
(***************************************************************************)
(* The plain ORAM that writes every block of its backend once (woram.h,    *)
(* OneWriteWoram), with the array position map LocalPosMap, joined by      *)
(* PMWoram.  Its capacity is used up by stores and by dummy writes alike,  *)
(* and from then on store throws: the caller must be left with what it had.*)
(***************************************************************************)
EXTENDS OneWrite

CONSTANTS
  Size,       \* size(): number of indices
  Block,      \* the contents of a block
  ZeroBlock,  \* the block of zeros
  Unreadable  \* stands for a load that throws

\* What the code requires of the constants.
OneWriteOK ==
  /\ Size \in Nat \ {0}
  /\ BackSize \in Nat \ {0}
  /\ ZeroBlock \in Block
  /\ Unreadable \notin Block

VARIABLES
  posmap,   \* LocalPosMap
  request,  \* {} or the store in progress
  pc,       \* where it is: "idle", "write" or "posmap"
  newpos    \* the position that backend->store returned

vars == <<backend, nextpos, posmap, request, pc, newpos>>

Index == 0 .. Size - 1

TypeOK ==
  /\ backend \in [0 .. BackSize - 1 -> Block]
  /\ nextpos \in 0 .. MaxWrites
  /\ posmap \in [Index -> 0 .. NPtr]
  /\ request \in SUBSET [index : Index, buf : Block]
  /\ pc \in {"idle", "write", "posmap"}
  /\ newpos \in 0 .. NPtr
  /\ \A r, s \in request : r = s
  /\ pc = "idle" <=> request = {}

Init ==
  /\ backend = [p \in 0 .. BackSize - 1 |-> ZeroBlock]
  /\ nextpos = 0
  /\ posmap = [i \in Index |-> NPtr]
  /\ request = {}
  /\ pc = "idle"
  /\ newpos = NPtr

\* PMWoram::load; the backend has no block NPtr and throws.
Load(index) ==
  IF posmap[index] = NPtr THEN Unreadable ELSE LoadBlock(posmap[index])

StoreCall(index, buf) ==
  /\ pc = "idle"
  /\ request' = {[index |-> index, buf |-> buf]}
  /\ pc' = "write"
  /\ UNCHANGED <<backend, nextpos, posmap, newpos>>

StoreBlock ==
  /\ pc = "write"
  /\ \E r \in request : WriteBlock(r.buf)
  /\ newpos' = nextpos
  /\ pc' = "posmap"
  /\ UNCHANGED <<posmap, request>>

StoreThrows ==
  /\ pc = "write"
  /\ Exhausted
  /\ request' = {}
  /\ pc' = "idle"
  /\ UNCHANGED <<backend, nextpos, posmap, newpos>>

StorePosition ==
  /\ pc = "posmap"
  /\ \E r \in request : posmap' = [posmap EXCEPT ![r.index] = newpos]
  /\ request' = {}
  /\ pc' = "idle"
  /\ UNCHANGED <<backend, nextpos, newpos>>

\* dummy_write, which throws without effect when the capacity is used up.
\* It is called by whoever shares the plain ORAM, as TrieNodePM does.
DummyWrite ==
  /\ pc = "idle"
  /\ WriteBlock(ZeroBlock)
  /\ UNCHANGED <<posmap, request, pc, newpos>>

Next ==
  \/ \E index \in Index, buf \in Block : StoreCall(index, buf)
  \/ StoreBlock
  \/ StoreThrows
  \/ StorePosition
  \/ DummyWrite

Spec == Init /\ [][Next]_vars
-----------------------------------------------------------------------------
(***************************************************************************)
(* Written blocks are never written again: the positions in the map, and   *)
(* the one in hand, are those of different blocks below nextpos.           *)
(***************************************************************************)
PositionsWritten ==
  /\ \A i, j \in Index : posmap[i] = posmap[j] /\ i # j => posmap[i] = NPtr
  /\ \A i \in Index : posmap[i] # NPtr => posmap[i] < nextpos
  /\ pc = "posmap" => newpos < nextpos /\ \A i \in Index : posmap[i] # newpos

(***************************************************************************)
(* Up to the end of its capacity and beyond it, the ORAM is a block device *)
(* that refuses stores without effect.                                     *)
(***************************************************************************)
Visible == [i \in Index |-> Load(i)]

Device == INSTANCE BlockDevice WITH
  Block <- Block \cup {Unreadable}, contents <- Visible, MayRefuse <- TRUE

ImplementsDevice == Device!DeviceSpec
=============================================================================
