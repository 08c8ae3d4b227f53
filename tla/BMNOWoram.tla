----------------------------- MODULE BMNOWoram -----------------------------
(***************************************************************************)
(* The randomised write-only ORAM of bmno.h.  A stored block goes into a   *)
(* stash in RAM; then K random positions of the primary memory are         *)
(* rewritten, and each of them that holds no live block receives one from  *)
(* the stash.  The metadata say which index was last written to a          *)
(* position; it is live there iff the position map still agrees.           *)
(*                                                                         *)
(* Both classes of bmno.h are modelled: BMNOWoram (Rec = FALSE) rewrites   *)
(* at the end of every store and encrypts; BMNOWoramRec (Rec = TRUE), in   *)
(* which the position map of another BMNO ORAM is kept, rewrites when      *)
(* commit is called and does not encrypt.  Encryption is modelled by what  *)
(* it does to a block that is written under the wrong IV or under none:    *)
(* it decrypts to Garbled.                                                 *)
(*                                                                         *)
(* bmno_fact stacks these ORAMs: the position map of each is a             *)
(* CommitPosMap, positions packed into the blocks of the next, a           *)
(* BMNOWoramRec, down to a BasePosMap.  What one level promises is what    *)
(* this module shows of it, no more: the blocks that have been stored are  *)
(* loaded (StoredIsLoaded), while a block that has never been stored reads *)
(* as whatever lies at a position that nobody has set, and changes when    *)
(* others write there.  So the map loads the position stored last or, if   *)
(* there is none, anything at any time (MapLoad).                          *)
(***************************************************************************)
EXTENDS Integers, Sequences, FiniteSets, SequencesExt

CONSTANTS
  Rec,               \* which class
  Size,              \* size(): number of indices
  K,                 \* positions rewritten at a time
  PriSize,           \* Pri::size(): blocks of the primary memory
  StashLen,          \* stashlen(): capacity of the stash
  Block, Zero,       \* the contents of a block; the block of zeros
  Garbled,           \* what decryption makes of a block it did not encrypt
  UnsetPositions,    \* what the map may load for an index not yet stored
  InitialOwners,     \* what the metadata may
  MaxStores,         \* bound on the number of stores (for TLC)
  MaxFlushes         \* bound on the number of flushes (for TLC)

PMax == PriSize - StashLen
Position == 0 .. PMax
Index == 0 .. Size - 1

\* All positions above pmax() mean the same to load, as do all indices above
\* size() - 1 in the metadata.
NoPosition == PMax + 1
NoIndex == Size

\* The static_assert is "need room for stash and mem in BMNO".
ASSUME BMNOAssumption ==
  /\ Rec \in BOOLEAN
  /\ Size \in Nat \ {0}
  /\ StashLen \in Nat \ {0}
  /\ PriSize \in Nat
  /\ PriSize > StashLen + Size
  /\ K \in 1 .. PMax + 1
  /\ Zero \in Block
  /\ Garbled \notin Block
  /\ UnsetPositions \subseteq Position \cup {NoPosition}
  /\ InitialOwners \subseteq Index \cup {NoIndex}
  /\ MaxStores \in Nat
  /\ MaxFlushes \in Nat

VARIABLES
  primary,   \* the primary memory up to pmax(), decrypted
  meta,      \* the metadata: the index last written to each position
  posmap,    \* the position map: the position stored last
  stash,     \* the stash: blocks, also those no longer in use ...
  stashloc,  \* ... and the indices of those in use
  request,   \* {} or the store that is about to put its block into the stash
  pc,        \* "idle", "stash", "rewrite" or "aborted"
  used,      \* the positions rewritten so far by this store or commit
  contents,  \* history: the block stored last, by index
  lost,      \* history: indices whose block a flush has changed
  stores,    \* the number of stores so far
  flushes    \* the number of flushes so far

vars == <<primary, meta, posmap, stash, stashloc, request, pc, used, contents,
          lost, stores, flushes>>

StashSlot == 0 .. StashLen - 1
Stashed == ToSet(stashloc)

TypeOK ==
  /\ primary \in [Position -> Block \cup {Garbled}]
  /\ meta \in [Position -> Index \cup {NoIndex}]
  /\ posmap \in [Index -> Position \cup {NoPosition}]
  /\ stash \in [StashSlot -> Block]
  /\ stashloc \in Seq(Index) /\ Len(stashloc) <= StashLen
  /\ request \in SUBSET [index : Index, buf : Block]
  /\ pc \in {"idle", "stash", "rewrite", "aborted"}
  /\ used \subseteq Position
  /\ DOMAIN contents \subseteq Index
  /\ lost \subseteq Index
  /\ stores \in 0 .. MaxStores
  /\ flushes \in 0 .. MaxFlushes

\* A zeroed metadata memory decrypts to anything.  The blocks at the positions
\* are not looked at before they are written, unless the caller loads what it
\* has not stored.
Init ==
  /\ primary \in [Position -> {Zero}]
  /\ meta \in [Position -> InitialOwners]
  /\ posmap = [i \in Index |-> NoPosition]
  /\ stash = [si \in StashSlot |-> Zero]
  /\ stashloc = <<>>
  /\ request = {}
  /\ pc = "idle"
  /\ used = {}
  /\ contents = <<>>
  /\ lost = {}
  /\ stores = 0
  /\ flushes = 0

\* The slot of the stash that holds an index.
StashIndex(index) ==
  CHOOSE si \in StashSlot : si < Len(stashloc) /\ stashloc[si + 1] = index

\* The positions that posmap->load may return.
MapLoad(index) ==
  IF posmap[index] = NoPosition THEN UnsetPositions ELSE {posmap[index]}

\* What load may put into buf: the stash comes first.
Load(index) ==
  IF index \in Stashed THEN {stash[StashIndex(index)]}
  ELSE {IF position > PMax THEN Zero ELSE primary[position] :
          position \in MapLoad(index)}

StoreCall(index, buf) ==
  /\ pc = "idle"
  /\ stores < MaxStores
  /\ stores' = stores + 1
  /\ request' = {[index |-> index, buf |-> buf]}
  /\ pc' = "stash"
  /\ UNCHANGED <<primary, meta, posmap, stash, stashloc, used, contents, lost,
                 flushes>>

\* Mutant of StashBlock: the stash is neither searched nor checked for room.
StashBlockAgain ==
  /\ pc = "stash"
  /\ \E r \in request :
       /\ stash' = [stash EXCEPT ![Len(stashloc)] = r.buf]
       /\ stashloc' = Append(stashloc, r.index)
       /\ contents' = [i \in DOMAIN contents \cup {r.index} |->
                         IF i = r.index THEN r.buf ELSE contents[i]]
       /\ lost' = lost \ {r.index}
  /\ request' = {}
  /\ pc' = IF Rec THEN "idle" ELSE "rewrite"
  /\ UNCHANGED <<primary, meta, posmap, used, stores, flushes>>

\* The first half of store.
StashBlock ==
  /\ pc = "stash"
  /\ \E r \in request :
       /\ \/ /\ r.index \in Stashed
             /\ stash' = [stash EXCEPT ![StashIndex(r.index)] = r.buf]
             /\ UNCHANGED stashloc
          \/ /\ r.index \notin Stashed
             /\ Len(stashloc) < StashLen
             /\ stash' = [stash EXCEPT ![Len(stashloc)] = r.buf]
             /\ stashloc' = Append(stashloc, r.index)
       /\ contents' = [i \in DOMAIN contents \cup {r.index} |->
                         IF i = r.index THEN r.buf ELSE contents[i]]
       /\ lost' = lost \ {r.index}
  /\ request' = {}
  /\ pc' = IF Rec THEN "idle" ELSE "rewrite"
  /\ UNCHANGED <<primary, meta, posmap, used, stores, flushes>>

\* "STASH OVERFLOW": the program aborts.
StashOverflow ==
  /\ pc = "stash"
  /\ \A r \in request : r.index \notin Stashed
  /\ Len(stashloc) = StashLen
  /\ pc' = "aborted"
  /\ UNCHANGED <<primary, meta, posmap, stash, stashloc, request, used,
                 contents, lost, stores, flushes>>

\* BMNOWoramRec::commit
Commit ==
  /\ Rec
  /\ pc = "idle"
  /\ pc' = "rewrite"
  /\ UNCHANGED <<primary, meta, posmap, stash, stashloc, request, used,
                 contents, lost, stores, flushes>>

\* Mutant of MayReplace: neither the metadata nor the map are asked.
MayReplaceAlways(curpos) == stashloc # <<>>

\* The position receives a block from the stash if no index is live there ...
MayReplace(curpos) ==
  /\ stashloc # <<>>
  /\ \/ meta[curpos] \notin Index
     \/ /\ meta[curpos] \in Index
        /\ MapLoad(meta[curpos]) # {curpos}

\* ... and is rewritten with what it holds otherwise.
MayRetain(curpos) ==
  \/ stashloc = <<>>
  \/ meta[curpos] \in Index /\ curpos \in MapLoad(meta[curpos])

\* Mutant of Replace: the metadata are not set.
ReplaceUnowned(curpos) ==
  LET top == Len(stashloc)
  IN  /\ primary' = [primary EXCEPT ![curpos] = stash[top - 1]]
      /\ posmap' = [posmap EXCEPT ![stashloc[top]] = curpos]
      /\ stashloc' = SubSeq(stashloc, 1, top - 1)
      /\ UNCHANGED meta

\* The last block of the stash goes to curpos.
Replace(curpos) ==
  LET top == Len(stashloc)
  IN  /\ primary' = [primary EXCEPT ![curpos] = stash[top - 1]]
      /\ meta' = [meta EXCEPT ![curpos] = stashloc[top]]
      /\ posmap' = [posmap EXCEPT ![stashloc[top]] = curpos]
      /\ stashloc' = SubSeq(stashloc, 1, top - 1)

\* One random position is rewritten; after the last one the call returns.
\* (The commit of the position map that comes first changes nothing that the
\* map loads.)
Rewrite(curpos) ==
  /\ pc = "rewrite"
  /\ curpos \notin used
  /\ \/ MayReplace(curpos) /\ Replace(curpos)
     \/ MayRetain(curpos) /\ UNCHANGED <<primary, meta, posmap, stashloc>>
  /\ IF Cardinality(used) + 1 = K
     THEN pc' = "idle" /\ used' = {}
     ELSE pc' = pc /\ used' = used \cup {curpos}
  /\ UNCHANGED <<stash, request, contents, lost, stores, flushes>>

\* flush: the stash is copied to the end of the primary memory, as it is.  The
\* map's own flush is taken to lose nothing, as that of a LocalPosMap or of a
\* BasePosMap does.  (FlushTargetLower is a mutant.)
FlushTargetLower(si) == PriSize - si - 2

FlushTarget(si) == PriSize - si - 1

Flush ==
  /\ pc = "idle"
  /\ flushes < MaxFlushes
  /\ LET flushed == [p \in Position |->
                       IF \E si \in StashSlot : FlushTarget(si) = p
                       THEN IF Rec
                            THEN stash[CHOOSE si \in StashSlot :
                                         FlushTarget(si) = p]
                            ELSE Garbled
                       ELSE primary[p]]
     IN  /\ primary' = flushed
         /\ lost' = lost \cup
                      {i \in DOMAIN contents \ Stashed :
                         flushed[posmap[i]] # primary[posmap[i]]}
  /\ flushes' = flushes + 1
  /\ UNCHANGED <<meta, posmap, stash, stashloc, request, pc, used, contents,
                 stores>>

Next ==
  \/ \E index \in Index, buf \in Block : StoreCall(index, buf)
  \/ StashBlock
  \/ StashOverflow
  \/ Commit
  \/ \E curpos \in Position : Rewrite(curpos)
  \/ Flush

Spec == Init /\ [][Next]_vars
-----------------------------------------------------------------------------
(***************************************************************************)
(* A block that has left the stash is never taken for free space: the      *)
(* metadata of its position name its index, so no other block is written   *)
(* there.  The position is the one the position map knows, although        *)
(* metadata and map are updated at different times, both start as garbage, *)
(* and what the map says of indices not yet stored changes under way.      *)
(***************************************************************************)
OwnerKnown ==
  \A i \in DOMAIN contents \ Stashed :
    posmap[i] <= PMax /\ meta[posmap[i]] = i

\* An index has one block in the stash, the newest.
StashDistinct == IsInjective(stashloc)

(***************************************************************************)
(* What has been stored is what load returns, in the middle of a rewrite   *)
(* too, except for the blocks that a flush has overwritten (lost).  This   *)
(* is the promise of a block device for the indices that have been stored; *)
(* of the others a position map that is garbage to begin with says nothing.*)
(***************************************************************************)
StoredIsLoaded ==
  \A i \in DOMAIN contents \ lost : Load(i) = {contents[i]}

(***************************************************************************)
(* A flush is harmless to every block but the one at position pmax().      *)
(***************************************************************************)
LostOnlyAtPMax == \A i \in lost : posmap[i] = PMax

(***************************************************************************)
(* A flush loses no block: the stash and the blocks have room of their own *)
(* (the static_assert of the class).                                       *)
(***************************************************************************)
NothingLost == lost = {}

=============================================================================
