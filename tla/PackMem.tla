------------------------------ MODULE PackMem ------------------------------
(***************************************************************************)
(* Small blocks packed into the blocks of a backend memory (pack.h), with  *)
(* one block of write cache, written back when the next store leaves it or *)
(* at flush, and one block of read cache.  The caches must never disagree: *)
(* a load that misses the write cache is answered from the read cache or   *)
(* the backend, a store may take its block over from the read cache.       *)
(*                                                                         *)
(* The backend is any Memory; one with a OneWriteWoram in it throws when   *)
(* its capacity is used up, in the middle of a store or a flush.           *)
(***************************************************************************)
EXTENDS Integers

CONSTANTS
  BackSize,   \* Backend::size()
  PerBlock,   \* perblock(): small blocks in a block of the backend
  Size,       \* size(): small blocks in use
  Item,       \* the contents of a small block
  BackThrows  \* TRUE for a backend whose store may throw

ASSUME PackAssumption ==
  /\ BackSize \in Nat \ {0}
  /\ PerBlock \in Nat \ {0}
  /\ Size \in 1 .. BackSize * PerBlock
  /\ Item # {}
  /\ BackThrows \in BOOLEAN

Index == 0 .. Size - 1
OuterIndex == 0 .. BackSize - 1
InnerIndex == 0 .. PerBlock - 1
BackBlock == [InnerIndex -> Item]

\* wind and rind are Backend::size() while the cache holds no block.
NoBlock == BackSize

VARIABLES
  back,     \* the backend memory
  wblock,   \* the write cache ...
  wind,     \* ... holds the backend's block wind ...
  wchange,  \* ... and differs from it
  rblock,   \* the read cache ...
  rind,     \* ... holds the backend's block rind
  request   \* {} or the store in progress

vars == <<back, wblock, wind, wchange, rblock, rind, request>>

TypeOK ==
  /\ back \in [OuterIndex -> BackBlock]
  /\ wblock \in BackBlock
  /\ wind \in OuterIndex \cup {NoBlock}
  /\ wchange \in BOOLEAN
  /\ rblock \in BackBlock
  /\ rind \in OuterIndex \cup {NoBlock}
  /\ request \in SUBSET [index : Index, buf : Item]
  /\ \A r, s \in request : r = s

Outer(index) == index \div PerBlock
Inner(index) == index % PerBlock

\* The caches are not initialised; nothing reads them before they are filled.
Init ==
  /\ back \in [OuterIndex -> BackBlock]
  /\ wblock \in BackBlock
  /\ wind = NoBlock
  /\ wchange = FALSE
  /\ rblock = wblock
  /\ rind = NoBlock
  /\ request = {}

\* What load puts into buf.
LoadedItem(index) ==
  IF Outer(index) = wind THEN wblock[Inner(index)]
  ELSE IF Outer(index) = rind THEN rblock[Inner(index)]
  ELSE back[Outer(index)][Inner(index)]

Load(index) ==
  /\ request = {}
  /\ IF Outer(index) \notin {wind, rind}
     THEN /\ rblock' = back[Outer(index)]
          /\ rind' = Outer(index)
     ELSE UNCHANGED <<rblock, rind>>
  /\ UNCHANGED <<back, wblock, wind, wchange, request>>

StoreCall(index, buf) ==
  /\ request = {}
  /\ request' = {[index |-> index, buf |-> buf]}
  /\ UNCHANGED <<back, wblock, wind, wchange, rblock, rind>>

\* Mutant of WriteBack: the cache is marked clean without being written.
WriteBackLost ==
  /\ wchange
  /\ wchange' = FALSE
  /\ UNCHANGED <<back, wblock, wind, rblock, rind>>

\* back->store(wind, wblock), in store and in flush.
WriteBack ==
  /\ wchange
  /\ back' = [back EXCEPT ![wind] = wblock]
  /\ wchange' = FALSE
  /\ UNCHANGED <<wblock, wind, rblock, rind>>

\* A store that is about to leave a dirty write cache writes it back first.
StoreEvict ==
  /\ \E r \in request : Outer(r.index) # wind
  /\ WriteBack
  /\ UNCHANGED request

\* back->store throws, and so does store.
StoreThrows ==
  /\ BackThrows
  /\ \E r \in request : Outer(r.index) # wind
  /\ wchange
  /\ request' = {}
  /\ UNCHANGED <<back, wblock, wind, wchange, rblock, rind>>

\* Mutants of StoreFetch: wind is set to the index of the small block; the
\* read cache keeps the block it hands over.
StoreFetchIndex ==
  /\ ~wchange
  /\ \E r \in request :
       /\ Outer(r.index) # wind
       /\ wblock' = IF Outer(r.index) = rind
                    THEN rblock
                    ELSE back[Outer(r.index)]
       /\ wind' = r.index
  /\ rind' = NoBlock
  /\ UNCHANGED <<back, wchange, rblock, request>>

StoreFetchShared ==
  /\ ~wchange
  /\ \E r \in request :
       /\ Outer(r.index) # wind
       /\ wblock' = IF Outer(r.index) = rind
                    THEN rblock
                    ELSE back[Outer(r.index)]
       /\ wind' = Outer(r.index)
  /\ UNCHANGED <<back, wchange, rblock, rind, request>>

\* The write cache takes its new block from the read cache, which gives it
\* up, or from the backend.
StoreFetch ==
  /\ ~wchange
  /\ \E r \in request :
       /\ Outer(r.index) # wind
       /\ IF Outer(r.index) = rind
          THEN /\ wblock' = rblock
               /\ rind' = NoBlock
          ELSE /\ wblock' = back[Outer(r.index)]
               /\ rind' = rind
       /\ wind' = Outer(r.index)
  /\ UNCHANGED <<back, wchange, rblock, request>>

\* The small block is put into the write cache, and store returns.
StoreWrite ==
  /\ \E r \in request :
       /\ Outer(r.index) = wind
       /\ wblock' = [wblock EXCEPT ![Inner(r.index)] = r.buf]
  /\ wchange' = TRUE
  /\ request' = {}
  /\ UNCHANGED <<back, wind, rblock, rind>>

\* A flush that finds the write cache clean, or whose back->store throws,
\* changes nothing.
Flush ==
  /\ request = {}
  /\ WriteBack
  /\ UNCHANGED request

Next ==
  \/ \E index \in Index : Load(index)
  \/ \E index \in Index, buf \in Item : StoreCall(index, buf)
  \/ StoreEvict
  \/ StoreThrows
  \/ StoreFetch
  \/ StoreWrite
  \/ Flush

Spec == Init /\ [][Next]_vars
-----------------------------------------------------------------------------
(***************************************************************************)
(* The caches agree with the backend and with each other: the read cache   *)
(* is a copy of a block that is not in the write cache, and the write      *)
(* cache is a copy unless wchange says that it is newer.                   *)
(***************************************************************************)
CachesCoherent ==
  /\ rind # NoBlock => rind # wind /\ rblock = back[rind]
  /\ wind # NoBlock /\ ~wchange => wblock = back[wind]
  /\ wchange => wind # NoBlock

(***************************************************************************)
(* PackMem is a block device of small blocks, whatever the caches hold: a  *)
(* store changes its own index when it returns, or nothing when the        *)
(* backend throws; loads, write-backs and flushes cannot be seen.          *)
(***************************************************************************)
Visible == [index \in Index |-> LoadedItem(index)]

Device == INSTANCE BlockDevice WITH
  Block <- Item, contents <- Visible, MayRefuse <- BackThrows

ImplementsDevice == Device!DeviceSpec

(***************************************************************************)
(* After a flush the backend holds everything that was stored.             *)
(***************************************************************************)
FlushPersists ==
  [][Flush =>
       \A index \in Index :
         back'[Outer(index)][Inner(index)] = LoadedItem(index)]_vars
=============================================================================
