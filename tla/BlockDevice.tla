---------------------------- MODULE BlockDevice ----------------------------
(***************************************************************************)
(* What a Memory promises (the archetype of memory.h, which every memory   *)
(* and every write-only ORAM of the library follows): an array of blocks   *)
(* in which a call store(index, buf) changes the block at index, when it   *)
(* returns, and nothing else, and in which load(index, buf) and flush()    *)
(* change nothing a caller can see.                                        *)
(*                                                                         *)
(* The library is called by one thread, so at most one store is in         *)
(* progress.  A memory whose capacity is limited may refuse a store by     *)
(* throwing; the store then has no effect (MayRefuse).                     *)
(***************************************************************************)
CONSTANTS
  Index,      \* the indices 0 .. size()-1
  Block,      \* the possible contents of a block
  MayRefuse   \* TRUE for a memory whose store can throw

VARIABLES
  contents,   \* contents[i] is what load(i, buf) puts into buf
  request     \* {} or the one store that has been called and not returned

deviceVars == <<contents, request>>

Request == [index : Index, buf : Block]

DeviceInit ==
  /\ contents \in [Index -> Block]
  /\ request = {}

CallStore(i, b) ==
  /\ request = {}
  /\ request' = {[index |-> i, buf |-> b]}
  /\ UNCHANGED contents

ReturnStore ==
  \E r \in request :
    /\ contents' = [contents EXCEPT ![r.index] = r.buf]
    /\ request' = {}

RefuseStore ==
  /\ MayRefuse
  /\ request # {}
  /\ request' = {}
  /\ UNCHANGED contents

DeviceNext ==
  \/ \E i \in Index, b \in Block : CallStore(i, b)
  \/ ReturnStore
  \/ RefuseStore

DeviceSpec == DeviceInit /\ [][DeviceNext]_deviceVars
=============================================================================
