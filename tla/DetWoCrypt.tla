---------------------------- MODULE DetWoCrypt ----------------------------
(***************************************************************************)
(* The encrypted ORAM that DetWoCryptTrie of triepm.h puts together: a     *)
(* DetWoram whose areas are the two halves of one memory under             *)
(* counter-mode encryption.  CtrCrypt throws when it is not written        *)
(* sequentially and decrypts with whatever counter the order of writes     *)
(* implies, and what it returns for a block that was never written is the  *)
(* pad of a counter that was never used.  DetWoram knows nothing of this;  *)
(* the two must fit.  The position map is an array here; the trie's memory *)
(* is encrypted block by block with random IVs.                            *)
(***************************************************************************)
EXTENDS CtrCrypt

CONSTANTS
  BlockBits,     \* bits of a block
  BindSpan,      \* 1 << bind_bits()
  GetBit(_, _),  \* bit i of block b
  Truncated,     \* see DetWoram
  Buf            \* the blocks that callers store

\* Two words with the same bits are the same word.
ASSUME DetWoCryptAssumption ==
  /\ BlockBits \in Nat \ {0}
  /\ BindSpan \in Nat
  /\ BlockBits <= BindSpan
  /\ \A b \in Word, i \in 0 .. BlockBits - 1 : GetBit(b, i) \in {0, 1}
  /\ \A b, c \in Word :
       (\A i \in 0 .. BlockBits - 1 : GetBit(b, i) = GetBit(c, i)) => b = c
  /\ Truncated \subseteq 0 .. Size1 - 1
  /\ Buf \subseteq Word

VARIABLES
  longpos, holdpos,                     \* DetWoram
  posmap, request, pc, todo, newpos     \* the store in progress (PMWoram)

vars == <<backend, round, nextpos, writes, pads, longpos, holdpos,
          posmap, request, pc, todo, newpos>>

Index == 0 .. Size0 - 1

\* What DetWoram finds in its areas.
LongTerm == [i \in Index |-> CryptLoad("Mem0", i)]
Holding == [k \in 0 .. Size1 - 1 |-> CryptLoad("Mem1", k)]

pointer == INSTANCE DWPointer WITH HoldSize <- Size1

woram == INSTANCE PMWoram WITH
  Size <- Size0, HoldSize <- Size1, Block <- Word,
  longterm <- LongTerm, holding <- Holding,
  InitialBlocks <- Word, InitialPositions <- {pointer!NPtr}

Init ==
  /\ CryptInit
  /\ longpos = 0
  /\ holdpos = 0
  /\ posmap = [i \in Index |-> pointer!NPtr]
  /\ request = {}
  /\ pc = "idle"
  /\ todo = 0
  /\ newpos = pointer!NPtr

StoreCall(i, b) ==
  /\ pc = "idle"
  /\ request' = {[index |-> i, buf |-> b]}
  /\ pc' = "ltws"
  /\ todo' = woram!NumLtw
  /\ UNCHANGED <<cryptVars, longpos, holdpos, posmap, newpos>>

\* One turn of the loop of ltws: the block is decrypted, and encrypted anew.
StoreRefresh ==
  /\ pc = "ltws"
  /\ todo # 0
  /\ CryptStore("Mem0", longpos, woram!PMLoad(longpos))
  /\ longpos' = IF longpos + 1 = Size0 THEN 0 ELSE longpos + 1
  /\ todo' = todo - 1
  /\ UNCHANGED <<holdpos, posmap, request, pc, newpos>>

\* Mutant of StoreHold: holdpos returns to 0 one slot early.
StoreHoldShort ==
  /\ pc = "ltws"
  /\ todo = 0
  /\ \E r \in request :
       /\ newpos' = woram!NewPosition(r.index, r.buf)
       /\ CryptStore("Mem1", holdpos, r.buf)
  /\ holdpos' = IF holdpos + 2 >= Size1 THEN 0 ELSE holdpos + 1
  /\ pc' = "posmap"
  /\ UNCHANGED <<longpos, posmap, request, todo>>

\* The rest of backend->store.
StoreHold ==
  /\ pc = "ltws"
  /\ todo = 0
  /\ \E r \in request :
       /\ newpos' = woram!NewPosition(r.index, r.buf)
       /\ CryptStore("Mem1", holdpos, r.buf)
  /\ holdpos' = IF holdpos + 1 = Size1 THEN 0 ELSE holdpos + 1
  /\ pc' = "posmap"
  /\ UNCHANGED <<longpos, posmap, request, todo>>

\* posmap->store(index, pos), and PMWoram::store returns.
StorePosition ==
  /\ pc = "posmap"
  /\ \E r \in request : posmap' = [posmap EXCEPT ![r.index] = newpos]
  /\ request' = {}
  /\ pc' = "idle"
  /\ UNCHANGED <<cryptVars, longpos, holdpos, todo, newpos>>

Next ==
  \/ \E i \in Index, b \in Buf : StoreCall(i, b)
  \/ StoreRefresh
  \/ StoreHold
  \/ StorePosition

Spec == Init /\ [][Next]_vars
-----------------------------------------------------------------------------
(***************************************************************************)
(* DetWoram writes both areas in the order that CtrCrypt demands, so that  *)
(* "non-sequential write in CtrCrypt is not allowed!" is never thrown.     *)
(***************************************************************************)
WrittenInOrder ==
  /\ longpos = nextpos["Mem0"]
  /\ holdpos = nextpos["Mem1"]

(***************************************************************************)
(* Through the ciphers the ORAM is the one of PMWoram over a memory that   *)
(* starts with arbitrary blocks: a write to one block changes what no      *)
(* other block decrypts to, however often round has wrapped.  This holds   *)
(* for blocks that have never been written, too: what they decrypt to is   *)
(* arbitrary but does not change, and DetWoram depends on that, because    *)
(* the positions it hands out describe such blocks by one of their bits.   *)
(***************************************************************************)
ImplementsPMWoram == woram!Spec
=============================================================================
