---------------------------- MODULE TrivialWoram ---------------------------
(***************************************************************************)
(* The write-only ORAM that rewrites everything on every store (woram.h,   *)
(* TrivialWoram).  The loop over the backend is not atomic: the backend    *)
(* may throw in any of its turns (it can be a PackMem over an ORAM), and   *)
(* the store is then abandoned where it is.                                *)
(***************************************************************************)
EXTENDS Integers

CONSTANTS
  Size,       \* size(): blocks that are used
  Block,      \* the contents of a block
  BackThrows  \* TRUE for a backend whose store may throw

\* What the code requires of the constants.
TrivialOK ==
  /\ Size \in Nat \ {0}
  /\ Block # {}
  /\ BackThrows \in BOOLEAN

VARIABLES
  backend,  \* the backend memory
  request,  \* {} or the store in progress
  curpos    \* the turn of its loop

vars == <<backend, request, curpos>>

Index == 0 .. Size - 1

\* The library checks the indices it is given: callers also pass wrong ones.
Argument == 0 .. Size + 1

TypeOK ==
  /\ backend \in [Index -> Block]
  /\ request \in SUBSET [index : Argument, buf : Block]
  /\ \A r, s \in request : r = s
  /\ curpos \in 0 .. Size

Init ==
  /\ backend \in [Index -> Block]
  /\ request = {}
  /\ curpos = 0

\* check_range(index, size(), ...); store throws when it fails, and nothing
\* changes.
InRange(index) == index <= Size

StoreCall(index, buf) ==
  /\ request = {}
  /\ InRange(index)
  /\ request' = {[index |-> index, buf |-> buf]}
  /\ curpos' = 0
  /\ UNCHANGED backend

\* One turn: the block at curpos is replaced, or loaded and stored again.
StoreTurn ==
  /\ curpos < Size
  /\ \E r \in request :
       backend' = [backend EXCEPT ![curpos] =
                     IF curpos = r.index THEN r.buf ELSE @]
  /\ curpos' = curpos + 1
  /\ UNCHANGED request

StoreThrows ==
  /\ BackThrows
  /\ request # {}
  /\ curpos < Size
  /\ request' = {}
  /\ UNCHANGED <<backend, curpos>>

StoreReturn ==
  /\ request # {}
  /\ curpos = Size
  /\ request' = {}
  /\ UNCHANGED <<backend, curpos>>

Next ==
  \/ \E index \in Argument, buf \in Block : StoreCall(index, buf)
  \/ StoreTurn
  \/ StoreThrows
  \/ StoreReturn

Spec == Init /\ [][Next]_vars
-----------------------------------------------------------------------------
(***************************************************************************)
(* The loop is a block device although a load can see it half way: the     *)
(* stored block changes in the turn that reaches it, every other block is  *)
(* only ever replaced by itself, and a store that the backend breaks off   *)
(* has happened entirely or not at all.  An index that is not one of the   *)
(* device's changes nothing.                                               *)
(***************************************************************************)
Pending == {r \in request : r.index \in Index /\ r.index >= curpos}

Device == INSTANCE BlockDevice WITH
  contents <- backend, request <- Pending, MayRefuse <- BackThrows

ImplementsDevice == Device!DeviceSpec

(***************************************************************************)
(* Only a valid index gets past the check that store begins with, whose    *)
(* message for the others is "invalid index in TrivialWoram store".        *)
(***************************************************************************)
OutOfRangeRefused == \A r \in request : r.index \in Index
=============================================================================
