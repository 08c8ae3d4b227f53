----------------------------- MODULE DWPointer -----------------------------
(***************************************************************************)
(* The integer that a deterministic write-only ORAM hands to its position  *)
(* map: a slot of the holding area, the index of one bit of the block and  *)
(* the value of that bit, packed into one size_t (detworam.h, DWPointer).  *)
(***************************************************************************)
EXTENDS Integers

CONSTANTS
  HoldSize,   \* holdsize(): slots of the holding area
  BlockBits,  \* blockbits(): bits of one block
  BindSpan    \* 1 << bind_bits(), the room kept for a bit index

ASSUME PointerAssumption ==
  /\ HoldSize \in Nat \ {0}
  /\ BlockBits \in Nat \ {0}
  /\ BindSpan \in Nat
  /\ BlockBits <= BindSpan

Slot == 0 .. HoldSize - 1
BitIndex == 0 .. BlockBits - 1

Build(hold, bind, bitval) == (hold * BindSpan + bind) * 2 + bitval

GetHold(ptr) == ptr \div (2 * BindSpan)
GetBind(ptr) == (ptr \div 2) % BindSpan
GetBitval(ptr) == ptr % 2

PMax == Build(HoldSize - 1, BlockBits - 1, 1)

\* The null position: the block has never been written through the ORAM.
NPtr == PMax + 1

\* The positions that build() can return.
Pointer == {Build(h, i, v) : h \in Slot, i \in BitIndex, v \in {0, 1}}
=============================================================================
