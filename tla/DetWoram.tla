----------------------------- MODULE DetWoram ------------------------------
(***************************************************************************)
(* The deterministic write-only ORAM of detworam.h, without its position   *)
(* map: a long-term area with one home block per index, refreshed in a     *)
(* fixed cyclic order, and a holding area written as a ring.  The          *)
(* operators below act on these two areas only; the caller supplies the    *)
(* positions, from whatever position map it keeps (PMWoram, TrieNodePM).   *)
(*                                                                         *)
(* A store is not one step.  It is a run of LongTermWrite steps (the loop  *)
(* of ltws) followed by one HoldingWrite, and between these steps the      *)
(* position map is consulted.                                              *)
(***************************************************************************)
EXTENDS DWPointer

CONSTANTS
  Size,          \* size(): blocks of the long-term area
  Block,         \* the possible contents of a block
  GetBit(_, _),  \* GetBit(b, i): bit i of block b (get_bit of common.h)
  Truncated      \* slots at which the double arithmetic of ltws falls short

\* Two blocks with the same bits are the same block.
ASSUME WoramAssumption ==
  /\ Size \in Nat \ {0}
  /\ Block # {}
  /\ \A b \in Block, i \in BitIndex : GetBit(b, i) \in {0, 1}
  /\ \A b, c \in Block :
       (\A i \in BitIndex : GetBit(b, i) = GetBit(c, i)) => b = c
  /\ Truncated \subseteq Slot

VARIABLES
  longterm,  \* the long-term area: the home block of every index
  longpos,   \* the next home block to refresh
  holding,   \* the holding area
  holdpos    \* the next slot of the holding area to write

Index == 0 .. Size - 1

woramVars == <<longterm, longpos, holding, holdpos>>

WoramTypeOK ==
  /\ longterm \in [Index -> Block]
  /\ longpos \in Index
  /\ holding \in [Slot -> Block]
  /\ holdpos \in Slot

\* LocalMem starts zeroed, FileMem with whatever the file holds.
WoramInit(initial) ==
  /\ longterm \in [Index -> initial]
  /\ holding \in [Slot -> initial]
  /\ longpos = 0
  /\ holdpos = 0

(***************************************************************************)
(* load(index, position, buf): the long-term block, unless the bit that    *)
(* the position remembers tells that it is out of date.                    *)
(***************************************************************************)
Load(index, position) ==
  IF /\ position # NPtr
     /\ GetBit(longterm[index], GetBind(position)) # GetBitval(position)
  THEN holding[GetHold(position)]
  ELSE longterm[index]

(***************************************************************************)
(* How far the refresh must have come when slot k is about to be written:  *)
(* static_cast<size_t>((double)(k+1) / HoldSize * Size).  The cast rounds  *)
(* down.  Where (k+1) * Size / HoldSize is an integer the rounding of the  *)
(* two double operations may leave the product just below it (1.0/49*49 is *)
(* the first case); Truncated says at which slots it does.  At the last    *)
(* slot the fraction is exactly 1.0.  For Size * HoldSize below 2^52 the   *)
(* error cannot cross an integer anywhere else.                            *)
(*                                                                         *)
(* LtwTargetOfPrevious is a mutant: it forgets the + 1.                    *)
(***************************************************************************)
LtwTargetOfPrevious(k) == (k * Size) \div HoldSize

LtwTarget(k) ==
  LET exact == (k + 1) * Size
      short == /\ k \in Truncated
               /\ k < HoldSize - 1
               /\ exact % HoldSize = 0
  IN  IF short THEN exact \div HoldSize - 1 ELSE exact \div HoldSize

NumLtw == LtwTarget(holdpos) - longpos

\* Mutants of LongTermWrite: longpos runs off the end of the area; the block
\* is written back as it was, whatever the position says.
LongTermWriteNoWrap(position) ==
  /\ longterm' = [longterm EXCEPT ![longpos] = Load(longpos, position)]
  /\ longpos' = longpos + 1
  /\ UNCHANGED <<holding, holdpos>>

LongTermRewrite(position) ==
  /\ longpos' = IF longpos + 1 = Size THEN 0 ELSE longpos + 1
  /\ UNCHANGED <<longterm, holding, holdpos>>

\* One turn of the loop of ltws; position is what the position map holds
\* for index longpos.
LongTermWrite(position) ==
  /\ longterm' = [longterm EXCEPT ![longpos] = Load(longpos, position)]
  /\ longpos' = IF longpos + 1 = Size THEN 0 ELSE longpos + 1
  /\ UNCHANGED <<holding, holdpos>>

\* The first bit at which two blocks differ, BlockBits if there is none.
MismatchBit(b, c) ==
  IF b = c
  THEN BlockBits
  ELSE CHOOSE i \in BitIndex :
         /\ GetBit(b, i) # GetBit(c, i)
         /\ \A j \in BitIndex : GetBit(b, j) # GetBit(c, j) => i <= j

\* Mutant of NewPosition: the position remembers the bit of the old block.
NewPositionOldBit(index, buf) ==
  LET mismatch == MismatchBit(longterm[index], buf)
      diffpos == IF mismatch = BlockBits THEN 0 ELSE mismatch
  IN  Build(holdpos, diffpos, GetBit(longterm[index], diffpos))

\* The position that store(index, buf, posmap) returns.
NewPosition(index, buf) ==
  LET mismatch == MismatchBit(longterm[index], buf)
      diffpos == IF mismatch = BlockBits THEN 0 ELSE mismatch
  IN  Build(holdpos, diffpos, GetBit(buf, diffpos))

\* Mutant of HoldingWrite: the slot is advanced before the write.
HoldingWriteNext(buf) ==
  /\ holdpos' = IF holdpos + 1 = HoldSize THEN 0 ELSE holdpos + 1
  /\ holding' = [holding EXCEPT ![holdpos'] = buf]
  /\ UNCHANGED <<longterm, longpos>>

\* The write that ends store and dummy_write.
HoldingWrite(buf) ==
  /\ holding' = [holding EXCEPT ![holdpos] = buf]
  /\ holdpos' = IF holdpos + 1 = HoldSize THEN 0 ELSE holdpos + 1
  /\ UNCHANGED <<longterm, longpos>>
=============================================================================
