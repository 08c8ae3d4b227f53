------------------------------ MODULE OneWrite -----------------------------
(***************************************************************************)
(* The plain ORAM of woram.h that writes every block of its backend once   *)
(* (OneWriteWoram), without its position map: a log of blocks.  Stores and *)
(* dummy writes alike use up its capacity, and from then on both throw.    *)
(* The caller supplies the position map: PMWoram in OneWriteWoram.tla, the *)
(* parents of the nodes in TrieNodePM.tla.                                 *)
(***************************************************************************)
EXTENDS Integers

CONSTANTS
  BackSize   \* BMT::size(): number of writes there will ever be

VARIABLES
  backend,   \* the backend memory
  nextpos    \* its first block that has not been written

MaxWrites == BackSize
NPtr == BackSize

\* load(index, position, buf): the index is ignored.
LoadBlock(position) == backend[position]

\* "too many writes in OneWriteWoram"
Exhausted == nextpos = MaxWrites

\* What store (which returns nextpos) and dummy_write do, if they can.
WriteBlock(buf) ==
  /\ nextpos < MaxWrites
  /\ backend' = [backend EXCEPT ![nextpos] = buf]
  /\ nextpos' = nextpos + 1
=============================================================================
