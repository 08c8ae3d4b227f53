---------------------------- MODULE MC_RecWoram ----------------------------
(***************************************************************************)
(* Instances of RecWoram for TLC: a block is the function of its bits.     *)
(***************************************************************************)
EXTENDS RecWoram

BitBlock == [BitIndex -> {0, 1}]

BitOf(b, i) == b[i]

\* Zeroed memory, on both sides of the split.
Zeroed == {[i \in BitIndex |-> 0]}
ZeroPosition == {Build(0, 0, 0)}
=============================================================================
