---------------------------- MODULE MC_PMWoram -----------------------------
(***************************************************************************)
(* Instances of PMWoram for TLC: a block is the function of its bits.      *)
(***************************************************************************)
EXTENDS PMWoram

BitBlock == [BitIndex -> {0, 1}]

BitOf(b, i) == b[i]

\* A backing memory that starts zeroed, as LocalMem does.
Zeroed == {[i \in BitIndex |-> 0]}

\* What LocalPosMap starts with, and what PackPosMap over a zeroed memory does.
EmptyPosition == {NPtr, Build(0, 0, 0)}
=============================================================================
