--------------------------- MODULE MC_TrieNodePM ---------------------------
(***************************************************************************)
(* Instances of TrieNodePM for TLC: what the nodes' memory starts with.    *)
(***************************************************************************)
EXTENDS TrieNodePM

\* A node that has never been written seems to have a first child.
Garbage == {[c \in Which |-> IF c = 0 THEN 1 ELSE Nptr]}

ZeroedOrGarbage == {[c \in Which |-> 0]} \cup Garbage
=============================================================================
