----------------------------- MODULE MC_PackMem ----------------------------
(***************************************************************************)
(* Instances of PackMem for TLC; the cfg files only choose the numbers.    *)
(***************************************************************************)
EXTENDS PackMem
=============================================================================
