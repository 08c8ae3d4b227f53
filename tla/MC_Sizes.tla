------------------------------ MODULE MC_Sizes -----------------------------
(***************************************************************************)
(* Instances of Sizes for TLC; the cfg files only choose the numbers.      *)
(***************************************************************************)
EXTENDS Factories
=============================================================================
