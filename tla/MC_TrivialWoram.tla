-------------------------- MODULE MC_TrivialWoram ---------------------------
(***************************************************************************)
(* Instances of TrivialWoram for TLC; the cfg files only choose the numbers.*)
(***************************************************************************)
EXTENDS TrivialWoram
=============================================================================
