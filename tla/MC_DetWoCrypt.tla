-------------------------- MODULE MC_DetWoCrypt ---------------------------
(***************************************************************************)
(* Instances of DetWoCrypt for TLC: a word and its bits.                   *)
(***************************************************************************)
EXTENDS DetWoCrypt

WordBit(w, i) == (w \div 2 ^ i) % 2
=============================================================================
