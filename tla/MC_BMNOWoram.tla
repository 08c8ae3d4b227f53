---------------------------- MODULE MC_BMNOWoram ---------------------------
(***************************************************************************)
(* Instances of BMNOWoram for TLC.                                         *)
(***************************************************************************)
EXTENDS BMNOWoram

\* LocalPosMap starts with null positions; a map that is itself kept in an
\* ORAM loads anything at first.
NullPositions == {NoPosition}
GarbagePositions == Position \cup {NoPosition}

\* The metadata start with anything: here, with what claims that index 0 is
\* live at a position, and with what claims nothing.
GarbageOwners == {0, NoIndex}
=============================================================================
