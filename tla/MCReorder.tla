------------------------------ MODULE MCReorder ------------------------------
(***************************************************************************)
(* Instances of Reorder for TLC: numbers around two wrap-arounds.          *)
(***************************************************************************)
EXTENDS Reorder

MCNumbers == 12..35
=============================================================================
