----------------------------- MODULE MCCellFlow -----------------------------
(* TLC instance of CellFlow.  Its runs check liveness, so no symmetry.     *)
EXTENDS CellFlow
=============================================================================
