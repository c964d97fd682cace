-------------------------- MODULE MCCellContracts ---------------------------
(* TLC instance of CellContracts.                                          *)
EXTENDS CellContracts
=============================================================================
