-------------------------- MODULE MCEntityExtension --------------------------
(* Instances of EntityExtension for TLC.                                   *)
EXTENDS EntityExtension, TLC

\* Places are interchangeable.
Symmetry == Permutations(Places)
=============================================================================
