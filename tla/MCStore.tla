------------------------------ MODULE MCStore ------------------------------
(***************************************************************************)
(* Store on small instances.                                               *)
(***************************************************************************)
EXTENDS Store, TLC

Symmetry == Permutations(Keys) \cup Permutations(Readers)
=============================================================================
