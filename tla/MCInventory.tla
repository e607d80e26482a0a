---------------------------- MODULE MCInventory ----------------------------
(* Inventory for TLC: the records are interchangeable. *)
EXTENDS Inventory

Symmetry == Permutations(Tokens)
=============================================================================
