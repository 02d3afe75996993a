----------------------------- MODULE MCCardTree -----------------------------
(* Instances of CardTree for TLC. *)
EXTENDS CardTree, TLC

Symmetry == Permutations(Cards \ Editable) \cup Permutations(Requests)
=============================================================================
