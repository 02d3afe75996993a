------------------------ MODULE MCWorkspaceMembership ------------------------
(* Instances of WorkspaceMembership for TLC. *)
EXTENDS WorkspaceMembership, TLC

Symmetry == Permutations(Users \ {Creator}) \cup Permutations(Requests)
=============================================================================
