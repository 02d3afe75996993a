---------------------------- MODULE MCInvitations ----------------------------
(* Instances of Invitations for TLC. *)
EXTENDS Invitations, TLC

Symmetry == Permutations(Users \ {Creator}) \cup Permutations(Requests)
                \cup Permutations(Calls)
=============================================================================
