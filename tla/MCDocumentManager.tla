------------------------- MODULE MCDocumentManager -------------------------
(* Small instances of DocumentManager for TLC. *)
EXTENDS DocumentManager, TLC

\* Documents, edits and sweeps are interchangeable.
Symmetry ==
    Permutations(Docs) \cup Permutations(Edits) \cup Permutations(Sweepers)
=============================================================================
