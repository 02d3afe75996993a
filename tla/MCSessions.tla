----------------------------- MODULE MCSessions -----------------------------
(* Two tabs of one browser. *)
EXTENDS Sessions, TLC
CONSTANTS t1, t2, b1
TabBrowser == [t \in {t1, t2} |-> b1]
TabSymmetry == Permutations({t1, t2})
=============================================================================
