--------------------------- MODULE MCBoardPresence ---------------------------
(* Instances of BoardPresence for TLC: two users with the same hash. *)
EXTENDS BoardPresence, TLC

CONSTANTS s1, s2, s3, u1, u2

ThreeSockets == s1 :> u1 @@ s2 :> u1 @@ s3 :> u2
TwoSockets == s1 :> u1 @@ s3 :> u2
SameHash == [u \in Users |-> 0]
=============================================================================
