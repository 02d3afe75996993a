--------------------------- MODULE MCDocumentSync ---------------------------
EXTENDS DocumentSync, TLC

CONSTANTS t1, t2, u1, u2

MCUserOf == t1 :> u1 @@ t2 :> u2
=============================================================================
