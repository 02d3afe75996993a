------------------------------ MODULE Lexorank ------------------------------
(***************************************************************************)
(* Ranks (src/modules/board/lexorank).  A LexoRank is a multiple of        *)
(* 1/Unit; an optional rank is a set of at most one.                       *)
(***************************************************************************)
EXTENDS Integers

Unit == 16        \* bound: a gap of one is halved four times (HasRoom)
Gap  == 8 * Unit  \* genNext and genPrev move to the eighth whole rank

InitialRank == 0

GenNext(r) == Gap - ((-r) \div Unit) * Unit
GenPrev(r) == (r \div Unit) * Unit - Gap

\* getRankBetween of two optional ranks; no rank when it throws INVALID_RANK.
GetRankBetween_NoHead(prev, next) ==
    IF prev = {} /\ next = {} THEN {InitialRank}
    ELSE IF prev = {} \/ next = {} THEN {GenNext(a) : a \in prev \cup next}
    ELSE {(a + b) \div 2 : a \in prev \ next, b \in next \ prev}

GetRankBetween(prev, next) ==
    CASE prev = {} /\ next = {} -> {InitialRank}
      [] prev = {} /\ next # {} -> {GenPrev(b) : b \in next}
      [] prev # {} /\ next = {} -> {GenNext(a) : a \in prev}
      [] OTHER -> {(a + b) \div 2 : a \in prev \ next, b \in next \ prev}

\* Bound: a LexoRank can always be split, a multiple of 1/Unit cannot.
HasRoom(prev, next) == \A a \in prev, b \in next : b - a # 1

=============================================================================
