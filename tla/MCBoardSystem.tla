--------------------------- MODULE MCBoardSystem ---------------------------
(***************************************************************************)
(* A board with an owner, a member and a viewer, two lists and two cards   *)
(* in the first of them; on the canvas two cards in each, and one that is  *)
(* not shown between the first two.                                        *)
(***************************************************************************)
EXTENDS BoardSystem

MCRoleOf == [ann |-> "owner", bob |-> "member", eve |-> "viewer"]

MCRow(list, rank) == [in |-> list, rank |-> rank, archived |-> FALSE, deleted |-> FALSE]

MCRows == "b" :> MCRow("b", 0)
    @@ "L1" :> MCRow("b", 0) @@ "L2" :> MCRow("b", Gap)
    @@ "c1" :> MCRow("L1", 0) @@ "c2" :> MCRow("L1", Gap)

MCFirstPlaces ==
    "L1" :> [in |-> "b", rank |-> 0] @@ "L2" :> [in |-> "b", rank |-> Gap]
        @@ "c1" :> [in |-> "L1", rank |-> 0] @@ "sub" :> [in |-> "L1", rank |-> Gap]
        @@ "c2" :> [in |-> "L1", rank |-> 2 * Gap]
        @@ "c3" :> [in |-> "L2", rank |-> 0] @@ "c4" :> [in |-> "L2", rank |-> Gap]

=============================================================================
