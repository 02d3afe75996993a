CONSTANTS
    Cards = {c1, c2, c3}
    NoCard = NoCard
    Requests = {r1, r2}
    None = None
    Editable = {c1}
SPECIFICATION Spec
SYMMETRY Symmetry
INVARIANTS CompleteMatchesStatus NoCycleUnraced DepthTwoUnrestored
CHECK_DEADLOCK FALSE
