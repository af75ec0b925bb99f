SPECIFICATION Spec
CONSTANTS
    Requests = {r1, r2}
    Names = {n1}
    Texts = {x1, x2}
    Unset = Unset
    None = None
INVARIANTS
    FileFollowsRows
PROPERTIES
    ImportsFillGaps
SYMMETRY Symmetric
