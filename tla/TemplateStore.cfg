SPECIFICATION FairSpec
CHECK_DEADLOCK FALSE
CONSTANTS
    a = a
    b = b
    pa = pa
    pax = pax
    pb = pb
    Names = {a, b}
    Paths <- MCPaths
    PathOf <- MCPathOf
    NameOf <- MCNameOf
    Fields = {"display_name", "sort_order"}
    Changes <- MCChanges
    Selections <- MCSelections
    Requests = {r1, r2}
    Seed = seed
    NoFile = none
INVARIANTS
    RowsMatchFiles
    AnswersHold
    NoLostUpdate
PROPERTY EveryRequestEnds
