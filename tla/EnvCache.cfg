SPECIFICATION Spec
CONSTANTS
    p1 = p1
    p2 = p2
    Projects = {p1, p2}
    Requests = {r1, r2}
    Admins = {a1}
    Editors = {e1}
    Global = Global
    EditedSlots <- MixedSlots
    MaxEdits = 1
    MaxClock = 1
    SerialEdits = TRUE
    QuietEdits = TRUE
INVARIANTS
    ServedRowFresh
    TouchRefreshesContent
    SeesCustomEdits
SYMMETRY RequestSymmetry
