SPECIFICATION Spec
CONSTANTS
    a = a
    b = b
    c = c
    p = p
    q = q
    g = g
    Local = {a, b, c}
    Proj = {p, q}
    Glob = {g}
    Depth = 2
    Inputs <- AllInputs
INVARIANTS
    DependenciesFirst
    CyclesAreReported
    ValuesAgree
    SharedPrevails
PROPERTY ResolutionEnds
CHECK_DEADLOCK FALSE
