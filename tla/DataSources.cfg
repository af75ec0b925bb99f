SPECIFICATION FairSpec
CHECK_DEADLOCK FALSE
CONSTANTS
    a = a
    b = b
    host1 = host1
    host2 = host2
    N = 2
    Params = {a, b}
    Endpoints = {host1, host2}
    Templates <- Explored
    Requests = {r1, r2}
    Values = {v}
    Blank = Blank
    Nil = Nil
    NoBody = NoBody
    Bodies = {v, Nil, NoBody}
    Missing = Missing
    OnLoad = OnLoad
    Default = Default
    MaxTime = 1
INVARIANTS
    AnswersAreOwnAndFresh
    LoadIsInOrder
    CascadeAsksOnce
    CascadeIsCoherent
PROPERTY EveryRequestEnds
