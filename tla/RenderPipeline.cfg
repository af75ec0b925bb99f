SPECIFICATION FairSpec
CONSTANTS
    Requests = {r1, r2}
    Hooks = {gate, audit, notify}
    Blocking = {gate, audit}
    Always = {audit}
    MaxSha = 2
    MaxCrashes = 1
INVARIANT CallsFollowCommit
 
PROPERTY GateStopsDispatch
PROPERTY EveryRenderAnswered
CHECK_DEADLOCK FALSE
