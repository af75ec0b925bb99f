SPECIFICATION Spec
CONSTANTS
    Requests = {r1}
    Hooks = {gate}
    Blocking = {gate}
    Always = {}
    MaxSha = 1
    MaxCrashes = 0
INVARIANT DeliveriesAreRecorded
CHECK_DEADLOCK FALSE
