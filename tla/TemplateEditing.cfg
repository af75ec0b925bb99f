SPECIFICATION Spec
CONSTANTS
    netbox = netbox
    Sources = {netbox}
    Shared = TRUE
    MaxStamp = 1
    MaxOpens = 2
    MaxRuns = 2
INVARIANTS
    
    OneGeneration

    
CHECK_DEADLOCK FALSE
