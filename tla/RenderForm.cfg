SPECIFICATION Spec
CONSTANTS
    host = host
    site = site
    role = role
    qos = qos
    none = none
    west = west
    Null = Null
    Fields <- Form
    Instant = {site}
    Derived = {}
    LoadLocked = {}
    Required = {host}
    Hidden = {}
    ShownWhen <- Conditions
    Mappings <- Chain
    Lookup <- Found
    Values = {none, west}
    Empty = none
    Default <- Blank
    Features = {qos}
    DefaultOn = {}
    InOrder = TRUE
    MaxEdits = 2
    MaxCalls = 3
    MaxLoads = 1
    MaxRenders = 2
    MaxPresets = 1
INVARIANTS
    QuietEditsKept
    AutofillSettles
    ShownResultIsNewest

    
CHECK_DEADLOCK FALSE
