SPECIFICATION Spec
CONSTANTS
    platform = platform
    hostname = hostname
    ios = ios
    Params = {platform, hostname}
    NameOrder <- Alphabetical
    Options = {ios}
    Choice = platform
    ImportFile <- File
    MaxGestures = 2
    MaxCopies = 3
INVARIANTS
    OrderAsShown
    
    OfferedIsUnregistered

    
CHECK_DEADLOCK FALSE
