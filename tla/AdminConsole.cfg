SPECIFICATION Spec
CONSTANTS
    r1 = r1
    r2 = r2
    Rows <- MCRows
    InUse <- MCInUse
    Parent <- MCParent
    Stored <- MCStored
    MaxGestures <- MCMaxGestures
    MaxChanges <- MCMaxChanges

    
PROPERTIES
    KeyStaysRevealed
    
CHECK_DEADLOCK FALSE
