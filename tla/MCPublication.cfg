CONSTANTS
    a = a
    b = b
    None = None
    Foreign = Foreign
    Aliases = {a, b}
    Primary = a
    LastDay = 2
    MaxClones = 2
    MaxFaults = 2
    MaxMoves = 1
SPECIFICATION LiveSpec
INVARIANTS
    TypeOK
    SealedHasResult
    ServedAsSealed
PROPERTIES
    SuccessIsBacked
    SparesForeign
    
