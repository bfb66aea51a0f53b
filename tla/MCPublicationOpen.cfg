CONSTANTS
    a = a
    b = b
    None = None
    Foreign = Foreign
    Aliases = {a, b}
    Primary = a
    LastDay = 1
    MaxClones = 1
    MaxFaults = 1
    MaxMoves = 0
SPECIFICATION LiveSpec
PROPERTY
    OperationsConverge
