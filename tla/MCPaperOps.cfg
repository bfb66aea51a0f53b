CONSTANTS
    p = p
    q = q
    a = a
    b = b
    None = None
    Procs = {p, q}
    Orders = {a, b}
    DayOf <- MCDayOf
    LastDay = 2
    Net <- MCNet
    Cap = 1
    Phases <- AllPhases
    Crashes = TRUE
    TornWrites = TRUE
SPECIFICATION Spec
SYMMETRY Symmetry
INVARIANTS
    TypeOK
    FilesFollowLedger
    DecidedOnce
PROPERTIES
    ImplementsBook
