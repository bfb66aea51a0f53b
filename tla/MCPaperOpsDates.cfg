CONSTANTS
    p = p
    q = q
    a = a
    b = b
    None = None
    Procs = {p}
    Orders = {a, b}
    DayOf <- SameDay
    LastDay = 3
    Net <- MCNet
    Cap = 2
    Phases <- AllPhases
    Crashes = TRUE
    TornWrites = TRUE
SPECIFICATION Spec
INVARIANTS
    FilesFollowLedger
    DecidedOnce
PROPERTIES
    ImplementsBook
