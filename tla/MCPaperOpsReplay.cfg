CONSTANTS
    p = p
    q = q
    a = a
    b = b
    None = None
    Procs = {p}
    Orders = {a, b}
    DayOf <- MCDayOf
    LastDay = 2
    Net <- MCNet
    Cap = 1
    Phases <- AllPhases
    Crashes = TRUE
    TornWrites = FALSE
SPECIFICATION Spec
INVARIANT
    Recoverable
