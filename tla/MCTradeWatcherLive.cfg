CONSTANTS
    p = p
    q = q
    a = a
    b = b
    c = c
    None = None
    Procs = {p}
    Session = {a, b}
    Carried = {c}
    Refusable = {b}
    Reconcilable = {c}
    Symbol <- MCSymbol
    MaxOpen = 2
    MaxDaily = 2
    LastInstant = 1
    MaxCrashes = 1
    DryRuns = TRUE
SPECIFICATION LiveSpec
INVARIANT
    SendsExplained
PROPERTY
    EveryTradeNotified
