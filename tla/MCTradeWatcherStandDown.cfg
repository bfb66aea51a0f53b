CONSTANTS
    p = p
    q = q
    a = a
    b = b
    c = c
    None = None
    Procs = {p}
    Session = {a, b}
    Carried = {c}
    Refusable = {b}
    Reconcilable = {}
    Symbol <- MCSymbol
    MaxOpen = 2
    MaxDaily = 2
    LastInstant = 2
    MaxCrashes = 0
    DryRuns = FALSE
SPECIFICATION Spec
INVARIANT
    ProtectionReachesLedger
