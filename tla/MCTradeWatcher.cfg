CONSTANTS
    p = p
    q = q
    a = a
    b = b
    c = c
    None = None
    Procs = {p, q}
    Session = {a, b}
    Carried = {}
    Refusable = {}
    Reconcilable = {a}
    Symbol <- MCSymbol
    MaxOpen = 1
    MaxDaily = 1
    LastInstant = 2
    MaxCrashes = 0
    DryRuns = FALSE
SPECIFICATION Spec
SYMMETRY Symmetry
INVARIANTS
    TypeOK
    WithinLimits
    LifecycleLinked
    OnlyDurableSent
    SendsExplained
PROPERTY
    ImplementsTradeBook
