CONSTANTS
    p = p
    q = q
    None = None
    Procs = {p, q}
    MaxBuilds = 3
    MaxFaults = 3
    MaxUpgrades = 1
SPECIFICATION LiveSpec
INVARIANTS
    TypeOK
    SettledIsWhole
    NeverOlderThanReported
    KeptUnlessRecoveryDies
PROPERTIES
    Converges
