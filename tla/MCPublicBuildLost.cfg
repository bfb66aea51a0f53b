CONSTANTS
    p = p
    q = q
    None = None
    Procs = {p}
    MaxBuilds = 2
    MaxFaults = 2
    MaxUpgrades = 0
SPECIFICATION Spec
INVARIANT
    ServedArtifactKept
