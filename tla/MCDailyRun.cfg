SPECIFICATION Spec
CONSTANTS
  Procs = {p, q}
  None = None
  MaxMonitors = 2
  MaxOthers = 1
  MaxRetries = 1
  MaxFaults = 1
CHECK_DEADLOCK FALSE
SYMMETRY Symmetry
INVARIANTS
  TypeOK
  HeldRowsSurvive
  ReadyBacked
  SummarySettles
  SummaryIsSupported
