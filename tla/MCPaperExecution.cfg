CONSTANTS
    a = a
    b = b
    Symbols <- MCSymbols
    Kinds = {"gate", "pilot"}
    Ids <- MCIds
    Pilot = "pilot"
    MaxConcurrent = 1
    MaxEntries = 1
    MaxRows = 2
    Faults <- AllFaults
    Lookalike <- OneLookalike
SPECIFICATION LiveSpec
INVARIANTS
    TypeOK
    OnlyLookalikesResubmitted
    OrdersAccountedFor
    OvershootOnlyByLostAnswers
    KillSwitchStopsAllButOne
    ProtectedUntilFlatten
PROPERTIES
    EveryOrderRecorded
