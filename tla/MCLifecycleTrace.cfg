SPECIFICATION Spec
CONSTANTS
    Icon <- TwoPieces
    OldIcons <- Others
    MaxRecords = 3
    MaxBytes = 9
    Line = 2
    MaxActivations = 2
    MaxStages = 2
    MaxFailures = 0
    MaxCrashes = 0
INVARIANTS
    TraceStopsAtLimit
