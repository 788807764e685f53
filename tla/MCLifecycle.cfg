SPECIFICATION Spec
CONSTANTS
    Icon <- TwoPieces
    OldIcons <- Others
    MaxRecords = 3
    MaxBytes = 5
    Line = 2
    MaxActivations = 2
    MaxStages = 4
    MaxFailures = 1
    MaxCrashes = 1
INVARIANTS
    StopsOnlyWhatIsGone
    CoreExclusive
    ImportServed
    EntryIsComplete
    TraceBounded
