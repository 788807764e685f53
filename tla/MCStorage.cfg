SPECIFICATION FairSpec
CONSTANTS
    Contents <- MCContents
    Valid <- MCValid
    Parses <- MCParses
    MaxSaves = 3
    MaxClears = 1
    MaxFailures = 2
    MaxCrashes = 1
    MaxEdits = 1
INVARIANTS
    SafeToStop
    ScreenIsFresh
PROPERTIES
    StoreIsAtomic
    ScreenCatchesUp
