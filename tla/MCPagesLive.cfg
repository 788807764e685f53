SPECIFICATION FairSpec
CONSTANTS
    Days <- One
    Files <- OneDayFiles
    ConnectFails = FALSE
    FaultKinds <- UnreadableOrRefused
    MaxFaults = 1
    MaxImports = 1
INVARIANTS
    TopHasTimer
PROPERTIES
    ScreenFollows
