SPECIFICATION Spec
CONSTANTS
    Days <- Two
    Files <- MCFiles
    ConnectFails = TRUE
    FaultKinds <- BusyOrRefused
    MaxFaults = 1
    MaxImports = 1
INVARIANTS
    PagesTypeOK
    StackAgrees
    OnlyTopRuns
    DrawnIsCurrent
    ClickIsPressed
PROPERTIES
    StaysOnDay
