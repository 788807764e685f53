SPECIFICATION Spec
CONSTANTS
    Days <- Two
    Files <- MCFiles
    ConnectFails = FALSE
    FaultKinds <- Busy
    MaxFaults = 1
    MaxImports = 0
INVARIANTS
    TopHasTimer
