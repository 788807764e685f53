SPECIFICATION Spec
CONSTANTS
    Devices <- TwoBands
    Sources <- TwoSources
    FirstSource = "WakeUp"
    Files <- SomeFiles
    NoFile = NoFile
    Inferred <- Starts
    Covered <- NotTooLate
    Dated <- Readings
    NameFor <- Autumn
    Typed <- Texts3
    MaxDevices = 2
    MaxChanges = 1
    MaxLosses = 1
    MaxActs = 5
    MaxWaiting = 2
CONSTRAINT DevicesSettle
CHECK_DEADLOCK FALSE
INVARIANTS
    ListIsCurrent
    PageIsCurrent
    EditsThisTerm
    TermIsShown
    PreparedIsPicked
PROPERTIES
    PushedAsShown
