SPECIFICATION Spec
CONSTANTS
    UtcOffset = 8
    MaxOccurrences = 16
    Span = 36
    Imports <- AllFiles
    Minutes <- SomeMinutes
CHECK_DEADLOCK FALSE
INVARIANTS
    CalendarsAgree
    ShowsWhatIsTaught
    SentIsAccepted
PROPERTIES
    NextComes
