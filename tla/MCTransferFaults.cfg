SPECIFICATION FairSpec
CONSTANTS
    Byte <- MCByte
    ChunkMax = 2
    ScheduleMax = 3
    MaxWord = 3
    Crc32 <- MCCrc32
    ValidImport <- MCValidImport
    CourseCount <- MCCourseCount
    Inputs = {}
    MaxSaves = 0
    MaxAnswers = 0
    Seeds = {3}
    MaxRetries = 2
    Pushable <- WithInvalid
    FaultKinds <- AllFaults
    MaxFaults = 2
    MaxPushes = 1
INVARIANTS
    TypeOK
    SuccessIsSaved
    NeverStuck
    SavedOnce
    RetryIsHarmless
PROPERTIES
    PushEnds
    PushSucceeds
CHECK_DEADLOCK FALSE
