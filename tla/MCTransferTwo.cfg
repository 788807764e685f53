SPECIFICATION Spec
CONSTANTS
    Byte <- MCByte
    ChunkMax = 2
    ScheduleMax = 3
    MaxWord = 3
    Crc32 <- MCCrc32
    ValidImport <- MCValidImport
    CourseCount <- MCCourseCount
    Inputs = {}
    MaxSaves = 0
    MaxAnswers = 0
    Seeds = {3}
    MaxRetries = 1
    Pushable <- LongAndShort
    FaultKinds = {"early", "lose", "idle"}
    MaxFaults = 2
    MaxPushes = 2
INVARIANTS
    SavedIsPushed
    EndsOnce
PROPERTIES
    PushesAreServed
CHECK_DEADLOCK FALSE
