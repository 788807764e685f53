SPECIFICATION FairSpec
CONSTANTS
    Byte <- MCByte
    ChunkMax = 2
    ScheduleMax = 3
    MaxWord = 3
    Crc32 <- MCCrc32
    ValidImport <- MCValidImport
    CourseCount <- MCCourseCount
    Inputs = {}
    MaxSaves = 0
    MaxAnswers = 0
    Seeds = {3}
    MaxRetries = 1
    Pushable <- Long
    FaultKinds = {"late"}
    MaxFaults = 1
    MaxPushes = 1
PROPERTIES
    SuccessStaysReported
CHECK_DEADLOCK FALSE
