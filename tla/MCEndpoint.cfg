SPECIFICATION EndpointSpec
CONSTANTS
    Byte <- MCByte
    ChunkMax = 1
    ScheduleMax = 2
    MaxWord = 3
    Crc32 <- MCCrc32
    ValidImport <- MCValidImport
    CourseCount <- MCCourseCount
    Inputs <- MCInputs
    MaxSaves = 2
    MaxAnswers = 1
INVARIANTS
    EndpointInv
PROPERTIES
    LastIdNotSavedAgain
    TransferOnlyGrows
