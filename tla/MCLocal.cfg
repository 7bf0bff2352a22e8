\* The database: one day of length 1, an int of 4 bits, two records kept.
CONSTANTS
    Sessions = {s1, s2}
    MaxDays = 1
    Day = 1
    IntMax = 7
    MaxRecords = 2
    MaxCalls = 3
    MaxTime = 2
    MaxBackups = 3
    MaxFiles = 5
    Texts <- MCTexts
    Limit = 2
    MaxAppends = 3
    Capacity = 7
    Threshold = 2
    MaxKeys = 7
    MaxHistory = 2
    Strays <- MCStrays
    ViewTexts <- MCViewTexts
    ClearedText <- MCClearedText
    MaxEntries = 3
    Screens <- MCScreens
    InitialCapacity = 4
    Slack = 2
    MinConv = 5
    MinInput = 3
    StatusRows = 1
    Padding = 1
    MaxInputPercent = 40
SPECIFICATION LocalSpec
INVARIANTS
    TypesOK
    SharedDatabaseHolds
    OldestLogsLost
    TextComesThrough
PROPERTIES
    OldestRecordsFirst
CHECK_DEADLOCK FALSE
