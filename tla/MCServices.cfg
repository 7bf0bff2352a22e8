\* Two Bash tools, one MCP caller, two TodoWrite calls, two
\* tools on files; an API call with a limit that cuts its second wait.
CONSTANTS
    McpCallers = {"t1"}
    McpTurns = 2
    McpRoom = 2
    McpCuts = {"pieces", "long"}
    MaxNotices = 1
    BashThreads = {"t1", "t2"}
    Printers <- MCPrinters
    MaxPrinted = 2
    Limit = 2
    Ids <- MCIds
    MaxBlocks = 3
    MaxQuestions = 2
    ServerNames <- MCServerNames
    ToolNames <- MCToolNames
    MaxServers = 2
    Openings <- MCOpenings
    NameRoom = 4
    PrefixRoom = 12
    TodoThreads = {"t1", "t2"}
    InitialCapacity = 1
    MaxItems = 2
    FileThreads = {"t1", "t2"}
    Leftovers = {"nul"}
    FileCalls <- MCFileCalls
    FileDisks <- MCFileDisks
    InitialBackoff = 4
    MaxBackoff = 8
    MaxRetryDuration = 13
    AttemptTimes = {0, 3}
    Polls = 2
    MaxKey = 2
    MaxCalls = 2
SPECIFICATION ServicesSpec
INVARIANTS
    TypesOK
    OwnAnswerWhenCalm
    ResourcesReturned
    ReportsComplete
    RetriesStayInLimit
    RefusedKeyReplaced
    ExchangeSurvives
    RoutesHome
PROPERTIES
    CallsReturn
CHECK_DEADLOCK FALSE
