------------------------------ MODULE Services ------------------------------
(* What the worker and its tool threads call: an API call, the translation of *)
(* its exchange, the Bash tool, an MCP server, the routing of tool names, the *)
(* todo list and the tools that change files. They share no state, so each    *)
(* behaviour is about one subject, and the others stay in their initial       *)
(* states. ApiCall is extended; the other modules are instances.              *)
EXTENDS ApiCall, Sequences

CONSTANTS
    McpCallers, McpTurns, McpRoom, McpCuts, MaxNotices,       \* McpClient
    BashThreads, Printers, MaxPrinted, Limit,                 \* BashTool
    Ids, MaxBlocks, MaxQuestions,                             \* Translation
    ServerNames, ToolNames, MaxServers,                       \* ToolRouting
    Openings, NameRoom, PrefixRoom,
    TodoThreads, InitialCapacity, MaxItems,                   \* TodoList
    FileThreads, Leftovers, FileCalls, FileDisks              \* FileTools

VARIABLES
    subject,
    \* McpClient
    phase, open, connected, process, child, asked, inbox, writing, mcpPipe, notices, noise, tools,
    mcpPc, own, mcpPolls, buffer, mcpOutcome, disturbed,
    \* BashTool
    bashFlag, stderr, bashPc, saved, cmd, writers, bashPipe, stdio, kept, printed, visible, ended,
    mixed, spoiled,
    \* Translation
    format, exchange, reply, calls, history, request, abandoned,
    \* ToolRouting
    stage, enabled, servers, called, reached,
    \* TodoList
    items, count, capacity, todoPc, todo, wanted, added, failed, rendered, crowded,
    \* FileTools
    disk, call, filePc, step, size, text, fileOutcome, found, cut, misread, user,
    fileDisturbed

Mcp == INSTANCE McpClient WITH
    Callers <- McpCallers, Polls <- McpTurns, Room <- McpRoom, Cuts <- McpCuts,
    pipe <- mcpPipe, pc <- mcpPc, polls <- mcpPolls, outcome <- mcpOutcome

Bash == INSTANCE BashTool WITH
    Threads <- BashThreads, flag <- bashFlag, pc <- bashPc, pipe <- bashPipe

Trans == INSTANCE Translation WITH provider <- format, phase <- exchange, todo <- calls

Routing == INSTANCE ToolRouting

Todo == INSTANCE TodoList WITH Threads <- TodoThreads, pc <- todoPc, asked <- wanted

Files == INSTANCE FileTools WITH
    Threads <- FileThreads, Calls <- FileCalls, Disks <- FileDisks,
    pc <- filePc, outcome <- fileOutcome, disturbed <- fileDisturbed

mcpVars == <<phase, open, connected, process, child, asked, inbox, writing, mcpPipe, notices,
             noise, tools, mcpPc, own, mcpPolls, buffer, mcpOutcome, disturbed>>
bashVars == <<bashFlag, stderr, bashPc, saved, cmd, writers, bashPipe, stdio, kept, printed,
              visible, ended, mixed, spoiled>>
apiVars == vars
transVars == <<format, exchange, reply, calls, history, request, abandoned>>
routingVars == <<stage, enabled, servers, called, reached>>
todoVars == <<items, count, capacity, todoPc, todo, wanted, added, failed, rendered, crowded>>
fileVars == <<disk, call, filePc, step, size, text, fileOutcome, found, cut, misread, user,
              fileDisturbed>>
serviceVars == <<subject, mcpVars, bashVars, apiVars, transVars, routingVars, todoVars, fileVars>>

Subjects == {"mcp", "bash", "api", "translation", "routing", "todo", "files"}

ServicesInit ==
    /\ subject \in Subjects
    /\ Mcp!Init /\ Bash!Init /\ Init /\ Trans!Init /\ Routing!Init /\ Todo!Init
    /\ Files!Init
    /\ subject # "files" => disk = CHOOSE d \in FileDisks : TRUE
    /\ subject # "translation" => format = "openai"

ServicesNext ==
    \/ /\ subject = "mcp" /\ Mcp!Next
       /\ UNCHANGED <<subject, bashVars, apiVars, transVars, routingVars, todoVars, fileVars>>
    \/ /\ subject = "bash" /\ Bash!Next
       /\ UNCHANGED <<subject, mcpVars, apiVars, transVars, routingVars, todoVars, fileVars>>
    \/ /\ subject = "api" /\ Next
       /\ UNCHANGED <<subject, mcpVars, bashVars, transVars, routingVars, todoVars, fileVars>>
    \/ /\ subject = "translation" /\ Trans!Next
       /\ UNCHANGED <<subject, mcpVars, bashVars, apiVars, routingVars, todoVars, fileVars>>
    \/ /\ subject = "routing" /\ Routing!Next
       /\ UNCHANGED <<subject, mcpVars, bashVars, apiVars, transVars, todoVars, fileVars>>
    \/ /\ subject = "todo" /\ Todo!Next
       /\ UNCHANGED <<subject, mcpVars, bashVars, apiVars, transVars, routingVars, fileVars>>
    \/ /\ subject = "files" /\ Files!Next
       /\ UNCHANGED <<subject, mcpVars, bashVars, apiVars, transVars, routingVars, todoVars>>

(* The threads that read from a server, those that run a Bash tool and the    *)
(* one that makes API calls go on.                                            *)
Fairness ==
    /\ WF_mcpVars(subject = "mcp" /\ \E u \in Mcp!Users : Mcp!Reader(u))
    /\ WF_bashVars(subject = "bash" /\ \E t \in BashThreads : bashPc[t] # "idle" /\ Bash!Tool(t))
    /\ WF_apiVars(subject = "api" /\ Step)

ServicesSpec == ServicesInit /\ [][ServicesNext]_serviceVars /\ Fairness

-----------------------------------------------------------------------------
(* The variables of each module keep their types.                             *)
TypesOK ==
    /\ subject \in Subjects
    /\ subject = "mcp" => Mcp!TypeOK
    /\ subject = "bash" => Bash!TypeOK
    /\ subject = "api" => TypeOK
    /\ subject = "translation" => Trans!TypeOK
    /\ subject = "routing" => Routing!TypeOK
    /\ subject = "todo" => Todo!TypeOK
    /\ subject = "files" => Files!TypeOK

(* Each caller of an MCP server gets its own answer, as long as none was late. *)
OwnAnswerWhenCalm == Mcp!OwnAnswerWhenCalm

(* The tool that runs is the one that was advertised under the name.          *)
RoutesHome == Routing!RoutesHome

(* What a service takes it gives back: an MCP server's pipes and process, the *)
(* process's stderr.                                                          *)
ResourcesReturned == Mcp!NothingLeftBehind /\ Bash!StderrRestored

(* What a tool reports is what was there: the output of a command, the list   *)
(* of a TodoWrite, the change in the file.                                    *)
ReportsComplete ==
    Bash!OutputAccounted /\ Todo!ShowsWhatWasWritten /\ Files!ReportsTheFile

(* An exchange comes back whole in the next request, every call answered.     *)
ExchangeSurvives == Trans!ReplySurvives /\ Trans!CallsAnswered

(* A request that was written to a server that is silent but does not write   *)
(* to stderr for ever, a Bash tool whose command has ended, and an API call   *)
(* that fails again and again all come back.                                  *)
ServicePending == Mcp!Pending \/ Bash!Pending \/ Pending

CallsReturn == Mcp!StderrEnds => (ServicePending ~> ~ServicePending)
=============================================================================
