----------------------------- MODULE McpClient -----------------------------
(* mcp.c: the client of one MCP server, a child process that reads requests   *)
(* from one pipe and writes lines to another, and the tools of claude.c that  *)
(* call it. A request is written, then the answer is whatever the next polls  *)
(* of the output pipe bring, up to the first newline: no id is compared, and  *)
(* nothing keeps two tool threads from reading the same pipe.                 *)
EXTENDS Integers, Sequences

CONSTANTS
    Callers,      \* tool threads; main is not one of them
    Polls,        \* polls of the output pipe before a request gives up
    Room,         \* pieces of lines the reply buffer holds
    Cuts,         \* bound: how the server's answers come: whole, in two pieces, in more
    MaxNotices    \* bound: notifications the server sends

Users == Callers \cup {"main"}

VARIABLES
    phase,      \* where main is with this server: the last pipe made, or what it does
    open,       \* descriptors claude-c holds for it
    connected,  \* server->connected
    process,    \* claude-c itself: running, killed by SIGPIPE, or ended early
    child,      \* none, running, exited (not yet waited for) or reaped
    asked,      \* history: methods of the requests, by number
    inbox,      \* requests the server has not answered
    writing,    \* pieces of a line the server still has to write
    pipe,       \* pieces in the output pipe
    notices,    \* history: notifications sent
    noise,      \* the server wrote to stderr what nobody has read yet
    tools,      \* server->tool_schemas is there
    pc, own, polls, buffer,   \* user -> call at hand, its request, its local variables
    outcome,    \* user -> what the call returned
    disturbed   \* history: an answer may be in other hands than its asker's

server == <<child, inbox, writing, pipe, notices, noise>>
calls == <<pc, own, polls, buffer, outcome>>
vars == <<phase, open, connected, process, asked, tools, server, calls, disturbed>>

(* A line is written in up to three pieces; only the last ends in a newline.  *)
Piece(line, part) == [line |-> line, part |-> part]
Line(line, form) ==
    CASE form = "whole"  -> <<Piece(line, "whole")>>
      [] form = "pieces" -> <<Piece(line, "head"), Piece(line, "tail")>>
      [] form = "long"   -> <<Piece(line, "head"), Piece(line, "body"), Piece(line, "tail")>>

HasNewline(s) == \E i \in DOMAIN s : s[i].part \in {"whole", "tail"}

Nothing == [id |-> 0, method |-> "nothing", error |-> FALSE]
Notice == [id |-> 0, method |-> "notice", error |-> FALSE]

(* cJSON_Parse: one value at the head of the buffer, what follows is ignored. *)
Parsed(s) ==
    LET Complete == \E n \in DOMAIN s :
            /\ SubSeq(s, 1, n) \in {Line(s[1].line, f) : f \in {"whole", "pieces", "long"}}
    IN IF s # <<>> /\ Complete THEN s[1].line ELSE Nothing

Init ==
    /\ phase = "start" /\ open = {} /\ connected = FALSE /\ process = "running"
    /\ child = "none" /\ asked = <<>> /\ inbox = {} /\ writing = <<>> /\ pipe = <<>> /\ notices = 0
    /\ noise = FALSE /\ tools = FALSE
    /\ pc = [u \in Users |-> "idle"] /\ own = [u \in Users |-> 0]
    /\ polls = [u \in Users |-> 0] /\ buffer = [u \in Users |-> <<>>]
    /\ outcome = [u \in Users |-> [kind |-> "none", id |-> 0]]
    /\ disturbed = FALSE

-----------------------------------------------------------------------------
(* mcp_connect_server until the process runs: three pipes, then fork.         *)
Ours(end) == <<end, "ours">>
Theirs(end) == <<end, "theirs">>
Both(end) == {Ours(end), Theirs(end)}
Log == Ours("log")

NextPipe == [start |-> "stdin", stdin |-> "stdout", stdout |-> "stderr"]

OpenPipe ==
    /\ phase \in DOMAIN NextPipe /\ phase' = NextPipe[phase]
    /\ open' = open \cup Both(phase')
    /\ UNCHANGED <<connected, process, asked, tools, server, calls, disturbed>>

(* Mutant: the path behind fork closes what the one behind the third pipe does. *)
ForgetsStderr(at) ==
    IF at = "stderr" THEN Both("stdin") \cup Both("stdout")
    ELSE IF at = "start" THEN {} ELSE Both("stdin") \cup Both(at)

(* What the error path behind each pipe() and behind fork() closes.           *)
ClosedAfter(at) ==
    CASE at = "start"  -> {}
      [] at = "stdin"  -> Both("stdin")
      [] at = "stdout" -> Both("stdin") \cup Both("stdout")
      [] at = "stderr" -> Both("stdin") \cup Both("stdout") \cup Both("stderr")

ConnectFails ==
    /\ phase \in {"start", "stdin", "stdout", "stderr"}
    /\ phase' = "down" /\ open' = open \ ClosedAfter(phase)
    /\ UNCHANGED <<connected, process, asked, tools, server, calls, disturbed>>

(* The parent closes the child's ends. The log file need not open. A command  *)
(* that cannot be executed ends the child at once.                            *)
Connect ==
    /\ phase = "stderr"
    /\ phase' = "handshake" /\ connected' = TRUE
    /\ \E log \in {{}, {Log}} :
          open' = log \cup (open \ {Theirs("stdin"), Theirs("stdout"), Theirs("stderr")})
    /\ child' \in {"running", "exited"}
    /\ UNCHANGED <<process, asked, tools, inbox, writing, pipe, notices, noise, calls, disturbed>>

-----------------------------------------------------------------------------
(* mcp_send_request up to its write. When the exit has disconnected, the      *)
(* server is freed: what its callers do then is not followed.                 *)
Busy(u) == pc[u] # "idle"
Alive == process = "running" /\ phase # "down"

Send(u, method) ==
    /\ Alive /\ connected /\ ~Busy(u)
    /\ asked' = Append(asked, method) /\ own' = [own EXCEPT ![u] = Len(asked) + 1]
    /\ pc' = [pc EXCEPT ![u] = "writing"]
    /\ outcome' = [outcome EXCEPT ![u] = [kind |-> "none", id |-> 0]]
    /\ disturbed' = (disturbed \/ \E v \in Users : Busy(v))
    /\ UNCHANGED <<phase, open, connected, process, tools, server, polls, buffer>>

(* dprintf waits while the server does not read and the pipe is full.         *)
Begin(u) ==
    /\ Alive /\ pc[u] = "writing"
    /\ pc' = [pc EXCEPT ![u] = "polling"] /\ polls' = [polls EXCEPT ![u] = Polls]
    /\ UNCHANGED <<phase, open, connected, process, asked, tools, child, writing, pipe, notices,
                   noise, own, buffer, outcome>>

Write(u) ==
    /\ child = "running" /\ inbox' = inbox \cup {own[u]}
    /\ Begin(u) /\ UNCHANGED disturbed

(* The exit has closed the descriptor: dprintf fails, and nobody looks.       *)
WriteFails(u) ==
    /\ Ours("stdin") \notin open /\ disturbed' = TRUE
    /\ Begin(u) /\ UNCHANGED inbox

(* Nobody ignores SIGPIPE: writing to a server that is gone ends claude-c.    *)
WriteKills(u) ==
    /\ Alive /\ pc[u] \in {"writing", "notifying"} /\ child # "running"
    /\ process' = "killed"
    /\ UNCHANGED <<phase, open, connected, asked, tools, server, calls, disturbed>>

-----------------------------------------------------------------------------
(* The loop. Each turn first empties the pipe that stderr comes through       *)
(* (mcp_read_stderr), again and again while there is more. (So does the end   *)
(* of the loop, which is taken for a part of its last turn.)                  *)
DrainStderr(u) ==
    /\ Alive /\ pc[u] = "polling" /\ noise /\ noise' = FALSE
    /\ UNCHANGED <<phase, open, connected, process, asked, tools, child, inbox, writing, pipe,
                   notices, calls, disturbed>>

(* Mutant: the first bytes end the loop, newline or not.                      *)
PollOnce(u) ==
    /\ Alive /\ ~noise /\ pc[u] = "polling" /\ polls[u] > 0 /\ pipe # <<>>
    /\ buffer' = [buffer EXCEPT ![u] = @ \o pipe] /\ pipe' = <<>>
    /\ pc' = [pc EXCEPT ![u] = "read"]
    /\ UNCHANGED <<phase, open, connected, process, asked, tools, child, inbox, writing,
                   notices, noise, own, polls, outcome, disturbed>>

(* One turn of the loop finds bytes: as many as the buffer has room for.      *)
Poll(u) ==
    LET room == Room - Len(buffer[u])
        n == IF Len(pipe) < room THEN Len(pipe) ELSE room
    IN
    /\ Alive /\ ~noise /\ pc[u] = "polling" /\ polls[u] > 0 /\ n > 0
    /\ buffer' = [buffer EXCEPT ![u] = @ \o SubSeq(pipe, 1, n)]
    /\ pipe' = SubSeq(pipe, n + 1, Len(pipe))
    /\ IF HasNewline(buffer'[u]) THEN pc' = [pc EXCEPT ![u] = "read"] /\ polls' = polls
                                 ELSE pc' = pc /\ polls' = [polls EXCEPT ![u] = @ - 1]
    /\ UNCHANGED <<phase, open, connected, process, asked, tools, child, inbox, writing,
                   notices, noise, own, outcome, disturbed>>

NothingToRead(u) == pipe = <<>> \/ Len(buffer[u]) = Room

(* Mutant: only a turn that finds bytes is counted.                           *)
PollBlocks(u) ==
    /\ Alive /\ ~noise /\ pc[u] = "polling" /\ polls[u] > 0 /\ NothingToRead(u)
    /\ UNCHANGED vars

(* A turn that finds none: the pipe is empty or closed, or the buffer full.   *)
PollNothing(u) ==
    /\ Alive /\ ~noise /\ pc[u] = "polling" /\ polls[u] > 0 /\ NothingToRead(u)
    /\ polls' = [polls EXCEPT ![u] = @ - 1]
    /\ UNCHANGED <<phase, open, connected, process, asked, tools, server, pc, own, buffer,
                   outcome, disturbed>>

(* After the last turn the buffer is taken as it is.                          *)
GiveUp(u) ==
    /\ Alive /\ ~noise /\ pc[u] = "polling" /\ polls[u] = 0
    /\ pc' = [pc EXCEPT ![u] = "read"] /\ disturbed' = TRUE
    /\ UNCHANGED <<phase, open, connected, process, asked, tools, server, own, polls, buffer,
                   outcome>>

(* What mcp_send_request hands to its caller: NULL for no bytes, bytes that   *)
(* do not parse, and an error object.                                         *)
Response(u) == LET line == Parsed(buffer[u]) IN IF line.error THEN Nothing ELSE line

Return(u, kind, id) ==
    /\ Alive /\ pc' = [pc EXCEPT ![u] = "idle"]
    /\ buffer' = [buffer EXCEPT ![u] = <<>>] /\ polls' = [polls EXCEPT ![u] = 0]
    /\ outcome' = [outcome EXCEPT ![u] = [kind |-> kind, id |-> id]]
    /\ UNCHANGED <<open, connected, process, asked, server, own, disturbed>>

-----------------------------------------------------------------------------
(* main: the handshake takes any bytes for the answer to "initialize" and     *)
(* goes on without one; then the tools are listed.                            *)
StartHandshake == phase = "handshake" /\ Send("main", "initialize")

SkipNotification ==
    /\ phase = "handshake" /\ pc["main"] = "read" /\ buffer["main"] = <<>>
    /\ phase' = "discover" /\ Return("main", "none", 0)
    /\ UNCHANGED tools

StartNotification ==
    /\ Alive /\ phase = "handshake" /\ pc["main"] = "read" /\ buffer["main"] # <<>>
    /\ pc' = [pc EXCEPT !["main"] = "notifying"]
    /\ UNCHANGED <<phase, open, connected, process, asked, tools, server, own, polls, buffer,
                   outcome, disturbed>>

EndHandshake ==
    /\ phase = "handshake" /\ pc["main"] = "notifying" /\ child = "running"
    /\ phase' = "discover" /\ Return("main", "none", 0)
    /\ UNCHANGED tools

StartDiscovery == phase = "discover" /\ Send("main", "tools/list")

DiscoverTools ==
    /\ phase = "discover" /\ pc["main"] = "read" /\ phase' = "serving"
    /\ tools' = (Response("main").method = "tools/list")
    /\ Return("main", IF tools' THEN "answer" ELSE "error", Response("main").id)

-----------------------------------------------------------------------------
(* The tool threads, one call each. A method's answer is told by the fields   *)
(* it carries, and only the fields: another method's result is an empty one.  *)
NotConnected(u) ==
    /\ u \in Callers /\ phase = "down" /\ child = "none" /\ outcome[u].kind = "none"
    /\ outcome' = [outcome EXCEPT ![u] = [kind |-> "error", id |-> 0]]
    /\ UNCHANGED <<phase, open, connected, process, asked, tools, server, pc, own, polls, buffer,
                   disturbed>>

Ready(u) == u \in Callers /\ phase \in {"serving", "closing", "reaped"} /\ own[u] = 0

HasResult(line) == line.method \notin {"nothing", "notice"}

CallTool(u) == Ready(u) /\ Send(u, "tools/call")

ToolResult(u) ==
    LET line == Response(u) IN
    /\ u \in Callers /\ pc[u] = "read" /\ asked[own[u]] = "tools/call"
    /\ Return(u, IF ~HasResult(line) THEN "error"
                 ELSE IF line.method = "tools/call" THEN "answer" ELSE "empty", line.id)
    /\ UNCHANGED <<phase, tools>>

ListResources(u) == Ready(u) /\ Send(u, "resources/list")

(* A server that does not answer is passed over: the list is empty, no error. *)
ResourceList(u) ==
    LET line == Response(u) IN
    /\ u \in Callers /\ pc[u] = "read" /\ asked[own[u]] = "resources/list"
    /\ Return(u, IF line.method = "resources/list" THEN "answer" ELSE "empty", line.id)
    /\ UNCHANGED <<phase, tools>>

ReadResource(u) == Ready(u) /\ Send(u, "resources/read")

ResourceContent(u) ==
    LET line == Response(u) IN
    /\ u \in Callers /\ pc[u] = "read" /\ asked[own[u]] = "resources/read"
    /\ Return(u, IF ~HasResult(line) THEN "error"
                 ELSE IF line.method = "resources/read" THEN "answer" ELSE "empty", line.id)
    /\ UNCHANGED <<phase, tools>>

-----------------------------------------------------------------------------
(* The server: answers in the order asked, in pieces, with errors;            *)
(* notifications; its end.                                                    *)
ServerStep(next) ==
    /\ child = "running" /\ process = "running" /\ Ours("stdout") \in open
    /\ next # <<>> /\ pipe' = Append(pipe, Head(next)) /\ writing' = Tail(next)
    /\ UNCHANGED <<phase, open, connected, process, asked, tools, child, noise, calls>>

ServerAnswers ==
    \E r \in inbox, error \in BOOLEAN : \E form \in (IF error THEN {"whole"} ELSE Cuts) :
        /\ writing = <<>> /\ \A q \in inbox : r <= q
        /\ inbox' = inbox \ {r}
        /\ ServerStep(Line([id |-> r, method |-> asked[r], error |-> error], form))
        /\ UNCHANGED <<notices, disturbed>>

ServerNotifies ==
    /\ writing = <<>> /\ notices < MaxNotices /\ notices' = notices + 1
    /\ ServerStep(Line(Notice, "whole"))
    /\ disturbed' = TRUE
    /\ UNCHANGED inbox

ServerGoesOn == ServerStep(writing) /\ UNCHANGED <<inbox, notices, disturbed>>

ServerExits ==
    /\ process = "running" /\ child = "running" /\ child' = "exited"
    /\ UNCHANGED <<phase, open, connected, process, asked, tools, inbox, writing, pipe, notices,
                   noise, calls, disturbed>>

(* Followed while somebody reads; what was written before is read then too.   *)
ServerComplains ==
    /\ process = "running" /\ child = "running" /\ Ours("stderr") \in open
    /\ (\E u \in Users : pc[u] = "polling") /\ noise' = TRUE
    /\ UNCHANGED <<phase, open, connected, process, asked, tools, child, inbox, writing, pipe,
                   notices, calls, disturbed>>

-----------------------------------------------------------------------------
(* main returns before it has a conversation: nothing is disconnected.        *)
EarlyExit ==
    /\ process = "running" /\ phase = "serving" /\ \A u \in Callers : own[u] = 0
    /\ process' = "ended"
    /\ UNCHANGED <<phase, open, connected, asked, tools, server, calls, disturbed>>

(* mcp_disconnect_server, from mcp_free_config at the exit, whoever still     *)
(* waits for the server: what is in the pipes is lost, no answer comes.       *)
Disconnect ==
    /\ process = "running" /\ phase = "serving" /\ phase' = "closing"
    /\ open' = open \ {Ours("stdin"), Ours("stdout"), Ours("stderr"), Log}
    /\ inbox' = {} /\ writing' = <<>> /\ pipe' = <<>> /\ noise' = FALSE
    /\ disturbed' = (disturbed \/ \E u \in Users : Busy(u))
    /\ UNCHANGED <<connected, process, asked, tools, child, notices, calls>>

(* SIGTERM was heeded, or the child was gone already: waitpid finds it.       *)
ReapInGrace ==
    /\ process = "running" /\ phase = "closing" /\ child \in {"running", "exited"}
    /\ phase' = "reaped" /\ child' = "reaped"
    /\ UNCHANGED <<open, connected, process, asked, tools, inbox, writing, pipe, notices, noise,
                   calls, disturbed>>

(* SIGKILL and a waitpid that blocks: sent whether or not the child is there. *)
ForceKill ==
    /\ process = "running" /\ phase \in {"closing", "reaped"}
    /\ phase' = "down" /\ connected' = FALSE /\ child' = "reaped"
    /\ UNCHANGED <<open, process, asked, tools, inbox, writing, pipe, notices, noise, calls,
                   disturbed>>

-----------------------------------------------------------------------------
Start == OpenPipe \/ Connect \/ ConnectFails \/ StartHandshake \/ EndHandshake \/ StartDiscovery

Caller(u) ==
    \/ CallTool(u) \/ ListResources(u) \/ ReadResource(u) \/ NotConnected(u)
    \/ Write(u) \/ WriteFails(u) \/ WriteKills(u)

Returns(u) ==
    \/ ToolResult(u) \/ ResourceList(u) \/ ResourceContent(u)
    \/ u = "main" /\ (SkipNotification \/ StartNotification \/ DiscoverTools)

Reader(u) == DrainStderr(u) \/ Poll(u) \/ PollNothing(u) \/ GiveUp(u) \/ Returns(u)

Server ==
    ServerAnswers \/ ServerNotifies \/ ServerGoesOn \/ ServerExits \/ ServerComplains

Exit == EarlyExit \/ Disconnect \/ ReapInGrace \/ ForceKill

Next == Start \/ Server \/ Exit \/ \E u \in Users : Caller(u) \/ Reader(u)

(* The reading thread runs; the server promises nothing, not even to read.    *)
Spec == Init /\ [][Next]_vars /\ \A u \in Users : WF_vars(Reader(u))

-----------------------------------------------------------------------------
Methods == {"initialize", "tools/list", "tools/call", "resources/list", "resources/read"}
Lines == [id : Nat, method : Methods \cup {"nothing", "notice"}, error : BOOLEAN]
Pieces == [line : Lines, part : {"whole", "head", "body", "tail"}]

Ends == {"stdin", "stdout", "stderr"}
Phases ==
    {"start", "stdin", "stdout", "stderr", "handshake", "discover", "serving", "closing",
     "reaped", "down"}

TypeOK ==
    /\ phase \in Phases /\ open \subseteq {Log} \cup UNION {Both(e) : e \in Ends}
    /\ connected \in BOOLEAN /\ tools \in BOOLEAN /\ noise \in BOOLEAN
    /\ process \in {"running", "killed", "ended"}
    /\ child \in {"none", "running", "exited", "reaped"}
    /\ asked \in Seq(Methods) /\ inbox \subseteq 1 .. Len(asked)
    /\ writing \in Seq(Pieces) /\ pipe \in Seq(Pieces) /\ notices \in 0 .. MaxNotices
    /\ pc \in [Users -> {"idle", "writing", "polling", "read", "notifying"}]
    /\ own \in [Users -> Nat]
    /\ \A u \in Users : pc[u] # "idle" => own[u] \in 1 .. Len(asked)
    /\ polls \in [Users -> 0 .. Polls] /\ buffer \in [Users -> Seq(Pieces)]
    /\ \A u \in Users : Len(buffer[u]) <= Room
    /\ outcome \in [Users -> [kind : {"none", "error", "empty", "answer"}, id : Nat]]
    /\ disturbed \in BOOLEAN

(* mcp_send_request "Send JSON-RPC request and read response": what a call    *)
(* returns is made of the answer to its own request where nothing came        *)
(* between the two: no timeout, notification, second reader or disconnection  *)
(* since the connection began. Nor does a call then leave a part of its       *)
(* answer to the next one.                                                    *)
OwnAnswerWhenCalm ==
    ~disturbed =>
        /\ \A u \in Users : outcome[u].id \in {0, own[u]}
        /\ (\A u \in Users : pc[u] # "polling") => inbox = {} /\ writing = <<>> /\ pipe = <<>>

(* Partial failure and exit: whichever step of the connection failed, and     *)
(* whoever was still calling at the exit, a server that is down has no end of *)
(* a pipe open, no child running and no zombie. (The early return of main     *)
(* does not take its servers down.)                                           *)
NothingLeftBehind ==
    phase = "down" => open = {} /\ child \in {"none", "reaped"} /\ ~connected

(* However late the answer, and if none comes, a request that was written     *)
(* comes back to its caller, as long as claude-c lives and the server does    *)
(* not go on writing to stderr for ever. (The write itself waits for a server *)
(* that does not read.)                                                       *)
Pending == Alive /\ \E u \in Users : pc[u] \in {"polling", "read"}

StderrEnds == <>[][~noise']_noise

RequestReturns == StderrEnds => (Pending ~> ~Pending)
=============================================================================
