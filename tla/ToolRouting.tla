----------------------------- MODULE ToolRouting -----------------------------
(* Which tool a name reaches. get_tool_definitions (claude.c) advertises the  *)
(* built-in tools and, per tool of each connected MCP server, the name        *)
(* mcp_<server>_<tool>; execute_tool looks a name up in its table and then    *)
(* asks mcp_find_tool_server, which takes everything before the next '_' for  *)
(* the server. A name is the sequence of its words, '_' between them; both    *)
(* buffers it goes through have a size.                                       *)
EXTENDS Naturals, Sequences

CONSTANTS
    ServerNames,   \* bound: names the configuration may use, none empty
    ToolNames,     \* bound: names of tools the servers may have
    MaxServers,    \* bound: servers in the configuration
    Openings,      \* word -> its openings of 1, 2, ... characters, the whole word at last
    NameRoom,      \* sizeof(server_name), 128
    PrefixRoom     \* sizeof(prefixed_name), 256

VARIABLES
    stage,     \* unread, connecting, ready: main's start
    enabled,   \* mcp_is_enabled: CLAUDE_MCP_ENABLED
    servers,   \* config->servers: name, connected, tools
    called,    \* the advertised definition whose name was executed
    reached    \* where it went

vars == <<stage, enabled, servers, called, reached>>

Nowhere == [server |-> 0, tool |-> <<>>]
BuiltIn(tool) == [server |-> 0, tool |-> tool]

(* The table of claude.c; the last three are advertised with MCP only.        *)
ResourceTools == {<<t>> : t \in {"ListMcpResources", "ReadMcpResource", "CallMcpTool"}}
Tools ==
    {<<t>> : t \in {"Sleep", "Bash", "Read", "Write", "Edit", "Glob", "Grep", "TodoWrite",
                    "UploadImage"}} \cup ResourceTools

Init ==
    /\ stage = "unread" /\ enabled = FALSE /\ servers = <<>>
    /\ called = Nowhere /\ reached = Nowhere

(* mcp_load_config: the keys of "mcpServers", in their order. JSON does not   *)
(* keep a key from appearing twice.                                           *)
LoadConfig ==
    \E names \in UNION {[1 .. n -> ServerNames] : n \in 0 .. MaxServers}, on \in BOOLEAN :
        /\ stage = "unread" /\ stage' = "connecting" /\ enabled' = on
        /\ servers' = IF ~on THEN <<>>
                      ELSE [i \in DOMAIN names |->
                               [name |-> names[i], connected |-> FALSE, tools |-> {}]]
        /\ UNCHANGED <<called, reached>>

(* Connecting and discovery, server by server; either may fail.               *)
ConnectServers ==
    \E up \in SUBSET (DOMAIN servers), found \in [DOMAIN servers -> SUBSET ToolNames] :
        /\ stage = "connecting" /\ stage' = "ready"
        /\ \A i \in DOMAIN servers : i \notin up => found[i] = {}
        /\ servers' = [i \in DOMAIN servers |->
                          [servers[i] EXCEPT !.connected = i \in up, !.tools = found[i]]]
        /\ UNCHANGED <<enabled, called, reached>>

-----------------------------------------------------------------------------
Chars(word) == Len(Openings[word])
Opening(word, n) ==
    IF n = 0 THEN "" ELSE IF n < Chars(word) THEN Openings[word][n] ELSE word

(* Where the words of a name begin; one more would begin behind its NUL.      *)
Starts(name) ==
    LET at[k \in 1 .. Len(name) + 1] == IF k = 1 THEN 0 ELSE at[k - 1] + Chars(name[k - 1]) + 1
    IN at

Fits(name) == Starts(name)[Len(name) + 1] <= PrefixRoom

(* snprintf into prefixed_name cuts what is too long, between words or in one.*)
Fitted(name) ==
    LET at == Starts(name)
        begun == {k \in 1 .. Len(name) : at[k] < PrefixRoom}
    IN IF Fits(name) THEN name
       ELSE [k \in begun |-> Opening(name[k], PrefixRoom - 1 - at[k])]

(* mcp_get_all_tools.                                                         *)
WholeName(i, tool) == <<"mcp">> \o servers[i].name \o tool
PrefixedName(i, tool) == Fitted(WholeName(i, tool))

McpTools ==
    {[server |-> i, tool |-> tool] : i \in DOMAIN servers, tool \in ToolNames}

AdvertisedMcpTools ==
    {t \in McpTools : servers[t.server].connected /\ t.tool \in servers[t.server].tools}

AdvertisedBuiltIns == {BuiltIn(t) : t \in Tools \ ResourceTools}
AdvertisedHelpers == IF enabled THEN {BuiltIn(t) : t \in ResourceTools} ELSE {}

Advertised == AdvertisedBuiltIns \cup AdvertisedHelpers \cup AdvertisedMcpTools

NameOf(t) == IF t.server = 0 THEN t.tool ELSE PrefixedName(t.server, t.tool)

(* strcmp with each server's name in turn.                                    *)
FirstNamed(name) ==
    LET named == {i \in DOMAIN servers : servers[i].name = name}
    IN IF named = {} THEN 0 ELSE CHOOSE i \in named : \A j \in named : i <= j

TooLong(word) == Chars(word) >= NameRoom

(* Mutant: the name is cut at its last '_'.                                   *)
CutAtLast(name) ==
    IF Len(name) < 3 \/ name[1] # "mcp" \/ TooLong(name[2]) THEN 0
    ELSE FirstNamed(SubSeq(name, 2, Len(name) - 1))

(* mcp_find_tool_server: a longer name of a server is not looked for.         *)
FindToolServer(name) ==
    IF Len(name) < 3 \/ name[1] # "mcp" \/ TooLong(name[2]) THEN 0
    ELSE FirstNamed(<<name[2]>>)

(* execute_tool; the rest of the name is the tool's.                          *)
Route(name) ==
    IF name \in Tools THEN BuiltIn(name)
    ELSE LET i == FindToolServer(name) IN
         IF i = 0 THEN Nowhere ELSE [server |-> i, tool |-> SubSeq(name, 3, Len(name))]

Execute ==
    \E t \in Advertised :
        /\ stage = "ready" /\ called' = t /\ reached' = Route(NameOf(t))
        /\ UNCHANGED <<stage, enabled, servers>>

(* tool_call_mcp_tool: server and tool are two parameters; nothing is cut.    *)
CallMcpTool ==
    \E t \in AdvertisedMcpTools :
        /\ stage = "ready" /\ called' = t
        /\ reached' = [server |-> FirstNamed(servers[t.server].name), tool |-> t.tool]
        /\ UNCHANGED <<stage, enabled, servers>>

Next == LoadConfig \/ ConnectServers \/ Execute \/ CallMcpTool
Spec == Init /\ [][Next]_vars

-----------------------------------------------------------------------------
TypeOK ==
    /\ stage \in {"unread", "connecting", "ready"} /\ enabled \in BOOLEAN
    /\ Len(servers) <= MaxServers
    /\ \A i \in DOMAIN servers :
          /\ servers[i].name \in ServerNames /\ servers[i].connected \in BOOLEAN
          /\ servers[i].tools \subseteq ToolNames
    /\ {called.server, reached.server} \subseteq 0 .. Len(servers)

OneWordNames == \A i \in DOMAIN servers : Len(servers[i].name) = 1
DistinctNames ==
    \A i, j \in DOMAIN servers : servers[i].name = servers[j].name => i = j

(* Every built-in tool; an MCP tool if its server's name and the prefixed one *)
(* fit in their buffers.                                                      *)
Short(t) ==
    t.server # 0 =>
        /\ ~TooLong(servers[t.server].name[1])
        /\ Fits(WholeName(t.server, t.tool))

(* A name is made in mcp.c and taken apart again in claude.c and mcp.c: the   *)
(* tool that is executed is the one that was advertised, whatever words its   *)
(* own name has, and no two tools share a name, as long as no server's name   *)
(* has a '_', none is configured twice, and the names fit in their buffers.   *)
RoutesHome ==
    stage = "ready" /\ OneWordNames /\ DistinctNames =>
        /\ Short(called) => reached = called
        /\ \A s, t \in Advertised : Short(s) /\ Short(t) /\ NameOf(s) = NameOf(t) => s = t
=============================================================================
