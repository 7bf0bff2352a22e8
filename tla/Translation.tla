----------------------------- MODULE Translation -----------------------------
(* How one exchange with the model passes through the formats of the program: *)
(* the provider's reply becomes an OpenAI-like message, the message becomes   *)
(* tool calls to execute and an entry of the history, their results another   *)
(* entry, and the history the next request. OpenAI's and Anthropic's requests *)
(* are built by build_openai_request, which first answers calls left open;    *)
(* Bedrock's by build_request_json_from_state, which does not.                *)
EXTENDS Integers, Sequences, FiniteSets, SequencesExt

CONSTANTS
    Ids,         \* tool call ids; "none" is not one
    MaxBlocks,   \* bound: blocks of a reply
    MaxQuestions \* bound: user messages after the results

VARIABLES
    provider,
    phase,      \* asked, replied, or sent
    reply,      \* the blocks of the reply
    todo,       \* calls the tools are to execute
    history,    \* state->messages: role and content blocks
    request,    \* the next request's messages
    abandoned   \* history: the tools' results were never recorded

vars == <<provider, phase, reply, todo, history, request, abandoned>>

Block(type, id, data) == [type |-> type, id |-> id, data |-> data]
Text(words) == Block("text", "none", words)
ToolUse(id, input) == Block("tool_use", id, input)
ToolResult(id, output) == Block("tool_result", id, output)
Image == Block("image", "none", "pixels")
Message(role, content) == [role |-> role, content |-> content]

(* What is at the positions in a set, in order: a loop that takes some and    *)
(* skips the others.                                                          *)
Picked(seq, positions) ==
    FlattenSeq([i \in DOMAIN seq |-> IF i \in positions THEN <<seq[i]>> ELSE <<>>])

OfType(blocks, type) == Picked(blocks, {i \in DOMAIN blocks : blocks[i].type = type})

-----------------------------------------------------------------------------
(* The reply as an OpenAI-like message: text ("null" for none) and calls.     *)
(* Anthropic's first text block is taken, Bedrock's last one.                 *)
Null == "null"
FirstText(blocks) ==
    IF OfType(blocks, "text") = <<>> THEN Null ELSE Head(OfType(blocks, "text")).data
LastText(blocks) ==
    IF OfType(blocks, "text") = <<>> THEN Null ELSE Last(OfType(blocks, "text")).data

(* Mutant: the last tool_use block replaces those before it.                  *)
LastCall(blocks) ==
    IF OfType(blocks, "tool_use") = <<>> THEN <<>> ELSE <<Last(OfType(blocks, "tool_use"))>>

CallsOf(blocks) == OfType(blocks, "tool_use")

AnthropicReply(blocks) == [text |-> FirstText(blocks), calls |-> CallsOf(blocks)]
BedrockReply(blocks) == [text |-> LastText(blocks), calls |-> CallsOf(blocks)]
OpenAIReply(blocks) == [text |-> FirstText(blocks), calls |-> CallsOf(blocks)]

Received(blocks) ==
    CASE provider = "anthropic" -> AnthropicReply(blocks)
      [] provider = "bedrock"   -> BedrockReply(blocks)
      [] provider = "openai"    -> OpenAIReply(blocks)

(* Input that is missing or does not parse is an empty object.                *)
Parsed(call) == [call EXCEPT !.data = IF @ = "input" THEN @ ELSE "{}"]

(* The calls handed to the tools; those without "function" are skipped.       *)
WithFunction(calls) == Picked(calls, {i \in DOMAIN calls : calls[i].data # "no function"})
Extracted(message) ==
    LET calls == WithFunction(message.calls)
    IN [i \in DOMAIN calls |-> Parsed(calls[i])]

WithId(blocks) == Picked(blocks, {i \in DOMAIN blocks : blocks[i].id # "none"})

(* add_assistant_message_openai: calls without an id are not recorded, and a  *)
(* message of nothing at all is not either.                                   *)
Recorded(message) ==
    LET calls == WithId(WithFunction(message.calls))
    IN (IF message.text = Null THEN <<>> ELSE <<Text(message.text)>>)
       \o [i \in DOMAIN calls |-> Parsed(calls[i])]

-----------------------------------------------------------------------------
(* ensure_tool_results: one more user message with the results that lack.     *)
AllBlocks == FlattenSeq([i \in DOMAIN history |-> history[i].content])
AnsweredIn(blocks) == {OfType(blocks, "tool_result")[i].id : i \in DOMAIN OfType(blocks, "tool_result")}
OpenCalls ==
    LET uses == OfType(AllBlocks, "tool_use")
    IN  Picked(uses, {i \in DOMAIN uses : uses[i].id \notin AnsweredIn(AllBlocks)})

Repaired ==
    IF OpenCalls = <<>> THEN history
    ELSE Append(history, Message("user",
             [i \in DOMAIN OpenCalls |-> ToolResult(OpenCalls[i].id, "interrupted")]))

(* build_openai_request: user text and results become messages of their own,  *)
(* images none.                                                               *)
SplitUser(blocks) ==
    LET kept == Picked(blocks, {i \in DOMAIN blocks : blocks[i].type # "image"})
    IN [i \in DOMAIN kept |->
           Message(IF kept[i].type = "text" THEN "user" ELSE "tool", <<kept[i]>>)]

OpenAIMessages(h) ==
    FlattenSeq([i \in DOMAIN h |-> IF h[i].role = "user" THEN SplitUser(h[i].content)
                                   ELSE <<h[i]>>])

(* build_request_json_from_state: a message with a result keeps its results   *)
(* only; one of the last three keeps text and images, an older one its first  *)
(* text.                                                                      *)
Recent(h, i) == i > Len(h) - 3

StateUser(h, i) ==
    LET blocks == h[i].content
        results == OfType(blocks, "tool_result")
    IN IF results # <<>> THEN [j \in DOMAIN results |-> Message("tool", <<results[j]>>)]
       ELSE IF Recent(h, i) THEN <<Message("user", blocks)>>
       ELSE <<Message("user", OfType(SubSeq(blocks, 1, 1), "text"))>>

StateMessages(h) ==
    FlattenSeq([i \in DOMAIN h |-> IF h[i].role = "user" THEN StateUser(h, i) ELSE <<h[i]>>])

-----------------------------------------------------------------------------
(* To Anthropic's format: the system prompt leaves the messages, a result     *)
(* becomes a user message, one without an id an empty one; an assistant       *)
(* message without words and calls is dropped.                                *)
NotEmpty(block) == block # Text("")

AssistantBlocks(message) ==
    Picked(message.content, {i \in DOMAIN message.content : NotEmpty(message.content[i])})

ResultBlocks(message) == WithId(message.content)

AnthropicMessage(message) ==
    CASE message.role = "system" -> <<>>
      [] message.role = "assistant" ->
            IF AssistantBlocks(message) = <<>> THEN <<>>
            ELSE <<Message("assistant", AssistantBlocks(message))>>
      [] message.role = "user" -> <<message>>
      [] message.role = "tool" -> <<Message("user", ResultBlocks(message))>>

(* Bedrock's converter drops what is empty, results without an id too.        *)
BedrockMessage(message) ==
    LET messages == AnthropicMessage(message)
    IN  Picked(messages, {i \in DOMAIN messages : messages[i].content # <<>>})

Converted(messages) ==
    CASE provider = "anthropic" ->
            FlattenSeq([i \in DOMAIN messages |-> AnthropicMessage(messages[i])])
      [] provider = "bedrock" ->
            FlattenSeq([i \in DOMAIN messages |-> BedrockMessage(messages[i])])
      [] provider = "openai" -> messages

-----------------------------------------------------------------------------
Init ==
    /\ provider \in {"openai", "anthropic", "bedrock"}
    /\ phase = "asked" /\ reply = <<>> /\ todo = <<>> /\ request = <<>> /\ abandoned = FALSE
    /\ history = <<Message("system", <<Text("prompt")>>), Message("user", <<Text("ask")>>)>>

(* What the servers send. OpenAI's message has one text at most, before its   *)
(* calls; only there can "function" be missing or the arguments not parse.    *)
Pieces ==
    {Text("words"), Text("")}
    \cup {ToolUse(id, "input") : id \in Ids \cup {"none"}}
    \cup (IF provider = "openai"
          THEN {ToolUse(id, "garbled") : id \in Ids} \cup {ToolUse(id, "no function") : id \in Ids}
          ELSE {Block("thinking", "none", "thoughts"), ToolUse("none", "none")})

Replies ==
    {r \in UNION {[1 .. n -> Pieces] : n \in 0 .. MaxBlocks} :
        /\ \A i, j \in DOMAIN r : i # j /\ r[i].id # "none" => r[i].id # r[j].id
        /\ provider = "openai" => \A i \in DOMAIN r : r[i].type = "text" => i = 1}

Reply ==
    \E r \in Replies :
        /\ phase = "asked" /\ phase' = "replied" /\ reply' = r
        /\ todo' = Extracted(Received(r))
        /\ history' = IF Recorded(Received(r)) = <<>> THEN history
                      ELSE Append(history, Message("assistant", Recorded(Received(r))))
        /\ UNCHANGED <<provider, request, abandoned>>

(* The results of a round, in the order of its calls; an upload's result is   *)
(* an image without an id. A round may be abandoned after its message was     *)
(* recorded.                                                                  *)
RecordResults ==
    \E uploads \in SUBSET (DOMAIN todo) :
        /\ phase = "replied" /\ todo # <<>> /\ todo' = <<>>
        /\ history' = Append(history, Message("user",
               [i \in DOMAIN todo |-> IF i \in uploads THEN Image
                                      ELSE ToolResult(todo[i].id, "output")]))
        /\ UNCHANGED <<provider, phase, reply, request, abandoned>>

Abandon ==
    /\ phase = "replied" /\ todo # <<>> /\ todo' = <<>> /\ abandoned' = TRUE
    /\ UNCHANGED <<provider, phase, reply, history, request>>

Ask ==
    /\ phase = "replied" /\ todo = <<>>
    /\ Cardinality({i \in DOMAIN history : history[i] = Message("user", <<Text("ask")>>)}) <= MaxQuestions
    /\ history' = Append(history, Message("user", <<Text("ask")>>))
    /\ UNCHANGED <<provider, phase, reply, todo, request, abandoned>>

Send ==
    /\ phase = "replied" /\ todo = <<>> /\ phase' = "sent"
    /\ history' = IF provider = "bedrock" THEN history ELSE Repaired
    /\ request' = Converted(IF provider = "bedrock" THEN StateMessages(history)
                            ELSE OpenAIMessages(history'))
    /\ UNCHANGED <<provider, reply, todo, abandoned>>

Next == Reply \/ RecordResults \/ Abandon \/ Ask \/ Send
Spec == Init /\ [][Next]_vars

-----------------------------------------------------------------------------
Types == {"text", "tool_use", "tool_result", "image", "thinking"}
IsBlock(b) == b.type \in Types /\ b.id \in Ids \cup {"none"}
IsMessage(m) ==
    m.role \in {"system", "user", "assistant", "tool"} /\ \A i \in DOMAIN m.content : IsBlock(m.content[i])

TypeOK ==
    /\ provider \in {"openai", "anthropic", "bedrock"} /\ phase \in {"asked", "replied", "sent"}
    /\ \A i \in DOMAIN reply : IsBlock(reply[i])
    /\ \A i \in DOMAIN todo : IsBlock(todo[i])
    /\ \A i \in DOMAIN history : IsMessage(history[i])
    /\ \A i \in DOMAIN request : IsMessage(request[i])
    /\ abandoned \in BOOLEAN

Sent == FlattenSeq([i \in DOMAIN request |-> request[i].content])
Made == WithFunction(OfType(reply, "tool_use"))
WellNamed == \A i \in DOMAIN Made : Made[i].id # "none"

(* Four translations, one reply: the calls the model made come back to it in  *)
(* the next request, each once and in their order, with their input, as do    *)
(* its words when it sent one text block.                                     *)
ReplySurvives ==
    phase = "sent" /\ WellNamed =>
        /\ OfType(Sent, "tool_use") = [i \in DOMAIN Made |-> Parsed(Made[i])]
        /\ Len(OfType(reply, "text")) = 1 /\ FirstText(reply) # "" =>
              \E i \in DOMAIN Sent : Sent[i] = Text(FirstText(reply))

Uploaded == \E i \in DOMAIN history : Contains(history[i].content, Image)

(* Every call in a request has its one result behind it. Bedrock's builder    *)
(* repairs nothing: there it holds for complete rounds without an upload.     *)
CallsAnswered ==
    phase = "sent" /\ WellNamed /\ (provider = "bedrock" => ~abandoned /\ ~Uploaded) =>
        \A i \in DOMAIN Sent : Sent[i].type = "tool_use" =>
            \E j \in i + 1 .. Len(Sent) :
                /\ Sent[j].type = "tool_result" /\ Sent[j].id = Sent[i].id
                /\ \A k \in DOMAIN Sent \ {j} :
                       ~(Sent[k].type = "tool_result" /\ Sent[k].id = Sent[i].id)
=============================================================================
