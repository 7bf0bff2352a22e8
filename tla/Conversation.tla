---------------------------- MODULE Conversation ----------------------------
(* The message history (claude.c) and the requests built from it               *)
(* (openai_messages.c). The main thread appends what the user submits and      *)
(* clears; the worker appends answers and tool results and builds requests.    *)
(* Every access is one critical section of conv_mutex.                         *)
EXTENDS Integers, Sequences

CONSTANTS
    MaxMessages,  \* MAX_MESSAGES, the system message included
    MaxTexts,     \* bound: user messages
    MaxCalls,     \* bound: tool calls in all
    Disturbances  \* which of the events below are possible

ASSUME BoundAssumption ==
    /\ MaxMessages \in Nat \ {0} /\ MaxTexts \in Nat /\ MaxCalls \in Nat
    /\ Disturbances \subseteq {"submit", "clear", "image", "abandon"}

Texts == 1 .. MaxTexts
CallIds == 1 .. MaxCalls
Unknown == 0  \* the tool id given to a call that came without one

System == [role |-> "system"]
User(t) == [role |-> "user", text |-> t]
Assistant(S) == [role |-> "assistant", calls |-> S]
Results(S) == [role |-> "results", answers |-> S]

VARIABLES
    msgs,       \* state->messages
    texts,      \* history: user messages so far
    typed,      \* the text in submit_input_callback between append and enqueue, 0: none
    inbox,      \* texts in the instruction queue
    phase,      \* where the worker is
    current,    \* the instruction the worker is on
    calls,      \* history: call ids the model has used
    pending,    \* calls that process_response executes
    request,    \* the messages of the request in flight
    forgotten,  \* history: texts removed by /clear or refused at the limit
    calm        \* history: none of the disturbances below has happened

vars == <<msgs, texts, typed, inbox, phase, current, calls, pending, request, forgotten, calm>>

-----------------------------------------------------------------------------
CalledBy(m) == IF m.role = "assistant" THEN m.calls ELSE {}
AnsweredBy(m) == IF m.role = "results" THEN m.answers ELSE {}
Called(ms) == UNION {CalledBy(ms[i]) : i \in DOMAIN ms}
Answered(ms) == UNION {AnsweredBy(ms[i]) : i \in DOMAIN ms}
TextsOf(ms) == {t \in Texts : \E i \in DOMAIN ms : ms[i] = User(t)}

HasRoom(ms) == Len(ms) < MaxMessages

(* Mutant: no check against the limit.                                         *)
AddUnchecked(ms, m) == Append(ms, m)

(* Every add function drops its message at the limit.                          *)
Add(ms, m) == IF HasRoom(ms) THEN Append(ms, m) ELSE ms

(* Mutant: only the newest message is searched for results.                    *)
EnsureFromNewest(ms) ==
    LET missing == Called(ms) \ AnsweredBy(ms[Len(ms)])
    IN  IF missing = {} THEN ms ELSE Add(ms, Results(missing))

(* ensure_tool_results appends one message with the missing results.           *)
EnsureToolResults(ms) ==
    LET missing == Called(ms) \ Answered(ms)
    IN  IF missing = {} THEN ms ELSE Add(ms, Results(missing))

Init ==
    /\ msgs = <<System>>
    /\ texts = 0 /\ typed = 0 /\ inbox = <<>>
    /\ phase = "idle" /\ current = 0
    /\ calls = 0 /\ pending = {} /\ request = <<>> /\ forgotten = {}
    /\ calm = TRUE

-----------------------------------------------------------------------------
(* The main thread.                                                            *)
Busy == phase # "idle" \/ inbox # <<>>

(* Mutant: while the worker is busy the text is only queued.                   *)
AppendTextWhenIdle ==
    /\ typed = 0 /\ texts < MaxTexts
    /\ Busy => "submit" \in Disturbances
    /\ texts' = texts + 1 /\ typed' = texts + 1
    /\ msgs' = IF Busy THEN msgs ELSE Add(msgs, User(texts + 1))
    /\ forgotten' = IF HasRoom(msgs) THEN forgotten ELSE forgotten \cup {texts + 1}
    /\ calm' = (calm /\ ~Busy)
    /\ UNCHANGED <<inbox, phase, current, calls, pending, request>>

(* submit_input_callback: add_user_message, then ai_worker_submit.             *)
AppendText ==
    /\ typed = 0 /\ texts < MaxTexts
    /\ Busy => "submit" \in Disturbances
    /\ texts' = texts + 1 /\ typed' = texts + 1
    /\ msgs' = Add(msgs, User(texts + 1))
    /\ forgotten' = IF HasRoom(msgs) THEN forgotten ELSE forgotten \cup {texts + 1}
    /\ calm' = (calm /\ ~Busy)
    /\ UNCHANGED <<inbox, phase, current, calls, pending, request>>

Enqueue ==
    /\ typed # 0
    /\ inbox' = Append(inbox, typed) /\ typed' = 0
    /\ UNCHANGED <<msgs, texts, phase, current, calls, pending, request, forgotten, calm>>

(* /clear keeps the system message, whatever the worker is doing.              *)
Clear ==
    /\ "clear" \in Disturbances /\ typed = 0 /\ Len(msgs) > 1
    /\ msgs' = <<System>>
    /\ forgotten' = forgotten \cup TextsOf(msgs)
    /\ calm' = (calm /\ ~Busy)
    /\ UNCHANGED <<texts, typed, inbox, phase, current, calls, pending, request>>

-----------------------------------------------------------------------------
(* The worker.                                                                 *)
TakeInstruction ==
    /\ phase = "idle" /\ inbox # <<>>
    /\ current' = Head(inbox) /\ inbox' = Tail(inbox)
    /\ phase' = "calling"
    /\ UNCHANGED <<msgs, texts, typed, calls, pending, request, forgotten, calm>>

(* One attempt: build_openai_request repairs the history and copies it.        *)
BuildRequest ==
    /\ phase = "calling"
    /\ msgs' = EnsureToolResults(msgs)
    /\ request' = msgs'
    /\ phase' = "sent"
    /\ UNCHANGED <<texts, typed, inbox, current, calls, pending, forgotten, calm>>

(* A retryable error: the next attempt builds the request again.               *)
Retry ==
    /\ phase = "sent"
    /\ phase' = "calling" /\ request' = <<>>
    /\ UNCHANGED <<msgs, texts, typed, inbox, current, calls, pending, forgotten, calm>>

(* An interrupt before an attempt, or an error that is not retried.            *)
CallFails ==
    /\ phase \in {"calling", "sent"}
    /\ phase' = "idle" /\ request' = <<>>
    /\ UNCHANGED <<msgs, texts, typed, inbox, current, calls, pending, forgotten, calm>>

(* The answer ends the instruction; one without content is not recorded.       *)
AnswerText ==
    /\ phase = "sent"
    /\ msgs' \in {msgs, Add(msgs, Assistant({}))}
    /\ phase' = "idle" /\ request' = <<>>
    /\ UNCHANGED <<texts, typed, inbox, current, calls, pending, forgotten, calm>>

(* The answer has n calls with an id and perhaps one without: that one is not  *)
(* recorded, but it is executed, to an error result. An answer with nothing to *)
(* record is not recorded.                                                     *)
AnswerTools ==
    /\ phase = "sent"
    /\ \E n \in 0 .. 2, nameless \in {{}, {Unknown}} :
        LET new == calls + 1 .. calls + n
        IN  /\ calls + n <= MaxCalls /\ new \cup nameless # {}
            /\ calls' = calls + n
            /\ pending' = new \cup nameless
            /\ msgs' \in {Add(msgs, Assistant(new))} \cup (IF new = {} THEN {msgs} ELSE {})
    /\ phase' = "tools" /\ request' = <<>>
    /\ UNCHANGED <<texts, typed, inbox, current, forgotten, calm>>

(* process_response gives up before the first tool: no results are recorded.   *)
SetupFails ==
    /\ "abandon" \in Disturbances /\ phase = "tools"
    /\ pending' = {} /\ phase' = "idle" /\ calm' = FALSE
    /\ UNCHANGED <<msgs, texts, typed, inbox, current, calls, request, forgotten>>

(* Mutant: an interrupted round records no results.                            *)
RecordUnlessInterrupted ==
    /\ phase = "tools"
    /\ phase' \in {"calling", "idle"}
    /\ msgs' = IF phase' = "idle" THEN msgs ELSE Add(msgs, Results(pending))
    /\ pending' = {}
    /\ UNCHANGED <<texts, typed, inbox, current, calls, request, forgotten, calm>>

(* add_tool_results; after an interrupt no further call is made. A result that *)
(* became an image has no tool id.                                             *)
RecordResults ==
    /\ phase = "tools"
    /\ \E images \in SUBSET (pending \ {Unknown}) :
        /\ images # {} => "image" \in Disturbances
        /\ msgs' = Add(msgs, Results(pending \ images))
        /\ calm' = (calm /\ images = {})
    /\ pending' = {}
    /\ phase' \in {"calling", "idle"}
    /\ UNCHANGED <<texts, typed, inbox, current, calls, request, forgotten>>

Next ==
    \/ AppendText \/ Enqueue \/ Clear
    \/ TakeInstruction \/ BuildRequest \/ Retry \/ CallFails
    \/ AnswerText \/ AnswerTools \/ SetupFails \/ RecordResults

Spec == Init /\ [][Next]_vars

-----------------------------------------------------------------------------
Message ==
    {System} \cup {User(t) : t \in Texts} \cup {Assistant(S) : S \in SUBSET CallIds}
        \cup {Results(S) : S \in SUBSET (CallIds \cup {Unknown})}

IsHistory(ms) == ms \in Seq(Message) /\ Len(ms) <= MaxMessages

TypeOK ==
    /\ IsHistory(msgs) /\ IsHistory(request)
    /\ texts \in 0 .. MaxTexts /\ typed \in 0 .. MaxTexts /\ current \in 0 .. MaxTexts
    /\ inbox \in Seq(Texts)
    /\ phase \in {"idle", "calling", "sent", "tools"}
    /\ calls \in 0 .. MaxCalls /\ pending \subseteq CallIds \cup {Unknown}
    /\ forgotten \subseteq Texts /\ calm \in BOOLEAN

(* A request below the message limit answers every tool call it contains,      *)
(* through interrupts, abandoned tool rounds, images and /clear.               *)
EveryCallAnswered ==
    phase = "sent" /\ Len(request) < MaxMessages => Called(request) \subseteq Answered(request)

(* No tool call is answered twice, however often a request is rebuilt: the     *)
(* synthetic result and the real one exclude each other.                       *)
AnsweredAtMostOnce ==
    \A i, j \in DOMAIN msgs :
        i # j => AnsweredBy(msgs[i]) \cap AnsweredBy(msgs[j]) \subseteq {Unknown}

(* What the API demands of a history: each tool call it is sent has its one    *)
(* result.                                                                     *)
AnsweredOnce == EveryCallAnswered /\ AnsweredAtMostOnce

(* The request made for an instruction contains its text, unless /clear or the *)
(* limit took it: the text is in the history before the worker can see it.     *)
RequestCarriesInstruction ==
    phase = "sent" => current \in TextsOf(request) \cup forgotten

(* The answers that stand directly behind message i.                           *)
AnswersBehind(ms, i) ==
    UNION {AnsweredBy(ms[j]) : j \in {k \in i + 1 .. Len(ms) :
        \A l \in i + 1 .. k : ms[l].role = "results"}}

(* After an assistant message with tool calls come the tool messages for each  *)
(* of them, before the next assistant or user message, as test_cancel_flow.c   *)
(* demands of a request.                                                       *)
Paired ==
    phase = "sent" /\ Len(request) < MaxMessages =>
        \A i \in DOMAIN request : CalledBy(request[i]) \subseteq AnswersBehind(request, i)

(* As long as nobody submits or clears while the worker is busy, no image was  *)
(* uploaded and no tool round was abandoned, the answers to an assistant       *)
(* message stand directly behind it, through interrupts, retries, failed calls *)
(* and calls without an id.                                                    *)
PairedWhenCalm == calm => Paired
=============================================================================
