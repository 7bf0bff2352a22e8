------------------------------- MODULE Session ------------------------------
(* interactive_mode (claude.c) with ai_worker.c: the main thread's event loop  *)
(* and its exit, the worker thread, and the tool threads of the running round. *)
(* The queues are reduced to their lengths (TuiMessageQueue and                *)
(* AIInstructionQueue model them), a round to the life of its threads          *)
(* (ToolExecution models it). What is new here is the end: the interrupt, the  *)
(* 100 ms of grace, pthread_cancel at a cancellation point, the locks a        *)
(* cancelled thread leaves behind, and the order in which things are freed.    *)
EXTENDS Integers

CONSTANTS
    Tools,       \* tool threads of a round
    MaxQueued,   \* capacity of the instruction queue
    MaxPending,  \* capacity of the TUI message queue
    MaxSubmits   \* bound: instructions the user submits

ASSUME SessionAssumption ==
    /\ MaxQueued \in Nat \ {0} /\ MaxPending \in Nat \ {0} /\ MaxSubmits \in Nat
    /\ "main" \notin Tools /\ "worker" \notin Tools /\ "none" \notin Tools

VARIABLES
    main,        \* where interactive_mode, then main, is
    worker,      \* where the worker thread is
    tool,        \* tool thread -> none, running or exited
    doomed,      \* threads pthread_cancel was called on
    running,     \* ctx->running
    flag,        \* state->interrupt_requested
    queued,      \* instructions in the queue
    submits,     \* history: instructions submitted
    instrQueue, tuiQueue,   \* open, shutdown or freed
    pending,     \* TUI messages not yet shown
    followUp,    \* the request at hand follows a tool round
    interrupted, \* the local variable of process_response
    logOwner,    \* holder of g_log_mutex
    convOwner,   \* holder of conv_mutex
    abandoned    \* history: the worker was cancelled while tools ran

threads == <<main, worker, tool, doomed>>
shared == <<running, flag>>
queues == <<queued, submits, instrQueue, tuiQueue, pending>>
locals == <<followUp, interrupted>>
locks == <<logOwner, convOwner>>
vars == <<threads, shared, queues, locals, locks, abandoned>>

Init ==
    /\ main = "loop" /\ worker = "dequeue" /\ tool = [t \in Tools |-> "none"] /\ doomed = {}
    /\ running = TRUE /\ flag = FALSE
    /\ queued = 0 /\ submits = 0 /\ instrQueue = "open" /\ tuiQueue = "open" /\ pending = 0
    /\ followUp = FALSE /\ interrupted = FALSE
    /\ logOwner = "none" /\ convOwner = "none" /\ abandoned = FALSE

LiveTools == {t \in Tools : tool[t] = "running"}

(* Mutant: a full queue grows.                                                 *)
PostedAlways == pending + 1

(* post_tui_message: a full queue drops its oldest message.                    *)
Posted == IF pending < MaxPending THEN pending + 1 ELSE pending

-----------------------------------------------------------------------------
(* The main thread in the event loop.                                          *)

(* submit_input_callback: a full queue makes enqueue_instruction wait.         *)
Submit ==
    /\ main = "loop" /\ convOwner = "none"
    /\ queued < MaxQueued /\ submits < MaxSubmits
    /\ flag' = FALSE
    /\ queued' = queued + 1 /\ submits' = submits + 1
    /\ pending' = Posted
    /\ UNCHANGED <<threads, running, instrQueue, tuiQueue, locals, locks, abandoned>>

(* process_tui_messages in a frame of the loop.                                *)
ShowMessage ==
    /\ main = "loop" /\ pending > 0
    /\ pending' = pending - 1
    /\ UNCHANGED <<threads, shared, queued, submits, instrQueue, tuiQueue, locals, locks, abandoned>>

(* interrupt_callback: an interrupt while instructions are queued, the exit    *)
(* otherwise. It logs either way.                                              *)
CtrlC ==
    /\ main = "loop" /\ logOwner = "none"
    /\ IF queued > 0 THEN flag' = TRUE /\ main' = main
                     ELSE flag' = flag /\ main' = "stop"
    /\ pending' = Posted
    /\ UNCHANGED <<worker, tool, doomed, running, queued, submits, instrQueue, tuiQueue,
                   locals, locks, abandoned>>

(* Ctrl+D, /exit, /quit or :q.                                                 *)
Leave ==
    /\ main = "loop"
    /\ main' = "stop"
    /\ UNCHANGED <<worker, tool, doomed, shared, queues, locals, locks, abandoned>>

-----------------------------------------------------------------------------
(* The main thread after the event loop.                                       *)
MainStep(from, to) ==
    /\ main = from /\ main' = to
    /\ UNCHANGED <<worker, tool, submits, queued, followUp, interrupted, locks, abandoned>>

(* ai_worker_stop, one assignment or call after the other.                     *)
ClearRunning ==
    /\ MainStep("stop", "flag")
    /\ running' = FALSE
    /\ UNCHANGED <<doomed, flag, instrQueue, tuiQueue, pending>>

RaiseFlag ==
    /\ MainStep("flag", "shutdown")
    /\ flag' = TRUE
    /\ UNCHANGED <<doomed, running, instrQueue, tuiQueue, pending>>

ShutdownInstructions ==
    /\ MainStep("shutdown", "grace")
    /\ instrQueue' = "shutdown"
    /\ UNCHANGED <<doomed, shared, tuiQueue, pending>>

(* Mutant: the worker is not cancelled, only waited for.                       *)
CancelNobody ==
    /\ MainStep("grace", "join")
    /\ logOwner = "none"
    /\ UNCHANGED <<doomed, shared, instrQueue, tuiQueue, pending>>

(* The grace of 100 ms is over, however far the worker got in it.              *)
CancelWorker ==
    /\ MainStep("grace", "join")
    /\ logOwner = "none"
    /\ doomed' = doomed \cup {"worker"}
    /\ UNCHANGED <<shared, instrQueue, tuiQueue, pending>>

(* Mutant: the worker is cancelled and not joined.                             *)
ProceedUnjoined ==
    /\ MainStep("join", "drain")
    /\ UNCHANGED <<doomed, shared, instrQueue, tuiQueue, pending>>

JoinWorker ==
    /\ MainStep("join", "drain")
    /\ worker = "exited"
    /\ UNCHANGED <<doomed, shared, instrQueue, tuiQueue, pending>>

(* Mutant: one message instead of all of them.                                 *)
DrainOnce ==
    /\ MainStep("drain", "freeInstructions")
    /\ pending' = IF pending > 0 THEN pending - 1 ELSE 0
    /\ UNCHANGED <<doomed, shared, instrQueue, tuiQueue>>

(* tui_drain_message_queue: until a poll finds nothing.                        *)
Drain ==
    /\ MainStep("drain", "freeInstructions")
    /\ pending' = 0
    /\ UNCHANGED <<doomed, shared, instrQueue, tuiQueue>>

FreeInstructions ==
    /\ MainStep("freeInstructions", "shutdownTui")
    /\ instrQueue' = "freed"
    /\ UNCHANGED <<doomed, shared, tuiQueue, pending>>

ShutdownTui ==
    /\ MainStep("shutdownTui", "freeTui")
    /\ tuiQueue' = "shutdown"
    /\ UNCHANGED <<doomed, shared, instrQueue, pending>>

FreeTui ==
    /\ MainStep("freeTui", "freeConversation")
    /\ tuiQueue' = "freed"
    /\ UNCHANGED <<doomed, shared, instrQueue, pending>>

(* conversation_free takes conv_mutex, log_shutdown takes g_log_mutex.         *)
FreeConversation ==
    /\ MainStep("freeConversation", "closeLog")
    /\ convOwner = "none"
    /\ UNCHANGED <<doomed, shared, instrQueue, tuiQueue, pending>>

CloseLog ==
    /\ MainStep("closeLog", "done")
    /\ logOwner = "none"
    /\ UNCHANGED <<doomed, shared, instrQueue, tuiQueue, pending>>

-----------------------------------------------------------------------------
(* The worker. Inside log_message it does nothing else.                        *)
WorkerStep(from, to) ==
    /\ worker = from /\ worker' = to /\ logOwner # "worker"
    /\ UNCHANGED <<main, running, submits, instrQueue, tuiQueue, logOwner, abandoned>>

Dequeue ==
    /\ WorkerStep("dequeue", "dequeued")
    /\ queued > 0 /\ queued' = queued - 1
    /\ UNCHANGED <<tool, doomed, flag, pending, locals, convOwner>>

QueueClosed ==
    /\ WorkerStep("dequeue", "exited")
    /\ queued = 0 /\ instrQueue = "shutdown"
    /\ UNCHANGED <<tool, doomed, flag, queued, pending, locals, convOwner>>

Handle ==
    /\ WorkerStep("dequeued", "call")
    /\ running
    /\ followUp' = FALSE /\ interrupted' = FALSE
    /\ pending' = Posted
    /\ UNCHANGED <<tool, doomed, flag, queued, convOwner>>

DropInstruction ==
    /\ WorkerStep("dequeued", "exited")
    /\ ~running
    /\ UNCHANGED <<tool, doomed, flag, queued, pending, locals, convOwner>>

(* call_api_with_retries: the flag is read at the top of every attempt.        *)
Refused ==
    /\ WorkerStep("call", "return")
    /\ flag
    /\ flag' = ~followUp
    /\ pending' = Posted
    /\ UNCHANGED <<tool, doomed, queued, locals, convOwner>>

BuildRequest ==
    /\ WorkerStep("call", "build")
    /\ ~flag /\ convOwner = "none"
    /\ convOwner' = "worker"
    /\ UNCHANGED <<tool, doomed, flag, queued, pending, locals>>

SendRequest ==
    /\ WorkerStep("build", "request")
    /\ convOwner' = "none"
    /\ UNCHANGED <<tool, doomed, flag, queued, pending, locals>>

(* A retryable error: wait, then the next attempt.                             *)
Retry ==
    /\ WorkerStep("request", "call")
    /\ pending' = Posted
    /\ UNCHANGED <<tool, doomed, flag, queued, locals, convOwner>>

(* No more attempts. After a tool round an interrupt raised meanwhile is lost.  *)
GiveUp ==
    /\ WorkerStep("request", "return")
    /\ flag' = (flag /\ ~followUp)
    /\ pending' = Posted
    /\ UNCHANGED <<tool, doomed, queued, locals, convOwner>>

AnswerWithoutTools ==
    /\ WorkerStep("request", "return")
    /\ pending' = Posted
    /\ UNCHANGED <<tool, doomed, flag, queued, locals, convOwner>>

StartTools == \E S \in SUBSET Tools : tool' = [t \in Tools |-> IF t \in S THEN "running" ELSE "none"]

(* The scheduling loop starts the tools; it stops when it sees the flag.       *)
AnswerWithTools ==
    /\ WorkerStep("request", "tools")
    /\ StartTools
    /\ doomed' = doomed \ Tools
    /\ interrupted' \in {FALSE, flag}
    /\ pending' = Posted
    /\ UNCHANGED <<flag, queued, followUp, convOwner>>

ToolsDone ==
    /\ WorkerStep("tools", "join")
    /\ LiveTools = {}
    /\ UNCHANGED <<tool, doomed, flag, queued, pending, locals, convOwner>>

InterruptTools ==
    /\ WorkerStep("tools", "join")
    /\ flag /\ flag' = FALSE
    /\ interrupted' = TRUE
    /\ doomed' = doomed \cup {t \in Tools : tool[t] # "none"}
    /\ UNCHANGED <<tool, queued, pending, followUp, convOwner>>

JoinTools ==
    /\ WorkerStep("join", "record")
    /\ LiveTools = {}
    /\ UNCHANGED <<tool, doomed, flag, queued, pending, locals, convOwner>>

(* Mutant: an interrupted round asks the model again.                          *)
RecordAndAskAgain ==
    /\ WorkerStep("record", "call")
    /\ convOwner = "none"
    /\ flag' = (flag /\ ~interrupted)
    /\ followUp' = TRUE
    /\ pending' = Posted
    /\ UNCHANGED <<tool, doomed, queued, interrupted, convOwner>>

(* add_tool_results; the next request unless the round was interrupted.        *)
RecordResults ==
    /\ WorkerStep("record", IF interrupted THEN "return" ELSE "call")
    /\ convOwner = "none"
    /\ flag' = (flag /\ ~interrupted)
    /\ followUp' = TRUE
    /\ pending' = Posted
    /\ UNCHANGED <<tool, doomed, queued, interrupted, convOwner>>

NextInstruction ==
    /\ WorkerStep("return", IF running THEN "dequeue" ELSE "exited")
    /\ UNCHANGED <<tool, doomed, flag, queued, pending, locals, convOwner>>

-----------------------------------------------------------------------------
(* Tool threads: they write lines to the TUI queue and come to an end.         *)
ToolPosts(t) ==
    /\ tool[t] = "running" /\ logOwner # t /\ tuiQueue # "freed"
    /\ pending' = Posted
    /\ UNCHANGED <<threads, shared, queued, submits, instrQueue, tuiQueue, locals, locks, abandoned>>

ToolEnds(t) ==
    /\ tool[t] = "running" /\ logOwner # t
    /\ tool' = [tool EXCEPT ![t] = "exited"]
    /\ pending' = IF tuiQueue = "freed" THEN pending ELSE Posted
    /\ UNCHANGED <<main, worker, doomed, shared, queued, submits, instrQueue, tuiQueue,
                   locals, locks, abandoned>>

-----------------------------------------------------------------------------
(* log_message holds its mutex across fprintf and fflush, which are            *)
(* cancellation points.                                                        *)
LogBegins(t) ==
    /\ logOwner = "none" /\ logOwner' = t
    /\ IF t = "worker" THEN worker \notin {"dequeue", "dequeued", "exited"}
                     ELSE tool[t] = "running"
    /\ UNCHANGED <<threads, shared, queues, locals, convOwner, abandoned>>

LogEnds(t) ==
    /\ logOwner = t /\ logOwner' = "none"
    /\ IF t = "worker" THEN worker # "exited" ELSE tool[t] = "running"
    /\ UNCHANGED <<threads, shared, queues, locals, convOwner, abandoned>>

(* Cancellation at a wait, the network, a join or a write. Neither thread has  *)
(* a handler that gives a lock back; the worker has none at all.               *)
WorkerCancelled ==
    /\ "worker" \in doomed
    /\ worker \in {"dequeue", "request", "tools", "join"} \/ (logOwner = "worker" /\ worker # "exited")
    /\ worker' = "exited"
    /\ abandoned' = (abandoned \/ LiveTools # {})
    /\ UNCHANGED <<main, tool, doomed, shared, queues, locals, locks>>

ToolCancelled(t) ==
    /\ t \in doomed /\ tool[t] = "running"
    /\ tool' = [tool EXCEPT ![t] = "exited"]
    /\ pending' = IF tuiQueue = "freed" THEN pending ELSE Posted
    /\ UNCHANGED <<main, worker, doomed, shared, queued, submits, instrQueue, tuiQueue,
                   locals, locks, abandoned>>

-----------------------------------------------------------------------------
EventLoop == Submit \/ ShowMessage \/ CtrlC \/ Leave

Exit ==
    \/ ClearRunning \/ RaiseFlag \/ ShutdownInstructions \/ CancelWorker \/ JoinWorker
    \/ Drain \/ FreeInstructions \/ ShutdownTui \/ FreeTui \/ FreeConversation \/ CloseLog

Worker ==
    \/ Dequeue \/ QueueClosed \/ Handle \/ DropInstruction
    \/ Refused \/ BuildRequest \/ SendRequest
    \/ ToolsDone \/ InterruptTools \/ JoinTools \/ RecordResults \/ NextInstruction

(* What the model's server decides; it may never answer.                       *)
Server == Retry \/ GiveUp \/ AnswerWithoutTools \/ AnswerWithTools

Next ==
    \/ EventLoop \/ Exit \/ Worker \/ Server \/ WorkerCancelled
    \/ LogBegins("worker") \/ LogEnds("worker")
    \/ \E t \in Tools :
          ToolPosts(t) \/ ToolEnds(t) \/ ToolCancelled(t) \/ LogBegins(t) \/ LogEnds(t)

(* Every thread that can go on does so, between two log lines too; a doomed    *)
(* thread reaches a cancellation point. Servers and tools promise nothing.     *)
Fairness ==
    /\ SF_vars(Exit) /\ SF_vars(Worker)
    /\ SF_vars(WorkerCancelled) /\ WF_vars(LogEnds("worker"))
    /\ \A t \in Tools : SF_vars(ToolCancelled(t)) /\ WF_vars(LogEnds(t))

Spec == Init /\ [][Next]_vars /\ Fairness

-----------------------------------------------------------------------------
TypeOK ==
    /\ main \in {"loop", "stop", "flag", "shutdown", "grace", "join", "drain",
                 "freeInstructions", "shutdownTui", "freeTui", "freeConversation",
                 "closeLog", "done"}
    /\ worker \in {"dequeue", "dequeued", "call", "build", "request", "tools", "join",
                   "record", "return", "exited"}
    /\ tool \in [Tools -> {"none", "running", "exited"}]
    /\ doomed \subseteq Tools \cup {"worker"}
    /\ running \in BOOLEAN /\ flag \in BOOLEAN /\ followUp \in BOOLEAN
    /\ interrupted \in BOOLEAN /\ abandoned \in BOOLEAN
    /\ queued \in 0 .. MaxQueued /\ submits \in 0 .. MaxSubmits /\ pending \in 0 .. MaxPending
    /\ instrQueue \in {"open", "shutdown", "freed"} /\ tuiQueue \in {"open", "shutdown", "freed"}
    /\ logOwner \in Tools \cup {"worker", "none"} /\ convOwner \in {"worker", "none"}

(* "Must be called after all threads have stopped using it" (message_queue.h): *)
(* a queue is freed when the worker is gone, and the tool threads with it      *)
(* unless the worker was cancelled in the middle of their round.               *)
QueuesOutliveWorker ==
    instrQueue = "freed" \/ tuiQueue = "freed" =>
        worker = "exited" /\ (LiveTools = {} \/ abandoned)

(* The same without the exception.                                             *)
QueueOutlivesTools == tuiQueue = "freed" => LiveTools = {}

(* "This order guarantees that outstanding UI updates are rendered before      *)
(* ncurses exits" (ASYNC_DESIGN.md), again unless a round was abandoned.       *)
UpdatesRendered == tuiQueue = "freed" => pending = 0 \/ abandoned

(* Once ai_worker_stop has raised the flag no attempt of a request begins: the *)
(* worker takes the flag down only on its way out.                             *)
NoAttemptAfterStop ==
    [][main \notin {"loop", "stop", "flag"} => ~(worker = "call" /\ worker' = "build")]_vars

(* A lock whose holder is gone.                                                *)
Orphaned ==
    \/ worker = "exited" /\ (logOwner = "worker" \/ convOwner = "worker")
    \/ \E t \in Tools : logOwner = t /\ tool[t] # "running"

(* Whatever the server and the tools do, a program told to leave comes to its  *)
(* end, unless a cancelled thread took a lock with it.                         *)
ExitCompletes == main # "loop" ~> main = "done" \/ Orphaned
=============================================================================
