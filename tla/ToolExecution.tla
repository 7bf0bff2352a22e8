---------------------------- MODULE ToolExecution ---------------------------
(* process_response (claude.c): one thread per tool call of an assistant       *)
(* response, a tracker that counts completions, Ctrl+C that cancels, and the   *)
(* result list that goes back into the conversation. The worker takes          *)
(* instructions one after the other; the main thread submits and interrupts.   *)
EXTENDS Integers, FiniteSets

CONSTANTS
    ToolCount,        \* tool calls of a response
    MaxRounds,        \* bound: responses with tool calls per instruction
    MaxQueued,        \* capacity of the instruction queue
    MaxInstructions,  \* bound: instructions submitted in all
    MaxLateSubmits    \* bound: instructions submitted while the worker is busy

ASSUME BoundAssumption ==
    /\ ToolCount \in Nat \ {0}
    /\ MaxRounds \in Nat /\ MaxQueued \in Nat
    /\ MaxInstructions \in Nat /\ MaxLateSubmits \in Nat

Calls == 1 .. ToolCount

VARIABLES
    flag,        \* state->interrupt_requested
    queued,      \* instructions in the queue
    submitted, late,   \* history: bounds on what the user types
    phase,       \* where the worker is
    rounds,      \* tool rounds of this instruction
    next,        \* loop index i of the scheduling loop
    valid,       \* calls that have a name and an id
    result,      \* call -> what its result slot holds
    writes,      \* history: call -> how often the slot was filled
    thread,      \* call -> state of its tool thread
    cancelled,   \* calls whose thread pthread_cancel was called on
    notified,    \* calls counted by the tracker
    completed,   \* tracker.completed
    interrupted, \* the local variable of process_response
    orphaned     \* g_log_mutex was kept by a tool cancelled while it logged

user == <<queued, submitted, late>>
tracker == <<notified, completed>>
slots == <<result, writes>>
cancels == <<cancelled, orphaned>>
vars == <<flag, queued, submitted, late, phase, rounds, next, valid, result, writes,
          thread, cancelled, notified, completed, interrupted, orphaned>>

Total == Cardinality(valid)

Started == {i \in Calls : thread[i] # "none"}

Init ==
    /\ flag = FALSE /\ queued = 0 /\ submitted = 0 /\ late = 0
    /\ phase = "idle" /\ rounds = 0 /\ next = 1 /\ valid = {}
    /\ result = [i \in Calls |-> "none"] /\ writes = [i \in Calls |-> 0]
    /\ thread = [i \in Calls |-> "none"]
    /\ cancelled = {} /\ notified = {} /\ completed = 0 /\ interrupted = FALSE
    /\ orphaned = FALSE

-----------------------------------------------------------------------------
(* The main thread. submit_input_callback resets the interrupt flag before it  *)
(* queues; interrupt_callback raises it only while instructions are queued,    *)
(* and logs first: without the log mutex it does not get that far.             *)
Submit ==
    /\ queued < MaxQueued /\ submitted < MaxInstructions
    /\ phase = "idle" \/ late < MaxLateSubmits
    /\ flag' = FALSE
    /\ queued' = queued + 1 /\ submitted' = submitted + 1
    /\ late' = IF phase = "idle" THEN late ELSE late + 1
    /\ UNCHANGED <<phase, rounds, next, valid, slots, thread, cancels, tracker, interrupted>>

CtrlC ==
    /\ queued > 0 /\ ~flag /\ ~orphaned
    /\ flag' = TRUE
    /\ UNCHANGED <<user, phase, rounds, next, valid, slots, thread, cancels, tracker, interrupted>>

-----------------------------------------------------------------------------
(* The worker between tool rounds.                                             *)
TakeInstruction ==
    /\ phase = "idle" /\ queued > 0
    /\ queued' = queued - 1
    /\ phase' = "api" /\ rounds' = 0
    /\ UNCHANGED <<flag, submitted, late, next, valid, slots, thread, cancels, tracker, interrupted>>

(* A response with tool calls: a fresh result list, argument list and tracker. *)
ResponseWithTools ==
    /\ phase = "api" /\ rounds < MaxRounds
    /\ phase' = "schedule" /\ rounds' = rounds + 1 /\ next' = 1
    /\ valid' \in SUBSET Calls
    /\ result' = [i \in Calls |-> "none"] /\ writes' = [i \in Calls |-> 0]
    /\ thread' = [i \in Calls |-> "none"]
    /\ cancelled' = {} /\ notified' = {} /\ completed' = 0 /\ interrupted' = FALSE
    /\ UNCHANGED <<flag, user, orphaned>>

(* A response without tools, an error, or an allocation failure before the     *)
(* first tool starts: process_response returns.                                *)
ResponseWithoutTools ==
    /\ phase = "api"
    /\ phase' = "idle"
    /\ UNCHANGED <<flag, user, rounds, next, valid, slots, thread, cancels, tracker, interrupted>>

(* call_api returns NULL. After a tool round an interrupt is cleared; for the  *)
(* first call of an instruction ai_worker_handle_instruction leaves it raised. *)
NoResponse ==
    /\ phase = "api"
    /\ phase' = "idle"
    /\ flag' = (flag /\ rounds = 0)
    /\ UNCHANGED <<user, rounds, next, valid, slots, thread, cancels, tracker, interrupted>>

-----------------------------------------------------------------------------
(* The scheduling loop. The branches that log wait for the log mutex; when a    *)
(* cancelled thread has kept it the worker stays where it is.                  *)
Fill(S, r) ==
    /\ result' = [i \in Calls |-> IF i \in S THEN r ELSE result[i]]
    /\ writes' = [i \in Calls |-> IF i \in S THEN writes[i] + 1 ELSE writes[i]]

(* Mutant: the calls that were not started get no result.                      *)
AbandonRest ==
    /\ phase = "schedule" /\ next <= ToolCount /\ flag
    /\ interrupted' = TRUE
    /\ next' = ToolCount + 1
    /\ UNCHANGED <<flag, user, phase, rounds, valid, slots, thread, cancels, tracker>>

CancelRest ==
    /\ phase = "schedule" /\ next <= ToolCount /\ flag /\ ~orphaned
    /\ interrupted' = TRUE
    /\ Fill(next .. ToolCount, "notStarted")
    /\ next' = ToolCount + 1
    /\ UNCHANGED <<flag, user, phase, rounds, valid, thread, cancels, tracker>>

SkipNameless ==
    /\ phase = "schedule" /\ next <= ToolCount /\ ~flag /\ ~orphaned /\ next \notin valid
    /\ Fill({next}, "nameless")
    /\ next' = next + 1
    /\ UNCHANGED <<flag, user, phase, rounds, valid, thread, cancels, tracker, interrupted>>

Launch ==
    /\ phase = "schedule" /\ next <= ToolCount /\ ~flag /\ next \in valid
    /\ thread' = [thread EXCEPT ![next] = "running"]
    /\ next' = next + 1
    /\ UNCHANGED <<flag, user, phase, rounds, valid, slots, cancels, tracker, interrupted>>

(* Mutant: no guard against double notification.                               *)
CountAlways(i) ==
    /\ notified' = notified \cup {i}
    /\ completed' = completed + 1

(* tool_tracker_notify_completion, guarded by arg->notified under the mutex.   *)
Count(i) ==
    /\ notified' = notified \cup {i}
    /\ completed' = IF i \in notified THEN completed ELSE completed + 1

(* Mutant: the call whose thread could not be created is not counted.          *)
LaunchFailsUncounted ==
    /\ phase = "schedule" /\ next <= ToolCount /\ ~flag /\ ~orphaned /\ next \in valid
    /\ cancelled' = cancelled \cup Started
    /\ Fill({next}, "noThread")
    /\ next' = next + 1
    /\ UNCHANGED <<flag, user, phase, rounds, valid, thread, orphaned, tracker, interrupted>>

(* pthread_create fails: the threads started so far are cancelled, the call is *)
(* counted as completed, and the loop goes on with the next call.              *)
LaunchFails ==
    /\ phase = "schedule" /\ next <= ToolCount /\ ~flag /\ ~orphaned /\ next \in valid
    /\ cancelled' = cancelled \cup Started
    /\ Fill({next}, "noThread")
    /\ Count(next)
    /\ next' = next + 1
    /\ UNCHANGED <<flag, user, phase, rounds, valid, thread, orphaned, interrupted>>

EndSchedule ==
    /\ phase = "schedule" /\ next > ToolCount
    /\ phase' = IF Started = {} THEN "join" ELSE "wait"
    /\ UNCHANGED <<flag, user, rounds, next, valid, slots, thread, cancels, tracker, interrupted>>

-----------------------------------------------------------------------------
(* The wait loop: it polls the flag at least every 100 ms. The count is read    *)
(* after the flag, so a flag raised in between does not stop this exit.        *)
WaitCompleted ==
    /\ phase = "wait" /\ completed >= Total
    /\ phase' = "join"
    /\ UNCHANGED <<flag, user, rounds, next, valid, slots, thread, cancels, tracker, interrupted>>

(* Mutant: tracker.cancelled is set but the threads are not cancelled.         *)
WaitInterruptedTrackerOnly ==
    /\ phase = "wait" /\ flag /\ ~orphaned
    /\ interrupted' = TRUE
    /\ flag' = FALSE
    /\ phase' = "join"
    /\ UNCHANGED <<user, rounds, next, valid, slots, thread, cancels, tracker>>

WaitInterrupted ==
    /\ phase = "wait" /\ flag /\ ~orphaned
    /\ interrupted' = TRUE
    /\ cancelled' = cancelled \cup Started
    /\ flag' = FALSE
    /\ phase' = "join"
    /\ UNCHANGED <<user, rounds, next, valid, slots, thread, orphaned, tracker>>

(* Mutant: an interrupted round does not wait for its threads.                 *)
JoinUnlessInterrupted ==
    /\ phase = "join" /\ ~orphaned
    /\ interrupted \/ \A i \in Started : thread[i] = "exited"
    /\ phase' = "record"
    /\ UNCHANGED <<flag, user, rounds, next, valid, slots, thread, cancels, tracker, interrupted>>

(* All threads are joined, their number is logged, and then the tracker is     *)
(* destroyed and args is freed.                                                *)
Join ==
    /\ phase = "join" /\ ~orphaned
    /\ \A i \in Started : thread[i] = "exited"
    /\ phase' = "record"
    /\ UNCHANGED <<flag, user, rounds, next, valid, slots, thread, cancels, tracker, interrupted>>

(* add_tool_results, then the next API call unless the user interrupted.       *)
RecordResults ==
    /\ phase = "record"
    /\ flag' = (flag /\ ~interrupted)
    /\ phase' = IF interrupted THEN "idle" ELSE "api"
    /\ UNCHANGED <<user, rounds, next, valid, slots, thread, cancels, tracker, interrupted>>

-----------------------------------------------------------------------------
(* A tool thread. Between the end of the tool and the count there is no        *)
(* cancellation point; inside the tool and inside the callback there are.      *)
(* log_message writes to its file under g_log_mutex and has no cleanup         *)
(* handler: a thread cancelled there takes the mutex with it. Whoever logs     *)
(* afterwards waits for ever, and waiting for a mutex cannot be cancelled.     *)
ToolReturns(i) ==
    /\ thread[i] = "running"
    /\ \E r \in {"text", "image"} : Fill({i}, r)
    /\ thread' = [thread EXCEPT ![i] = "populated"]
    /\ UNCHANGED <<flag, user, phase, rounds, next, valid, cancels, tracker, interrupted>>

Notify(i) ==
    /\ thread[i] = "populated"
    /\ Count(i)
    /\ thread' = [thread EXCEPT ![i] = "callback"]
    /\ UNCHANGED <<flag, user, phase, rounds, next, valid, slots, cancels, interrupted>>

CallbackReturns(i) ==
    /\ thread[i] = "callback"
    /\ thread' = [thread EXCEPT ![i] = "exited"]
    /\ UNCHANGED <<flag, user, phase, rounds, next, valid, slots, cancels, tracker, interrupted>>

ActOnCancel(i) ==
    /\ i \in cancelled /\ thread[i] \in {"running", "callback"}
    /\ thread' = [thread EXCEPT ![i] = "cleanup"]
    /\ orphaned' \in {orphaned, TRUE}
    /\ UNCHANGED <<flag, user, phase, rounds, next, valid, slots, cancelled, tracker, interrupted>>

BlockOnLog(i) ==
    /\ orphaned /\ thread[i] \in {"running", "callback"}
    /\ thread' = [thread EXCEPT ![i] = "blocked"]
    /\ UNCHANGED <<flag, user, phase, rounds, next, valid, slots, cancels, tracker, interrupted>>

(* Mutant: the handler writes its result without looking at `notified`.        *)
CleanupOverwriting(i) ==
    /\ thread[i] = "cleanup"
    /\ Fill({i}, "cancelled")
    /\ thread' = [thread EXCEPT ![i] = "cleaned"]
    /\ UNCHANGED <<flag, user, phase, rounds, next, valid, cancels, tracker, interrupted>>

(* tool_thread_cleanup: write a result if none was counted, then notify.       *)
Cleanup(i) ==
    /\ thread[i] = "cleanup"
    /\ IF i \in notified THEN UNCHANGED slots ELSE Fill({i}, "cancelled")
    /\ thread' = [thread EXCEPT ![i] = "cleaned"]
    /\ UNCHANGED <<flag, user, phase, rounds, next, valid, cancels, tracker, interrupted>>

CleanupNotify(i) ==
    /\ thread[i] = "cleaned"
    /\ Count(i)
    /\ \E end \in {"exited"} \cup (IF orphaned THEN {"blocked"} ELSE {}) :
          thread' = [thread EXCEPT ![i] = end]
    /\ UNCHANGED <<flag, user, phase, rounds, next, valid, slots, cancels, interrupted>>

-----------------------------------------------------------------------------
Main == Submit \/ CtrlC

Schedule == CancelRest \/ SkipNameless \/ Launch \/ LaunchFails \/ EndSchedule

Worker ==
    \/ TakeInstruction \/ ResponseWithTools \/ ResponseWithoutTools \/ NoResponse
    \/ Schedule
    \/ WaitCompleted \/ WaitInterrupted \/ Join \/ RecordResults

(* What a tool thread does by itself once its tool has returned or was         *)
(* cancelled.                                                                  *)
Unwind(i) ==
    \/ Notify(i) \/ CallbackReturns(i) \/ ActOnCancel(i) \/ BlockOnLog(i)
    \/ Cleanup(i) \/ CleanupNotify(i)

Next == Main \/ Worker \/ \E i \in Calls : ToolReturns(i) \/ Unwind(i)

(* The scheduler runs every thread. A tool itself may never return.            *)
Fairness == WF_vars(Worker) /\ \A i \in Calls : WF_vars(Unwind(i))

Spec == Init /\ [][Next]_vars /\ Fairness

-----------------------------------------------------------------------------
Outcome == {"none", "text", "image", "cancelled", "notStarted", "nameless", "noThread"}
ThreadState ==
    {"none", "running", "populated", "callback", "blocked", "cleanup", "cleaned", "exited"}

TypeOK ==
    /\ flag \in BOOLEAN /\ interrupted \in BOOLEAN /\ orphaned \in BOOLEAN
    /\ queued \in 0 .. MaxQueued /\ submitted \in 0 .. MaxInstructions
    /\ late \in 0 .. MaxLateSubmits
    /\ phase \in {"idle", "api", "schedule", "wait", "join", "record"}
    /\ rounds \in 0 .. MaxRounds /\ next \in 1 .. ToolCount + 1
    /\ valid \subseteq Calls /\ cancelled \subseteq Calls /\ notified \subseteq Calls
    /\ result \in [Calls -> Outcome] /\ writes \in [Calls -> Nat]
    /\ thread \in [Calls -> ThreadState]
    /\ completed \in 0 .. ToolCount

(* When the results go into the conversation every tool call has one, however  *)
(* calls failed to start, were interrupted or were cancelled half way.         *)
EveryCallAnswered == phase = "record" => \A i \in Calls : result[i] # "none"

(* A result slot is filled once: a second write would leak the first output    *)
(* and could replace a finished result by a cancellation.                      *)
OneResultPerCall == \A i \in Calls : writes[i] <= 1

(* The tracker, the arguments and the result list live in process_response;    *)
(* no tool thread is left that could touch them once it goes on.               *)
TrackerOutlivesThreads ==
    phase \in {"idle", "api", "record"} => \A i \in Calls : thread[i] \in {"none", "exited"}

(* The tracker counts each call once, and a wait that was not interrupted ends *)
(* only when all of them are counted.                                          *)
CountsEachCallOnce ==
    /\ completed = Cardinality(notified) /\ notified \subseteq valid
    /\ phase = "record" /\ ~interrupted => completed = Total

(* A tool and the handler of its cancellation write one result and notify once *)
(* between them, wherever the cancellation strikes.                            *)
AccountedForOnce == OneResultPerCall /\ CountsEachCallOnce

(* Ctrl+C during the wait ends the round even if a tool never returns, unless  *)
(* a later submission takes the interrupt back or one of the cancelled tools   *)
(* keeps the log mutex.                                                        *)
InterruptEndsRound ==
    flag /\ phase = "wait" ~> phase = "record" \/ late > 0 \/ orphaned

ToolsReturn == \A i \in Calls : thread[i] = "running" ~> thread[i] # "running"

(* If every tool returns, nothing is submitted while tools run and no          *)
(* cancelled tool keeps the log mutex, a round that was started ends, whatever *)
(* failed to start or was interrupted.                                         *)
UndisturbedRoundEnds ==
    ToolsReturn => (phase = "schedule" ~> phase = "record" \/ late > 0 \/ orphaned)

(* If every tool returns and the log mutex is not lost, a round that was       *)
(* started ends: every tool call gets its result into the conversation, as the *)
(* comment at the interrupt says.                                              *)
RoundEnds == ToolsReturn => (phase = "schedule" ~> phase = "record" \/ orphaned)
=============================================================================
