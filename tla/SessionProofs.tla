--------------------------- MODULE SessionProofs ----------------------------
(* For any set of tool threads and any queue capacities: the queues outlive    *)
(* the worker, what the worker posted is shown, and no attempt of a request    *)
(* begins once ai_worker_stop has raised the interrupt.                        *)
EXTENDS Session, TLAPS

Freeing ==
    {"freeInstructions", "shutdownTui", "freeTui", "freeConversation", "closeLog", "done"}
Stopped == main \notin {"loop", "stop", "flag"}

(* A tool runs only in a round of the worker, or after the worker was          *)
(* cancelled in one.                                                           *)
RoundInv ==
    /\ \A t \in Tools : tool[t] = "running" => worker \in {"tools", "join"} \/ abandoned
    /\ abandoned => worker = "exited"

(* What the exit has reached says what is gone, freed and shown.               *)
ExitInv ==
    /\ main \in {"drain"} \cup Freeing => worker = "exited"
    /\ instrQueue = "freed" => main \in Freeing
    /\ tuiQueue = "freed" => main \in Freeing
    /\ main \in Freeing => pending = 0 \/ abandoned

(* After the stop the flag is up, or the worker has seen it and is leaving.    *)
StopInv ==
    /\ main \notin {"loop", "stop"} => ~running
    /\ Stopped => \/ flag
                  \/ worker \in {"return", "exited"}
                  \/ worker \in {"join", "record"} /\ interrupted

IInv == TypeOK /\ RoundInv /\ ExitInv /\ StopInv

(* TypeOK, part by part.                                                       *)
ThreadTypes ==
    /\ main \in {"loop", "stop", "flag", "shutdown", "grace", "join", "drain",
                 "freeInstructions", "shutdownTui", "freeTui", "freeConversation",
                 "closeLog", "done"}
    /\ worker \in {"dequeue", "dequeued", "call", "build", "request", "tools", "join",
                   "record", "return", "exited"}
    /\ tool \in [Tools -> {"none", "running", "exited"}]
    /\ doomed \subseteq Tools \cup {"worker"}
FlagTypes ==
    /\ running \in BOOLEAN /\ flag \in BOOLEAN /\ followUp \in BOOLEAN
    /\ interrupted \in BOOLEAN /\ abandoned \in BOOLEAN
CountTypes ==
    queued \in 0 .. MaxQueued /\ submits \in 0 .. MaxSubmits /\ pending \in 0 .. MaxPending
ResourceTypes ==
    /\ instrQueue \in {"open", "shutdown", "freed"} /\ tuiQueue \in {"open", "shutdown", "freed"}
    /\ logOwner \in Tools \cup {"worker", "none"} /\ convOwner \in {"worker", "none"}

LEMMA TypeParts == TypeOK <=> ThreadTypes /\ FlagTypes /\ CountTypes /\ ResourceTypes
BY DEF TypeOK, ThreadTypes, FlagTypes, CountTypes, ResourceTypes

LEMMA InitIInv == Init => IInv
<1>. SUFFICES ASSUME Init PROVE IInv
  OBVIOUS
<1>1. ThreadTypes
  BY DEF Init, ThreadTypes
<1>2. FlagTypes
  BY DEF Init, FlagTypes
<1>3. CountTypes
  BY SessionAssumption DEF Init, CountTypes
<1>4. ResourceTypes
  BY DEF Init, ResourceTypes
<1>5. RoundInv /\ ExitInv /\ StopInv
  BY DEF Init, RoundInv, ExitInv, StopInv, Freeing, Stopped
<1>. QED
  BY <1>1, <1>2, <1>3, <1>4, <1>5, TypeParts DEF IInv

LEMMA PostedType == ASSUME TypeOK PROVE Posted \in 0 .. MaxPending
BY SessionAssumption DEF TypeOK, Posted

(* The event loop keeps the invariant.                                         *)
LEMMA EventLoopKeeps == ASSUME IInv, EventLoop PROVE IInv'
<1>1. CASE Submit
  <2>1. TypeOK'
    <3>1. ThreadTypes'
      BY <1>1
      DEF IInv, TypeOK, ThreadTypes, Submit, threads, shared, queues, locals, locks
    <3>2. FlagTypes'
      BY <1>1
      DEF IInv, TypeOK, FlagTypes, Submit, threads, shared, queues, locals, locks
    <3>3. CountTypes'
      BY <1>1, PostedType, SessionAssumption
      DEF IInv, TypeOK, CountTypes, Submit, threads, shared, queues, locals, locks
    <3>4. ResourceTypes'
      BY <1>1
      DEF IInv, TypeOK, ResourceTypes, Submit, threads, shared, queues, locals, locks
    <3>. QED
      BY <3>1, <3>2, <3>3, <3>4
      DEF TypeOK, ThreadTypes, FlagTypes, CountTypes, ResourceTypes
  <2>2. RoundInv'
    BY <1>1
    DEF IInv, TypeOK, RoundInv, Submit, threads, shared, queues, locals, locks
  <2>3. ExitInv'
    BY <1>1
    DEF IInv, TypeOK, RoundInv, ExitInv, Freeing, Submit, threads, shared, queues,
        locals, locks
  <2>4. StopInv'
    BY <1>1
    DEF IInv, TypeOK, StopInv, Stopped, Submit, threads, shared, queues, locals, locks
  <2>. QED
    BY <2>1, <2>2, <2>3, <2>4 DEF IInv
<1>2. CASE ShowMessage
  <2>1. TypeOK'
    BY <1>2, PostedType, SessionAssumption
    DEF IInv, TypeOK, ShowMessage, threads, shared, queues, locals, locks
  <2>2. RoundInv'
    BY <1>2
    DEF IInv, TypeOK, RoundInv, ShowMessage, threads, shared, queues, locals, locks
  <2>3. ExitInv'
    BY <1>2
    DEF IInv, TypeOK, RoundInv, ExitInv, Freeing, ShowMessage, threads, shared,
        queues, locals, locks
  <2>4. StopInv'
    BY <1>2
    DEF IInv, TypeOK, StopInv, Stopped, ShowMessage, threads, shared, queues, locals, locks
  <2>. QED
    BY <2>1, <2>2, <2>3, <2>4 DEF IInv
<1>3. CASE CtrlC
  <2>1. TypeOK'
    <3>1. ThreadTypes'
      BY <1>3
      DEF IInv, TypeOK, ThreadTypes, CtrlC, threads, shared, queues, locals, locks
    <3>2. FlagTypes'
      BY <1>3
      DEF IInv, TypeOK, FlagTypes, CtrlC, threads, shared, queues, locals, locks
    <3>3. CountTypes'
      BY <1>3, PostedType, SessionAssumption
      DEF IInv, TypeOK, CountTypes, CtrlC, threads, shared, queues, locals, locks
    <3>4. ResourceTypes'
      BY <1>3
      DEF IInv, TypeOK, ResourceTypes, CtrlC, threads, shared, queues, locals, locks
    <3>. QED
      BY <3>1, <3>2, <3>3, <3>4
      DEF TypeOK, ThreadTypes, FlagTypes, CountTypes, ResourceTypes
  <2>2. RoundInv'
    BY <1>3
    DEF IInv, TypeOK, RoundInv, CtrlC, threads, shared, queues, locals, locks
  <2>3. ExitInv'
    BY <1>3
    DEF IInv, TypeOK, RoundInv, ExitInv, Freeing, CtrlC, threads, shared, queues,
        locals, locks
  <2>4. StopInv'
    BY <1>3
    DEF IInv, TypeOK, StopInv, Stopped, CtrlC, threads, shared, queues, locals, locks
  <2>. QED
    BY <2>1, <2>2, <2>3, <2>4 DEF IInv
<1>4. CASE Leave
  <2>1. TypeOK'
    BY <1>4, PostedType, SessionAssumption
    DEF IInv, TypeOK, Leave, threads, shared, queues, locals, locks
  <2>2. RoundInv'
    BY <1>4
    DEF IInv, TypeOK, RoundInv, Leave, threads, shared, queues, locals, locks
  <2>3. ExitInv'
    BY <1>4
    DEF IInv, TypeOK, RoundInv, ExitInv, Freeing, Leave, threads, shared, queues,
        locals, locks
  <2>4. StopInv'
    BY <1>4
    DEF IInv, TypeOK, StopInv, Stopped, Leave, threads, shared, queues, locals, locks
  <2>. QED
    BY <2>1, <2>2, <2>3, <2>4 DEF IInv
<1>. QED
  BY <1>1, <1>2, <1>3, <1>4 DEF EventLoop

(* The exit keeps it: what comes after the join comes after the worker.        *)
LEMMA ExitKeeps == ASSUME IInv, Exit PROVE IInv'
<1>1. CASE ClearRunning
  <2>1. TypeOK'
    <3>1. ThreadTypes'
      BY <1>1
      DEF IInv, TypeOK, ThreadTypes, ClearRunning, MainStep, threads, shared,
          queues, locals, locks
    <3>2. FlagTypes'
      BY <1>1
      DEF IInv, TypeOK, FlagTypes, ClearRunning, MainStep, threads, shared,
          queues, locals, locks
    <3>3. CountTypes'
      BY <1>1, PostedType, SessionAssumption
      DEF IInv, TypeOK, CountTypes, ClearRunning, MainStep, threads, shared,
          queues, locals, locks
    <3>4. ResourceTypes'
      BY <1>1
      DEF IInv, TypeOK, ResourceTypes, ClearRunning, MainStep, threads, shared,
          queues, locals, locks
    <3>. QED
      BY <3>1, <3>2, <3>3, <3>4
      DEF TypeOK, ThreadTypes, FlagTypes, CountTypes, ResourceTypes
  <2>2. RoundInv'
    BY <1>1
    DEF IInv, TypeOK, RoundInv, ClearRunning, MainStep, threads, shared, queues,
        locals, locks
  <2>3. ExitInv'
    BY <1>1
    DEF IInv, TypeOK, RoundInv, ExitInv, Freeing, ClearRunning, MainStep, threads,
        shared, queues, locals, locks
  <2>4. StopInv'
    BY <1>1
    DEF IInv, TypeOK, StopInv, Stopped, ClearRunning, MainStep, threads, shared,
        queues, locals, locks
  <2>. QED
    BY <2>1, <2>2, <2>3, <2>4 DEF IInv
<1>2. CASE RaiseFlag
  <2>1. TypeOK'
    BY <1>2, PostedType, SessionAssumption
    DEF IInv, TypeOK, RaiseFlag, MainStep, threads, shared, queues, locals, locks
  <2>2. RoundInv'
    BY <1>2
    DEF IInv, TypeOK, RoundInv, RaiseFlag, MainStep, threads, shared, queues, locals, locks
  <2>3. ExitInv'
    BY <1>2
    DEF IInv, TypeOK, RoundInv, ExitInv, Freeing, RaiseFlag, MainStep, threads,
        shared, queues, locals, locks
  <2>4. StopInv'
    BY <1>2
    DEF IInv, TypeOK, StopInv, Stopped, RaiseFlag, MainStep, threads, shared,
        queues, locals, locks
  <2>. QED
    BY <2>1, <2>2, <2>3, <2>4 DEF IInv
<1>3. CASE ShutdownInstructions
  <2>1. TypeOK'
    BY <1>3, PostedType, SessionAssumption
    DEF IInv, TypeOK, ShutdownInstructions, MainStep, threads, shared, queues, locals, locks
  <2>2. RoundInv'
    BY <1>3
    DEF IInv, TypeOK, RoundInv, ShutdownInstructions, MainStep, threads, shared,
        queues, locals, locks
  <2>3. ExitInv'
    BY <1>3
    DEF IInv, TypeOK, RoundInv, ExitInv, Freeing, ShutdownInstructions, MainStep,
        threads, shared, queues, locals, locks
  <2>4. StopInv'
    BY <1>3
    DEF IInv, TypeOK, StopInv, Stopped, ShutdownInstructions, MainStep, threads,
        shared, queues, locals, locks
  <2>. QED
    BY <2>1, <2>2, <2>3, <2>4 DEF IInv
<1>4. CASE CancelWorker
  <2>1. TypeOK'
    BY <1>4, PostedType, SessionAssumption
    DEF IInv, TypeOK, CancelWorker, MainStep, threads, shared, queues, locals, locks
  <2>2. RoundInv'
    BY <1>4
    DEF IInv, TypeOK, RoundInv, CancelWorker, MainStep, threads, shared, queues,
        locals, locks
  <2>3. ExitInv'
    BY <1>4
    DEF IInv, TypeOK, RoundInv, ExitInv, Freeing, CancelWorker, MainStep, threads,
        shared, queues, locals, locks
  <2>4. StopInv'
    BY <1>4
    DEF IInv, TypeOK, StopInv, Stopped, CancelWorker, MainStep, threads, shared,
        queues, locals, locks
  <2>. QED
    BY <2>1, <2>2, <2>3, <2>4 DEF IInv
<1>5. CASE JoinWorker
  <2>1. TypeOK'
    BY <1>5, PostedType, SessionAssumption
    DEF IInv, TypeOK, JoinWorker, MainStep, threads, shared, queues, locals, locks
  <2>2. RoundInv'
    BY <1>5
    DEF IInv, TypeOK, RoundInv, JoinWorker, MainStep, threads, shared, queues, locals, locks
  <2>3. ExitInv'
    BY <1>5
    DEF IInv, TypeOK, RoundInv, ExitInv, Freeing, JoinWorker, MainStep, threads,
        shared, queues, locals, locks
  <2>4. StopInv'
    BY <1>5
    DEF IInv, TypeOK, StopInv, Stopped, JoinWorker, MainStep, threads, shared,
        queues, locals, locks
  <2>. QED
    BY <2>1, <2>2, <2>3, <2>4 DEF IInv
<1>6. CASE Drain
  <2>1. TypeOK'
    BY <1>6, PostedType, SessionAssumption
    DEF IInv, TypeOK, Drain, MainStep, threads, shared, queues, locals, locks
  <2>2. RoundInv'
    BY <1>6
    DEF IInv, TypeOK, RoundInv, Drain, MainStep, threads, shared, queues, locals, locks
  <2>3. ExitInv'
    BY <1>6
    DEF IInv, TypeOK, RoundInv, ExitInv, Freeing, Drain, MainStep, threads, shared,
        queues, locals, locks
  <2>4. StopInv'
    BY <1>6
    DEF IInv, TypeOK, StopInv, Stopped, Drain, MainStep, threads, shared, queues,
        locals, locks
  <2>. QED
    BY <2>1, <2>2, <2>3, <2>4 DEF IInv
<1>7. CASE FreeInstructions
  <2>1. TypeOK'
    BY <1>7, PostedType, SessionAssumption
    DEF IInv, TypeOK, FreeInstructions, MainStep, threads, shared, queues, locals, locks
  <2>2. RoundInv'
    BY <1>7
    DEF IInv, TypeOK, RoundInv, FreeInstructions, MainStep, threads, shared, queues,
        locals, locks
  <2>3. ExitInv'
    BY <1>7
    DEF IInv, TypeOK, RoundInv, ExitInv, Freeing, FreeInstructions, MainStep,
        threads, shared, queues, locals, locks
  <2>4. StopInv'
    BY <1>7
    DEF IInv, TypeOK, StopInv, Stopped, FreeInstructions, MainStep, threads, shared,
        queues, locals, locks
  <2>. QED
    BY <2>1, <2>2, <2>3, <2>4 DEF IInv
<1>8. CASE ShutdownTui
  <2>1. TypeOK'
    BY <1>8, PostedType, SessionAssumption
    DEF IInv, TypeOK, ShutdownTui, MainStep, threads, shared, queues, locals, locks
  <2>2. RoundInv'
    BY <1>8
    DEF IInv, TypeOK, RoundInv, ShutdownTui, MainStep, threads, shared, queues,
        locals, locks
  <2>3. ExitInv'
    BY <1>8
    DEF IInv, TypeOK, RoundInv, ExitInv, Freeing, ShutdownTui, MainStep, threads,
        shared, queues, locals, locks
  <2>4. StopInv'
    BY <1>8
    DEF IInv, TypeOK, StopInv, Stopped, ShutdownTui, MainStep, threads, shared,
        queues, locals, locks
  <2>. QED
    BY <2>1, <2>2, <2>3, <2>4 DEF IInv
<1>9. CASE FreeTui
  <2>1. TypeOK'
    BY <1>9, PostedType, SessionAssumption
    DEF IInv, TypeOK, FreeTui, MainStep, threads, shared, queues, locals, locks
  <2>2. RoundInv'
    BY <1>9
    DEF IInv, TypeOK, RoundInv, FreeTui, MainStep, threads, shared, queues, locals, locks
  <2>3. ExitInv'
    BY <1>9
    DEF IInv, TypeOK, RoundInv, ExitInv, Freeing, FreeTui, MainStep, threads,
        shared, queues, locals, locks
  <2>4. StopInv'
    BY <1>9
    DEF IInv, TypeOK, StopInv, Stopped, FreeTui, MainStep, threads, shared, queues,
        locals, locks
  <2>. QED
    BY <2>1, <2>2, <2>3, <2>4 DEF IInv
<1>10. CASE FreeConversation
  <2>1. TypeOK'
    BY <1>10, PostedType, SessionAssumption
    DEF IInv, TypeOK, FreeConversation, MainStep, threads, shared, queues, locals, locks
  <2>2. RoundInv'
    BY <1>10
    DEF IInv, TypeOK, RoundInv, FreeConversation, MainStep, threads, shared, queues,
        locals, locks
  <2>3. ExitInv'
    BY <1>10
    DEF IInv, TypeOK, RoundInv, ExitInv, Freeing, FreeConversation, MainStep,
        threads, shared, queues, locals, locks
  <2>4. StopInv'
    BY <1>10
    DEF IInv, TypeOK, StopInv, Stopped, FreeConversation, MainStep, threads, shared,
        queues, locals, locks
  <2>. QED
    BY <2>1, <2>2, <2>3, <2>4 DEF IInv
<1>11. CASE CloseLog
  <2>1. TypeOK'
    BY <1>11, PostedType, SessionAssumption
    DEF IInv, TypeOK, CloseLog, MainStep, threads, shared, queues, locals, locks
  <2>2. RoundInv'
    BY <1>11
    DEF IInv, TypeOK, RoundInv, CloseLog, MainStep, threads, shared, queues, locals, locks
  <2>3. ExitInv'
    BY <1>11
    DEF IInv, TypeOK, RoundInv, ExitInv, Freeing, CloseLog, MainStep, threads,
        shared, queues, locals, locks
  <2>4. StopInv'
    BY <1>11
    DEF IInv, TypeOK, StopInv, Stopped, CloseLog, MainStep, threads, shared, queues,
        locals, locks
  <2>. QED
    BY <2>1, <2>2, <2>3, <2>4 DEF IInv
<1>. QED
  BY <1>1, <1>2, <1>3, <1>4, <1>5, <1>6, <1>7, <1>8, <1>9, <1>10, <1>11 DEF Exit

(* The worker keeps it: it leaves a round only when its tools are gone.        *)
LEMMA WorkerKeeps == ASSUME IInv, Worker PROVE IInv'
<1>1. CASE Dequeue
  <2>1. TypeOK'
    BY <1>1, PostedType, SessionAssumption
    DEF IInv, TypeOK, Dequeue, WorkerStep, threads, shared, queues, locals, locks
  <2>2. RoundInv'
    BY <1>1
    DEF IInv, TypeOK, RoundInv, Dequeue, WorkerStep, threads, shared, queues, locals, locks
  <2>3. ExitInv'
    BY <1>1
    DEF IInv, TypeOK, RoundInv, ExitInv, Freeing, Dequeue, WorkerStep, threads,
        shared, queues, locals, locks
  <2>4. StopInv'
    BY <1>1
    DEF IInv, TypeOK, StopInv, Stopped, Dequeue, WorkerStep, threads, shared,
        queues, locals, locks
  <2>. QED
    BY <2>1, <2>2, <2>3, <2>4 DEF IInv
<1>2. CASE QueueClosed
  <2>1. TypeOK'
    BY <1>2, PostedType, SessionAssumption
    DEF IInv, TypeOK, QueueClosed, WorkerStep, threads, shared, queues, locals, locks
  <2>2. RoundInv'
    BY <1>2
    DEF IInv, TypeOK, RoundInv, QueueClosed, WorkerStep, threads, shared, queues,
        locals, locks
  <2>3. ExitInv'
    BY <1>2
    DEF IInv, TypeOK, RoundInv, ExitInv, Freeing, QueueClosed, WorkerStep, threads,
        shared, queues, locals, locks
  <2>4. StopInv'
    BY <1>2
    DEF IInv, TypeOK, StopInv, Stopped, QueueClosed, WorkerStep, threads, shared,
        queues, locals, locks
  <2>. QED
    BY <2>1, <2>2, <2>3, <2>4 DEF IInv
<1>3. CASE Handle
  <2>1. TypeOK'
    BY <1>3, PostedType, SessionAssumption
    DEF IInv, TypeOK, Handle, WorkerStep, threads, shared, queues, locals, locks
  <2>2. RoundInv'
    BY <1>3
    DEF IInv, TypeOK, RoundInv, Handle, WorkerStep, threads, shared, queues, locals, locks
  <2>3. ExitInv'
    BY <1>3
    DEF IInv, TypeOK, RoundInv, ExitInv, Freeing, Handle, WorkerStep, threads,
        shared, queues, locals, locks
  <2>4. StopInv'
    BY <1>3
    DEF IInv, TypeOK, StopInv, Stopped, Handle, WorkerStep, threads, shared, queues,
        locals, locks
  <2>. QED
    BY <2>1, <2>2, <2>3, <2>4 DEF IInv
<1>4. CASE DropInstruction
  <2>1. TypeOK'
    BY <1>4, PostedType, SessionAssumption
    DEF IInv, TypeOK, DropInstruction, WorkerStep, threads, shared, queues, locals, locks
  <2>2. RoundInv'
    BY <1>4
    DEF IInv, TypeOK, RoundInv, DropInstruction, WorkerStep, threads, shared,
        queues, locals, locks
  <2>3. ExitInv'
    BY <1>4
    DEF IInv, TypeOK, RoundInv, ExitInv, Freeing, DropInstruction, WorkerStep,
        threads, shared, queues, locals, locks
  <2>4. StopInv'
    BY <1>4
    DEF IInv, TypeOK, StopInv, Stopped, DropInstruction, WorkerStep, threads,
        shared, queues, locals, locks
  <2>. QED
    BY <2>1, <2>2, <2>3, <2>4 DEF IInv
<1>5. CASE Refused
  <2>1. TypeOK'
    BY <1>5, PostedType, SessionAssumption
    DEF IInv, TypeOK, Refused, WorkerStep, threads, shared, queues, locals, locks
  <2>2. RoundInv'
    BY <1>5
    DEF IInv, TypeOK, RoundInv, Refused, WorkerStep, threads, shared, queues, locals, locks
  <2>3. ExitInv'
    BY <1>5
    DEF IInv, TypeOK, RoundInv, ExitInv, Freeing, Refused, WorkerStep, threads,
        shared, queues, locals, locks
  <2>4. StopInv'
    BY <1>5
    DEF IInv, TypeOK, StopInv, Stopped, Refused, WorkerStep, threads, shared,
        queues, locals, locks
  <2>. QED
    BY <2>1, <2>2, <2>3, <2>4 DEF IInv
<1>6. CASE BuildRequest
  <2>1. TypeOK'
    BY <1>6, PostedType, SessionAssumption
    DEF IInv, TypeOK, BuildRequest, WorkerStep, threads, shared, queues, locals, locks
  <2>2. RoundInv'
    BY <1>6
    DEF IInv, TypeOK, RoundInv, BuildRequest, WorkerStep, threads, shared, queues,
        locals, locks
  <2>3. ExitInv'
    BY <1>6
    DEF IInv, TypeOK, RoundInv, ExitInv, Freeing, BuildRequest, WorkerStep, threads,
        shared, queues, locals, locks
  <2>4. StopInv'
    BY <1>6
    DEF IInv, TypeOK, StopInv, Stopped, BuildRequest, WorkerStep, threads, shared,
        queues, locals, locks
  <2>. QED
    BY <2>1, <2>2, <2>3, <2>4 DEF IInv
<1>7. CASE SendRequest
  <2>1. TypeOK'
    BY <1>7, PostedType, SessionAssumption
    DEF IInv, TypeOK, SendRequest, WorkerStep, threads, shared, queues, locals, locks
  <2>2. RoundInv'
    BY <1>7
    DEF IInv, TypeOK, RoundInv, SendRequest, WorkerStep, threads, shared, queues,
        locals, locks
  <2>3. ExitInv'
    BY <1>7
    DEF IInv, TypeOK, RoundInv, ExitInv, Freeing, SendRequest, WorkerStep, threads,
        shared, queues, locals, locks
  <2>4. StopInv'
    BY <1>7
    DEF IInv, TypeOK, StopInv, Stopped, SendRequest, WorkerStep, threads, shared,
        queues, locals, locks
  <2>. QED
    BY <2>1, <2>2, <2>3, <2>4 DEF IInv
<1>8. CASE ToolsDone
  <2>1. TypeOK'
    BY <1>8, PostedType, SessionAssumption
    DEF IInv, TypeOK, ToolsDone, WorkerStep, threads, shared, queues, locals, locks
  <2>2. RoundInv'
    BY <1>8
    DEF IInv, TypeOK, RoundInv, ToolsDone, WorkerStep, threads, shared, queues,
        locals, locks
  <2>3. ExitInv'
    BY <1>8
    DEF IInv, TypeOK, RoundInv, ExitInv, Freeing, ToolsDone, WorkerStep, threads,
        shared, queues, locals, locks
  <2>4. StopInv'
    BY <1>8
    DEF IInv, TypeOK, StopInv, Stopped, ToolsDone, WorkerStep, threads, shared,
        queues, locals, locks
  <2>. QED
    BY <2>1, <2>2, <2>3, <2>4 DEF IInv
<1>9. CASE InterruptTools
  <2>1. TypeOK'
    <3>1. ThreadTypes'
      BY <1>9
      DEF IInv, TypeOK, ThreadTypes, InterruptTools, WorkerStep, threads, shared,
          queues, locals, locks
    <3>2. FlagTypes'
      BY <1>9
      DEF IInv, TypeOK, FlagTypes, InterruptTools, WorkerStep, threads, shared,
          queues, locals, locks
    <3>3. CountTypes'
      BY <1>9, PostedType, SessionAssumption
      DEF IInv, TypeOK, CountTypes, InterruptTools, WorkerStep, threads, shared,
          queues, locals, locks
    <3>4. ResourceTypes'
      BY <1>9
      DEF IInv, TypeOK, ResourceTypes, InterruptTools, WorkerStep, threads,
          shared, queues, locals, locks
    <3>. QED
      BY <3>1, <3>2, <3>3, <3>4
      DEF TypeOK, ThreadTypes, FlagTypes, CountTypes, ResourceTypes
  <2>2. RoundInv'
    BY <1>9
    DEF IInv, TypeOK, RoundInv, InterruptTools, WorkerStep, threads, shared, queues,
        locals, locks
  <2>3. ExitInv'
    BY <1>9
    DEF IInv, TypeOK, RoundInv, ExitInv, Freeing, InterruptTools, WorkerStep,
        threads, shared, queues, locals, locks
  <2>4. StopInv'
    BY <1>9
    DEF IInv, TypeOK, StopInv, Stopped, InterruptTools, WorkerStep, threads, shared,
        queues, locals, locks
  <2>. QED
    BY <2>1, <2>2, <2>3, <2>4 DEF IInv
<1>10. CASE JoinTools
  <2>1. TypeOK'
    BY <1>10, PostedType, SessionAssumption
    DEF IInv, TypeOK, JoinTools, WorkerStep, threads, shared, queues, locals, locks
  <2>2. RoundInv'
    BY <1>10
    DEF IInv, TypeOK, RoundInv, LiveTools, JoinTools, WorkerStep, threads, shared,
        queues, locals, locks
  <2>3. ExitInv'
    BY <1>10
    DEF IInv, TypeOK, RoundInv, ExitInv, Freeing, JoinTools, WorkerStep, threads,
        shared, queues, locals, locks
  <2>4. StopInv'
    BY <1>10
    DEF IInv, TypeOK, StopInv, Stopped, JoinTools, WorkerStep, threads, shared,
        queues, locals, locks
  <2>. QED
    BY <2>1, <2>2, <2>3, <2>4 DEF IInv
<1>11. CASE RecordResults
  <2>1. TypeOK'
    BY <1>11, PostedType, SessionAssumption
    DEF IInv, TypeOK, RecordResults, WorkerStep, threads, shared, queues, locals, locks
  <2>2. RoundInv'
    BY <1>11
    DEF IInv, TypeOK, RoundInv, RecordResults, WorkerStep, threads, shared, queues,
        locals, locks
  <2>3. ExitInv'
    BY <1>11
    DEF IInv, TypeOK, RoundInv, ExitInv, Freeing, RecordResults, WorkerStep,
        threads, shared, queues, locals, locks
  <2>4. StopInv'
    BY <1>11
    DEF IInv, TypeOK, StopInv, Stopped, RecordResults, WorkerStep, threads, shared,
        queues, locals, locks
  <2>. QED
    BY <2>1, <2>2, <2>3, <2>4 DEF IInv
<1>12. CASE NextInstruction
  <2>1. TypeOK'
    BY <1>12, PostedType, SessionAssumption
    DEF IInv, TypeOK, NextInstruction, WorkerStep, threads, shared, queues, locals, locks
  <2>2. RoundInv'
    BY <1>12
    DEF IInv, TypeOK, RoundInv, NextInstruction, WorkerStep, threads, shared,
        queues, locals, locks
  <2>3. ExitInv'
    BY <1>12
    DEF IInv, TypeOK, RoundInv, ExitInv, Freeing, NextInstruction, WorkerStep,
        threads, shared, queues, locals, locks
  <2>4. StopInv'
    BY <1>12
    DEF IInv, TypeOK, StopInv, Stopped, NextInstruction, WorkerStep, threads,
        shared, queues, locals, locks
  <2>. QED
    BY <2>1, <2>2, <2>3, <2>4 DEF IInv
<1>. QED
  BY <1>1, <1>2, <1>3, <1>4, <1>5, <1>6, <1>7, <1>8, <1>9, <1>10, <1>11, <1>12 DEF Worker

(* The server's answers keep it.                                               *)
LEMMA ServerKeeps == ASSUME IInv, Server PROVE IInv'
<1>1. CASE Retry
  <2>1. TypeOK'
    BY <1>1, PostedType, SessionAssumption
    DEF IInv, TypeOK, Retry, WorkerStep, threads, shared, queues, locals, locks
  <2>2. RoundInv'
    BY <1>1
    DEF IInv, TypeOK, RoundInv, Retry, WorkerStep, threads, shared, queues, locals, locks
  <2>3. ExitInv'
    BY <1>1
    DEF IInv, TypeOK, RoundInv, ExitInv, Freeing, Retry, WorkerStep, threads,
        shared, queues, locals, locks
  <2>4. StopInv'
    BY <1>1
    DEF IInv, TypeOK, StopInv, Stopped, Retry, WorkerStep, threads, shared, queues,
        locals, locks
  <2>. QED
    BY <2>1, <2>2, <2>3, <2>4 DEF IInv
<1>2. CASE GiveUp
  <2>1. TypeOK'
    BY <1>2, PostedType, SessionAssumption
    DEF IInv, TypeOK, GiveUp, WorkerStep, threads, shared, queues, locals, locks
  <2>2. RoundInv'
    BY <1>2
    DEF IInv, TypeOK, RoundInv, GiveUp, WorkerStep, threads, shared, queues, locals, locks
  <2>3. ExitInv'
    BY <1>2
    DEF IInv, TypeOK, RoundInv, ExitInv, Freeing, GiveUp, WorkerStep, threads,
        shared, queues, locals, locks
  <2>4. StopInv'
    BY <1>2
    DEF IInv, TypeOK, StopInv, Stopped, GiveUp, WorkerStep, threads, shared, queues,
        locals, locks
  <2>. QED
    BY <2>1, <2>2, <2>3, <2>4 DEF IInv
<1>3. CASE AnswerWithoutTools
  <2>1. TypeOK'
    BY <1>3, PostedType, SessionAssumption
    DEF IInv, TypeOK, AnswerWithoutTools, WorkerStep, threads, shared, queues, locals, locks
  <2>2. RoundInv'
    BY <1>3
    DEF IInv, TypeOK, RoundInv, AnswerWithoutTools, WorkerStep, threads, shared,
        queues, locals, locks
  <2>3. ExitInv'
    BY <1>3
    DEF IInv, TypeOK, RoundInv, ExitInv, Freeing, AnswerWithoutTools, WorkerStep,
        threads, shared, queues, locals, locks
  <2>4. StopInv'
    BY <1>3
    DEF IInv, TypeOK, StopInv, Stopped, AnswerWithoutTools, WorkerStep, threads,
        shared, queues, locals, locks
  <2>. QED
    BY <2>1, <2>2, <2>3, <2>4 DEF IInv
<1>4. CASE AnswerWithTools
  <2>1. TypeOK'
    <3>1. ThreadTypes'
      BY <1>4
      DEF IInv, TypeOK, ThreadTypes, AnswerWithTools, WorkerStep, StartTools,
          threads, shared, queues, locals, locks
    <3>2. FlagTypes'
      BY <1>4
      DEF IInv, TypeOK, FlagTypes, AnswerWithTools, WorkerStep, StartTools,
          threads, shared, queues, locals, locks
    <3>3. CountTypes'
      BY <1>4, PostedType, SessionAssumption
      DEF IInv, TypeOK, CountTypes, AnswerWithTools, WorkerStep, StartTools,
          threads, shared, queues, locals, locks
    <3>4. ResourceTypes'
      BY <1>4
      DEF IInv, TypeOK, ResourceTypes, AnswerWithTools, WorkerStep, StartTools,
          threads, shared, queues, locals, locks
    <3>. QED
      BY <3>1, <3>2, <3>3, <3>4
      DEF TypeOK, ThreadTypes, FlagTypes, CountTypes, ResourceTypes
  <2>2. RoundInv'
    BY <1>4
    DEF IInv, TypeOK, RoundInv, AnswerWithTools, WorkerStep, StartTools, threads,
        shared, queues, locals, locks
  <2>3. ExitInv'
    BY <1>4
    DEF IInv, TypeOK, RoundInv, ExitInv, Freeing, AnswerWithTools, WorkerStep,
        StartTools, threads, shared, queues, locals, locks
  <2>4. StopInv'
    BY <1>4
    DEF IInv, TypeOK, StopInv, Stopped, AnswerWithTools, WorkerStep, StartTools,
        threads, shared, queues, locals, locks
  <2>. QED
    BY <2>1, <2>2, <2>3, <2>4 DEF IInv
<1>. QED
  BY <1>1, <1>2, <1>3, <1>4 DEF Server

(* A cancelled worker leaves its round, and says so if tools are left.         *)
LEMMA WorkerCancelledKeeps == ASSUME IInv, WorkerCancelled PROVE IInv'
<1>1. TypeOK'
  BY PostedType, SessionAssumption
  DEF IInv, TypeOK, WorkerCancelled, threads, shared, queues, locals, locks
<1>2. RoundInv'
  BY DEF IInv, TypeOK, RoundInv, LiveTools, WorkerCancelled, threads, shared, queues,
      locals, locks
<1>3. ExitInv'
  BY DEF IInv, TypeOK, RoundInv, ExitInv, Freeing, WorkerCancelled, threads, shared,
      queues, locals, locks
<1>4. StopInv'
  BY DEF IInv, TypeOK, StopInv, Stopped, WorkerCancelled, threads, shared, queues,
      locals, locks
<1>. QED
  BY <1>1, <1>2, <1>3, <1>4 DEF IInv

(* The worker's log lines change only the lock.                                *)
LEMMA WorkerLogsKeeps == ASSUME IInv, LogBegins("worker") \/ LogEnds("worker") PROVE IInv'
<1>1. TypeOK'
  BY PostedType, SessionAssumption
  DEF IInv, TypeOK, LogBegins, LogEnds, threads, shared, queues, locals, locks
<1>2. RoundInv'
  BY DEF IInv, TypeOK, RoundInv, LiveTools, LogBegins, LogEnds, threads, shared, queues,
      locals, locks
<1>3. ExitInv'
  BY DEF IInv, TypeOK, RoundInv, ExitInv, Freeing, LogBegins, LogEnds, threads, shared,
      queues, locals, locks
<1>4. StopInv'
  BY DEF IInv, TypeOK, StopInv, Stopped, LogBegins, LogEnds, threads, shared, queues,
      locals, locks
<1>. QED
  BY <1>1, <1>2, <1>3, <1>4 DEF IInv

(* A tool thread posts only while it runs.                                     *)
LEMMA ToolKeeps == ASSUME IInv, NEW t \in Tools,
                  ToolPosts(t) \/ ToolEnds(t) \/ ToolCancelled(t) \/ LogBegins(t) \/ LogEnds(t)
           PROVE IInv'
<1>1. TypeOK'
  BY PostedType, SessionAssumption
  DEF IInv, TypeOK, ToolPosts, ToolEnds, ToolCancelled, LogBegins, LogEnds, threads,
      shared, queues, locals, locks
<1>2. RoundInv'
  BY DEF IInv, TypeOK, RoundInv, LiveTools, ToolPosts, ToolEnds, ToolCancelled,
      LogBegins, LogEnds, threads, shared, queues, locals, locks
<1>3. ExitInv'
  BY DEF IInv, TypeOK, RoundInv, ExitInv, Freeing, ToolPosts, ToolEnds, ToolCancelled,
      LogBegins, LogEnds, threads, shared, queues, locals, locks
<1>4. StopInv'
  BY DEF IInv, TypeOK, StopInv, Stopped, ToolPosts, ToolEnds, ToolCancelled, LogBegins,
      LogEnds, threads, shared, queues, locals, locks
<1>. QED
  BY <1>1, <1>2, <1>3, <1>4 DEF IInv

LEMMA NextIInv == ASSUME IInv, [Next]_vars PROVE IInv'
<1>1. CASE UNCHANGED vars
  BY <1>1 DEF vars, threads, shared, queues, locals, locks, IInv, TypeOK, RoundInv, ExitInv,
              StopInv, Stopped
<1>2. CASE Next
  BY <1>2, EventLoopKeeps, ExitKeeps, WorkerKeeps, ServerKeeps, WorkerCancelledKeeps,
     WorkerLogsKeeps, ToolKeeps
     DEF Next
<1>. QED
  BY <1>1, <1>2

(* The inductive invariant holds in every reachable state.                     *)
THEOREM Invariance == Spec => []IInv
<1>. QED
  BY InitIInv, NextIInv, PTL DEF Spec

(* The variables keep their types; the message queue never outgrows its        *)
(* capacity.                                                                   *)
THEOREM TypeCorrect == Spec => []TypeOK
<1>1. IInv => TypeOK
  BY DEF IInv
<1>. QED
  BY <1>1, Invariance, PTL

(* ai_queue_free and tui_msg_queue_free come after the worker's end, and after *)
(* its tools' unless it was cancelled in their round.                          *)
THEOREM QueuesFreedLast == Spec => []QueuesOutliveWorker
<1>1. IInv => QueuesOutliveWorker
  BY DEF IInv, TypeOK, RoundInv, ExitInv, Freeing, QueuesOutliveWorker, LiveTools
<1>. QED
  BY <1>1, Invariance, PTL

(* tui_drain_message_queue leaves nothing the worker posted unshown.           *)
THEOREM DrainedBeforeFreed == Spec => []UpdatesRendered
<1>1. IInv => UpdatesRendered
  BY DEF IInv, ExitInv, UpdatesRendered
<1>. QED
  BY <1>1, Invariance, PTL

(* call_api_with_retries starts no attempt after ai_worker_stop's interrupt,   *)
(* although process_response takes the interrupt down.                         *)
THEOREM StopIsFinal == Spec => NoAttemptAfterStop
<1>1. IInv /\ [Next]_vars
      => [main \notin {"loop", "stop", "flag"} => ~(worker = "call" /\ worker' = "build")]_vars
  <2>. SUFFICES ASSUME IInv, [Next]_vars, Stopped, worker = "call", worker' = "build"
                PROVE  FALSE
    BY DEF Stopped
  <2>1. flag
    BY DEF IInv, StopInv, Stopped
  <2>2. ~BuildRequest
    BY <2>1 DEF BuildRequest
  <2>3. Next
    <3>1. worker # worker'
      OBVIOUS
    <3>. QED
      BY <3>1 DEF vars, threads
  <2>. QED
    BY <2>2, <2>3
    DEF Next, EventLoop, Submit, ShowMessage, CtrlC, Leave, Exit, MainStep, ClearRunning,
        RaiseFlag, ShutdownInstructions, CancelWorker, JoinWorker, Drain, FreeInstructions,
        ShutdownTui, FreeTui, FreeConversation, CloseLog, Worker, WorkerStep, Dequeue, QueueClosed,
        Handle, DropInstruction, Refused, SendRequest, ToolsDone, InterruptTools, JoinTools,
        RecordResults, NextInstruction, Server, Retry, GiveUp, AnswerWithoutTools,
        AnswerWithTools, WorkerCancelled, LogBegins, LogEnds, ToolPosts, ToolEnds,
        ToolCancelled, threads
<1>. QED
  BY <1>1, Invariance, PTL DEF Spec, NoAttemptAfterStop
=============================================================================
