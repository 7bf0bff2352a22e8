------------------------- MODULE AIInstructionQueue -------------------------
(* The main -> worker queue of message_queue.c: a full queue blocks the sender *)
(* on not_full, an empty one the worker on not_empty. A critical section runs  *)
(* from lock to unlock or to the wait on a condition variable; a wait returns  *)
(* after a signal, a broadcast or spuriously, and then rechecks its condition. *)
EXTENDS CircularBuffer, FiniteSets

CONSTANTS
    Senders,           \* threads that enqueue: in the program, the main thread
    Workers,           \* threads that dequeue: in the program, the AI worker
    MaxInstructions    \* bound on the calls of enqueue_instruction

ASSUME ThreadAssumption ==
    /\ Senders \cap Workers = {}
    /\ IsFiniteSet(Senders) /\ IsFiniteSet(Workers)
    /\ MaxInstructions \in Nat

VARIABLES
    slots,       \* position -> number of the instruction whose text it owns, 0 for NULL
    head, tail, count, shutdown, destroyed,
    pc,
    texts,       \* number of allocated instruction texts
    calls,       \* history: number of calls of enqueue_instruction
    accepted,    \* history: number of instructions that entered the queue
    taken        \* history: number of the instruction taken last

ring == <<slots, head, tail, count>>
vars == <<slots, head, tail, count, shutdown, destroyed, pc, texts, calls, accepted, taken>>

Threads == Senders \cup Workers

Init ==
    /\ slots = [i \in Index |-> 0]
    /\ head = 0 /\ tail = 0 /\ count = 0
    /\ shutdown = FALSE /\ destroyed = FALSE
    /\ pc = [t \in Threads |-> "idle"]
    /\ texts = 0 /\ calls = 0 /\ accepted = 0 /\ taken = 0

-----------------------------------------------------------------------------
WaitingNotFull  == {s \in Senders : pc[s] = "waiting"}
WaitingNotEmpty == {w \in Workers : pc[w] = "waiting"}
Awake(S)        == {t \in S : pc[t] = "awake"}

(* pthread_cond_signal by thread t, which goes to state `to`.                  *)
Signal(waiters, t, to) ==
    IF waiters = {} THEN pc' = [pc EXCEPT ![t] = to]
    ELSE \E u \in waiters : pc' = [pc EXCEPT ![t] = to, ![u] = "awake"]

CopyText(s) ==
    /\ pc[s] = "idle" /\ ~destroyed /\ calls < MaxInstructions
    /\ calls' = calls + 1
    /\ texts' = texts + 1
    /\ pc' = [pc EXCEPT ![s] = "copied"]
    /\ UNCHANGED <<ring, shutdown, destroyed, accepted, taken>>

Put ==
    /\ slots' = [slots EXCEPT ![head] = accepted + 1]
    /\ head' = Advance(head)
    /\ count' = count + 1
    /\ accepted' = accepted + 1

(* Mutants: the text of a refused instruction leaks; the sender checks for     *)
(* room before it waits and not after it wakes.                                *)
RefuseLeaking(s) ==
    /\ shutdown
    /\ pc' = [pc EXCEPT ![s] = "idle"]
    /\ UNCHANGED <<ring, texts, accepted>>

WaitNotFullOnce(s) ==
    /\ count = Capacity /\ ~shutdown
    /\ IF pc[s] = "awake"
       THEN Put /\ pc' = [pc EXCEPT ![s] = "idle"] /\ UNCHANGED <<tail, texts>>
       ELSE pc' = [pc EXCEPT ![s] = "waiting"] /\ UNCHANGED <<ring, texts, accepted>>

WaitNotFull(s) ==
    /\ count = Capacity /\ ~shutdown
    /\ pc' = [pc EXCEPT ![s] = "waiting"]
    /\ UNCHANGED <<ring, texts, accepted>>

Refuse(s) ==
    /\ shutdown
    /\ texts' = texts - 1
    /\ pc' = [pc EXCEPT ![s] = "idle"]
    /\ UNCHANGED <<ring, accepted>>

Enqueue(s) ==
    /\ pc[s] \in {"copied", "awake"}
    /\ \/ WaitNotFull(s)
       \/ Refuse(s)
       \/ /\ count < Capacity /\ ~shutdown
          /\ Put
          /\ Signal(WaitingNotEmpty, s, "idle")
          /\ UNCHANGED <<tail, texts>>
    /\ UNCHANGED <<shutdown, destroyed, calls, taken>>

(* Mutant: the position keeps the pointer it gave away.                        *)
TakeKeepingPointer ==
    /\ taken' = slots[tail]
    /\ tail' = Advance(tail)
    /\ count' = count - 1
    /\ UNCHANGED slots

(* Mutant: the newest instruction is taken first.                              *)
TakeNewest ==
    LET newest == Wrap(tail + count - 1)
    IN  /\ taken' = slots[newest]
        /\ slots' = [slots EXCEPT ![newest] = slots[tail], ![tail] = 0]
        /\ tail' = Advance(tail)
        /\ count' = count - 1

Take ==
    /\ taken' = slots[tail]
    /\ slots' = [slots EXCEPT ![tail] = 0]
    /\ tail' = Advance(tail)
    /\ count' = count - 1

Dequeue(w) ==
    /\ pc[w] \in {"idle", "awake"}
    /\ \/ /\ count = 0 /\ ~shutdown
          /\ pc' = [pc EXCEPT ![w] = "waiting"]
          /\ UNCHANGED <<ring, taken>>
       \/ /\ count = 0 /\ shutdown
          /\ pc' = [pc EXCEPT ![w] = "stopped"]
          /\ UNCHANGED <<ring, taken>>
       \/ /\ count > 0
          /\ Take
          /\ Signal(WaitingNotFull, w, "working")
          /\ UNCHANGED head
    /\ UNCHANGED <<shutdown, destroyed, texts, calls, accepted>>

SpuriousWakeup(t) ==
    /\ pc[t] = "waiting"
    /\ pc' = [pc EXCEPT ![t] = "awake"]
    /\ UNCHANGED <<ring, shutdown, destroyed, texts, calls, accepted, taken>>

(* ai_worker_thread_main frees the text after the handler has returned.        *)
FinishInstruction(w) ==
    /\ pc[w] = "working"
    /\ texts' = texts - 1
    /\ pc' = [pc EXCEPT ![w] = "idle"]
    /\ UNCHANGED <<ring, shutdown, destroyed, calls, accepted, taken>>

(* ai_worker_stop clears ctx->running before it shuts the queue down, so the   *)
(* worker may leave its loop with instructions still queued.                   *)
LeaveLoop(w) ==
    /\ shutdown /\ pc[w] = "idle"
    /\ pc' = [pc EXCEPT ![w] = "stopped"]
    /\ UNCHANGED <<ring, shutdown, destroyed, texts, calls, accepted, taken>>

(* Mutant: the broadcast wakes the workers only.                               *)
ShutdownNotEmptyOnly ==
    /\ ~shutdown /\ ~destroyed
    /\ shutdown' = TRUE
    /\ pc' = [t \in Threads |-> IF t \in WaitingNotEmpty THEN "awake" ELSE pc[t]]
    /\ UNCHANGED <<ring, destroyed, texts, calls, accepted, taken>>

Shutdown ==
    /\ ~shutdown /\ ~destroyed
    /\ shutdown' = TRUE
    /\ pc' = [t \in Threads |-> IF pc[t] = "waiting" THEN "awake" ELSE pc[t]]
    /\ UNCHANGED <<ring, destroyed, texts, calls, accepted, taken>>

(* ai_queue_free, called as its contract asks: all threads stopped using it.   *)
Free ==
    /\ shutdown /\ ~destroyed
    /\ \A s \in Senders : pc[s] = "idle"
    /\ \A w \in Workers : pc[w] = "stopped"
    /\ destroyed' = TRUE
    /\ texts' = texts - Cardinality({i \in Index : slots[i] # 0})
    /\ UNCHANGED <<ring, shutdown, pc, calls, accepted, taken>>

Next ==
    \/ \E s \in Senders : CopyText(s) \/ Enqueue(s)
    \/ \E w \in Workers : Dequeue(w) \/ FinishInstruction(w) \/ LeaveLoop(w)
    \/ \E t \in Threads : SpuriousWakeup(t)
    \/ Shutdown
    \/ Free

(* A thread inside a call that can go on does go on, and a worker whose handler *)
(* has returned goes back to the queue. Nothing obliges a handler to return    *)
(* (it runs requests and tools), nor the user to submit or to quit.            *)
Fairness ==
    /\ \A s \in Senders : WF_vars(Enqueue(s))
    /\ \A w \in Workers : WF_vars(Dequeue(w) \/ LeaveLoop(w))

Spec == Init /\ [][Next]_vars /\ Fairness

-----------------------------------------------------------------------------
TypeOK ==
    /\ slots \in [Index -> Nat]
    /\ head \in Index /\ tail \in Index /\ count \in 0 .. Capacity
    /\ shutdown \in BOOLEAN /\ destroyed \in BOOLEAN
    /\ pc \in [Threads -> {"idle", "copied", "waiting", "awake", "working", "stopped"}]
    /\ texts \in Int /\ calls \in 0 .. MaxInstructions
    /\ accepted \in Nat /\ taken \in Nat

(* The queue holds exactly the accepted instructions that were not taken yet,  *)
(* in order; nothing is lost, repeated or overtaken, and every other position  *)
(* is NULL so that ai_queue_free frees no text twice.                          *)
LosslessFifo ==
    /\ head = Wrap(tail + count)
    /\ accepted = taken + count
    /\ \A k \in 0 .. count - 1 : slots[Wrap(tail + k)] = taken + k + 1
    /\ \A i \in Index : slots[i] # 0 => i \in Occupied(tail, count)

(* Every text that was copied is freed once: by the worker, by a refused call, *)
(* or by ai_queue_free.                                                        *)
TextsBalanced ==
    texts = Cardinality({s \in Senders : pc[s] \in {"copied", "waiting", "awake"}})
            + Cardinality({w \in Workers : pc[w] = "working"})
            + (IF destroyed THEN 0 ELSE Cardinality({i \in Index : slots[i] # 0}))

(* While a thread waits, every queued instruction (every free position) has a  *)
(* woken worker (sender) on its way, and shutdown leaves nobody waiting.       *)
NoLostWakeup ==
    /\ WaitingNotEmpty # {} => ~shutdown /\ count <= Cardinality(Awake(Workers))
    /\ WaitingNotFull # {} => ~shutdown /\ Capacity - count <= Cardinality(Awake(Senders))

(* A call of enqueue_instruction returns.                                      *)
EnqueueReturns == \A s \in Senders : pc[s] = "copied" ~> pc[s] = "idle"

(* Until the queue is shut down, an accepted instruction is eventually taken.  *)
AcceptedIsTaken ==
    \A n \in 1 .. MaxInstructions : accepted >= n ~> taken >= n \/ shutdown

(* After shutdown every worker leaves the queue, blocked in it or not.         *)
WorkersStop == \A w \in Workers : shutdown ~> pc[w] = "stopped"

(* The shutdown itself sends every blocked caller home, whatever the handlers  *)
(* are doing.                                                                  *)
ShutdownReleasesSenders ==
    \A s \in Senders : shutdown /\ pc[s] = "waiting" ~> pc[s] = "idle"

(* The handler a worker calls with an instruction comes back; a tool that      *)
(* never returns breaks this.                                                  *)
HandlersReturn == \A w \in Workers : pc[w] = "working" ~> pc[w] # "working"

(* If the handlers return, nobody waits for ever: neither a caller, nor an     *)
(* accepted instruction, nor a worker at the shutdown; and the shutdown        *)
(* releases the callers even if the handlers do not.                           *)
QueueMovesOn ==
    /\ HandlersReturn => EnqueueReturns /\ AcceptedIsTaken /\ WorkersStop
    /\ ShutdownReleasesSenders

QueuedInstructions == IF destroyed THEN <<>> ELSE Contents(slots, tail, count)

Abstract == INSTANCE BoundedFifo WITH contents <- QueuedInstructions, closed <- shutdown

(* The ring with its two condition variables implements the lossless FIFO.     *)
ImplementsBoundedFifo == Abstract!Spec
=============================================================================
