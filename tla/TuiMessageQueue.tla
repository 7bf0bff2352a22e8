-------------------------- MODULE TuiMessageQueue ---------------------------
(* The worker -> main thread queue of message_queue.c. Every operation holds   *)
(* queue->mutex from its first to its last access, so each critical section is *)
(* one step; strdup before the lock, the wait on not_empty and the handling of *)
(* a received message are steps of their own. Text blocks come from a heap of  *)
(* `Block`s, so that a leak, a double free and a failing strdup are visible.   *)
EXTENDS CircularBuffer, FiniteSets

CONSTANTS
    Writers,     \* threads that post: the AI worker, tool threads, the main thread
    Readers,     \* threads that poll or wait: in the program, the main thread
    Block,       \* heap blocks a message text can live in
    NULL,        \* the null text pointer
    Totals,      \* token totals the worker can report (positive numbers)
    MaxPosts     \* bound on the number of posts

ASSUME ThreadAssumption ==
    /\ Writers \cap Readers = {}
    /\ IsFiniteSet(Readers)
    /\ NULL \notin Block
    /\ Totals \subseteq Nat \ {0}
    /\ MaxPosts \in Nat

VARIABLES
    slots, head, tail, count, shutdown, destroyed,
    heap,        \* blocks that are allocated
    pc,          \* where each thread is
    copy,        \* writer -> text_copy, owned by the writer until it is queued
    msg,         \* reader -> the caller's TUIMessage
    shown,       \* token count on the status line, 0 before the first update
    reported,    \* history: totals handed to post_token_update
    posted,      \* history: number of posts that entered the queue
    taken        \* history: number of the post taken last

ring == <<slots, head, tail, count>>
vars == <<slots, head, tail, count, shutdown, destroyed, heap, pc, copy, msg,
          shown, reported, posted, taken>>

Text == Block \cup {NULL}

(* `seq` is history: the number of the post that filled the slot.              *)
TUIMessage == [type : {"line", "token"}, text : Text,
               tokens : {0} \cup Totals, seq : 0 .. MaxPosts]

Zeroed == [type |-> "line", text |-> NULL, tokens |-> 0, seq |-> 0]

Init ==
    /\ slots = [i \in Index |-> Zeroed]
    /\ head = 0 /\ tail = 0 /\ count = 0
    /\ shutdown = FALSE /\ destroyed = FALSE
    /\ heap = {}
    /\ pc = [t \in Writers \cup Readers |-> "idle"]
    /\ copy = [w \in Writers |-> NULL]
    /\ msg = [r \in Readers |-> Zeroed]
    /\ shown = 0 /\ reported = {} /\ posted = 0 /\ taken = 0

-----------------------------------------------------------------------------
(* pthread_cond_signal wakes one waiter if there is one.                       *)
Waiting == {r \in Readers : pc[r] = "waiting"}

(* Mutant: only a post into an empty queue signals.                            *)
SignalledWhenEmpty(w, to) ==
    IF Waiting = {} \/ count > 0 THEN pc' = [pc EXCEPT ![w] = to]
    ELSE \E r \in Waiting : pc' = [pc EXCEPT ![w] = to, ![r] = "awake"]

Signalled(w, to) ==
    IF Waiting = {} THEN pc' = [pc EXCEPT ![w] = to]
    ELSE \E r \in Waiting : pc' = [pc EXCEPT ![w] = to, ![r] = "awake"]

(* Mutant: the capacity test is off by one.                                    *)
FullTooLate == count > Capacity

Full == count = Capacity

EvictedText == IF Full THEN {slots[tail].text} ELSE {}

(* Mutant: the message goes to the read position.                              *)
InsertAtTail(m) ==
    /\ slots' = [slots EXCEPT ![tail] = m]
    /\ tail' = IF Full THEN Advance(tail) ELSE tail
    /\ head' = Advance(head)
    /\ count' = IF Full THEN count ELSE count + 1
    /\ posted' = posted + 1

(* Eviction of the oldest message and insertion of m, one critical section.    *)
Insert(m) ==
    /\ slots' = IF Full
                THEN [slots EXCEPT ![tail].text = NULL, ![head] = m]
                ELSE [slots EXCEPT ![head] = m]
    /\ tail' = IF Full THEN Advance(tail) ELSE tail
    /\ head' = Advance(head)
    /\ count' = IF Full THEN count ELSE count + 1
    /\ posted' = posted + 1

(* post_tui_message copies the text before it takes the lock. When the heap is *)
(* exhausted it returns -1 and nothing changes.                                *)
CopyText(w) ==
    /\ pc[w] = "idle" /\ ~destroyed
    /\ \E b \in Block \ heap :
         /\ heap' = heap \cup {b}
         /\ copy' = [copy EXCEPT ![w] = b]
    /\ pc' = [pc EXCEPT ![w] = "copied"]
    /\ UNCHANGED <<ring, shutdown, destroyed, msg, shown, reported, posted, taken>>

PostMessage(w) ==
    /\ pc[w] = "copied" /\ posted < MaxPosts
    /\ Insert([type |-> "line", text |-> copy[w], tokens |-> 0, seq |-> posted + 1])
    /\ heap' = heap \ EvictedText
    /\ copy' = [copy EXCEPT ![w] = NULL]
    /\ Signalled(w, "idle")
    /\ UNCHANGED <<shutdown, destroyed, msg, shown, reported, taken>>

PostTokenUpdate(w) ==
    /\ pc[w] = "idle" /\ ~destroyed /\ posted < MaxPosts
    /\ \E t \in Totals :
         /\ Insert([type |-> "token", text |-> NULL, tokens |-> t, seq |-> posted + 1])
         /\ reported' = reported \cup {t}
    /\ heap' = heap \ EvictedText
    /\ Signalled(w, "idle")
    /\ UNCHANGED <<shutdown, destroyed, copy, msg, shown, taken>>

(* Mutants: the slot keeps the pointer it gave away; tail stays where it was.  *)
ReceiveKeepingPointer(r) ==
    /\ msg' = [msg EXCEPT ![r].type = slots[tail].type, ![r].text = slots[tail].text]
    /\ tail' = Advance(tail)
    /\ count' = count - 1
    /\ taken' = slots[tail].seq
    /\ UNCHANGED <<slots, head>>

ReceiveKeepingTail(r) ==
    /\ msg' = [msg EXCEPT ![r].type = slots[tail].type, ![r].text = slots[tail].text]
    /\ slots' = [slots EXCEPT ![tail].text = NULL]
    /\ count' = count - 1
    /\ taken' = slots[tail].seq
    /\ UNCHANGED <<tail, head>>

(* Both readers copy type and text (and the unused priority) out of the slot,  *)
(* and leave the token fields of the caller's struct as they were.             *)
Receive(r) ==
    /\ msg' = [msg EXCEPT ![r].type = slots[tail].type,
                          ![r].text = slots[tail].text,
                          ![r].seq = slots[tail].seq]
    /\ slots' = [slots EXCEPT ![tail].text = NULL]
    /\ tail' = Advance(tail)
    /\ count' = count - 1
    /\ taken' = slots[tail].seq
    /\ UNCHANGED head

Poll(r) ==
    /\ pc[r] = "idle" /\ ~destroyed /\ count > 0
    /\ Receive(r)
    /\ pc' = [pc EXCEPT ![r] = "received"]
    /\ UNCHANGED <<shutdown, destroyed, heap, copy, shown, reported, posted>>

(* wait_tui_message, entered or resumed after the wait on not_empty.           *)
Wait(r) ==
    /\ (pc[r] = "idle" /\ ~destroyed) \/ pc[r] = "awake"
    /\ \/ /\ count = 0 /\ ~shutdown
          /\ pc' = [pc EXCEPT ![r] = "waiting"]
          /\ UNCHANGED <<ring, msg, taken>>
       \/ /\ count = 0 /\ shutdown
          /\ pc' = [pc EXCEPT ![r] = "stopped"]
          /\ UNCHANGED <<ring, msg, taken>>
       \/ /\ count > 0
          /\ Receive(r)
          /\ pc' = [pc EXCEPT ![r] = "received"]
    /\ UNCHANGED <<shutdown, destroyed, heap, copy, shown, reported, posted>>

SpuriousWakeup(r) ==
    /\ pc[r] = "waiting"
    /\ pc' = [pc EXCEPT ![r] = "awake"]
    /\ UNCHANGED <<ring, shutdown, destroyed, heap, copy, msg, shown, reported, posted, taken>>

(* process_tui_messages: dispatch, free the text, clear the pointer.           *)
Dispatch(r) ==
    /\ pc[r] = "received"
    /\ shown' = IF msg[r].type = "token" THEN msg[r].tokens ELSE shown
    /\ heap' = heap \ {msg[r].text}
    /\ msg' = [msg EXCEPT ![r].text = NULL]
    /\ pc' = [pc EXCEPT ![r] = "idle"]
    /\ UNCHANGED <<ring, shutdown, destroyed, copy, reported, posted, taken>>

(* Mutant: no broadcast.                                                       *)
ShutdownSilently ==
    /\ ~destroyed /\ ~shutdown
    /\ shutdown' = TRUE
    /\ UNCHANGED <<ring, destroyed, heap, pc, copy, msg, shown, reported, posted, taken>>

Shutdown ==
    /\ ~destroyed /\ ~shutdown
    /\ shutdown' = TRUE
    /\ pc' = [t \in DOMAIN pc |-> IF pc[t] = "waiting" THEN "awake" ELSE pc[t]]
    /\ UNCHANGED <<ring, destroyed, heap, copy, msg, shown, reported, posted, taken>>

(* tui_msg_queue_free, called as its contract asks: nobody uses the queue.     *)
Free ==
    /\ shutdown /\ ~destroyed
    /\ \A t \in DOMAIN pc : pc[t] \in {"idle", "stopped"}
    /\ heap' = heap \ {slots[i].text : i \in Index}
    /\ destroyed' = TRUE
    /\ UNCHANGED <<ring, shutdown, pc, copy, msg, shown, reported, posted, taken>>

Next ==
    \/ \E w \in Writers : CopyText(w) \/ PostMessage(w) \/ PostTokenUpdate(w)
    \/ \E r \in Readers : Poll(r) \/ Wait(r) \/ SpuriousWakeup(r) \/ Dispatch(r)
    \/ Shutdown
    \/ Free

(* A reader that can run does run. Nothing obliges a writer to post, and the   *)
(* program may never shut the queue down.                                      *)
Fairness == \A r \in Readers : WF_vars(Wait(r) /\ pc[r] = "awake") /\ WF_vars(Dispatch(r))

Spec == Init /\ [][Next]_vars /\ Fairness

-----------------------------------------------------------------------------
TypeOK ==
    /\ slots \in [Index -> TUIMessage]
    /\ head \in Index /\ tail \in Index /\ count \in 0 .. Capacity
    /\ shutdown \in BOOLEAN /\ destroyed \in BOOLEAN
    /\ heap \subseteq Block
    /\ pc \in [Writers \cup Readers ->
                 {"idle", "copied", "waiting", "awake", "received", "stopped"}]
    /\ copy \in [Writers -> Text]
    /\ msg \in [Readers -> TUIMessage]
    /\ shown \in {0} \cup Totals /\ reported \subseteq Totals
    /\ posted \in 0 .. MaxPosts /\ taken \in 0 .. MaxPosts

(* Head, tail and count agree after every critical section, and a position     *)
(* outside the occupied window owns no text: tui_msg_queue_free frees the text *)
(* of every position, so a stale pointer there would be freed twice.           *)
RingConsistent ==
    /\ head = Wrap(tail + count)
    /\ \A i \in Index : slots[i].text # NULL => i \in Occupied(tail, count)

(* Every allocated text has exactly one owner (a writer that has not queued it *)
(* yet, a queue position, or the reader that took it), so it is freed exactly  *)
(* once whether it is dispatched, evicted or left in the queue at the end.     *)
Owners(b) ==
    {<<"copy", w>> : w \in {w \in Writers : copy[w] = b}}
    \cup {<<"slot", i>> : i \in {i \in Index : ~destroyed /\ slots[i].text = b}}
    \cup {<<"msg", r>> : r \in {r \in Readers : msg[r].text = b}}

OneOwnerPerText ==
    \A b \in Block : Cardinality(Owners(b)) = IF b \in heap THEN 1 ELSE 0

(* While a reader waits on not_empty, each queued message has a woken reader   *)
(* on its way to take it: the single signal per post loses no wakeup, also     *)
(* when posts evict, polls steal messages or wakeups are spurious.             *)
NoLostWakeup ==
    Waiting # {} =>
        /\ ~shutdown
        /\ count <= Cardinality({r \in Readers : pc[r] = "awake"})

(* A dispatched token update puts totals on the status line that some thread   *)
(* reported (message_queue.h documents the token fields of TUIMessage as the   *)
(* content of TUI_MSG_TOKEN_UPDATE).                                           *)
DispatchShowsReportedTotals ==
    [][\A r \in Readers :
         pc[r] = "received" /\ pc'[r] = "idle" /\ msg[r].type = "token"
             => shown' \in reported]_vars

(* A reader blocked in wait_tui_message returns once the queue is shut down.   *)
ShutdownReleasesReaders ==
    \A r \in Readers : shutdown /\ pc[r] \in {"waiting", "awake"} ~> pc[r] \notin {"waiting", "awake"}

QueuedPosts == IF destroyed THEN <<>>
               ELSE [k \in 1 .. count |-> Contents(slots, tail, count)[k].seq]

(* Eviction takes the oldest message and nothing else: the queue always holds  *)
(* the `count` most recent posts, oldest first, and never one a reader took.   *)
NewestPostsInOrder ==
    ~destroyed =>
        /\ \A k \in 1 .. count : QueuedPosts[k] = posted - count + k
        /\ taken <= posted - count

(* The ring implements the drop-oldest queue.                                  *)
Abstract == INSTANCE EvictingQueue WITH contents <- QueuedPosts

ImplementsEvictingQueue == Abstract!Spec
=============================================================================
