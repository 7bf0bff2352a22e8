------------------------------ MODULE TodoList ------------------------------
(* todo.c and its users: TodoWrite (claude.c, tool_todo_write) replaces the   *)
(* list item by item, the worker shows it after the round, /clear frees it    *)
(* and starts another. No lock guards the list, and TodoWrite runs in tool    *)
(* threads: steps of two of them, or of one and the main thread, interleave.  *)
EXTENDS Naturals, Sequences

CONSTANTS
    Threads,          \* tool threads that call TodoWrite
    InitialCapacity,  \* INITIAL_CAPACITY, positive
    MaxItems          \* bound: items of a call

VARIABLES
    items, count, capacity,   \* the TodoList
    pc,         \* thread -> where its call is
    todo,       \* thread -> items still to be looked at
    asked,      \* history: thread -> the items of its call
    added,      \* thread -> its count of items added
    failed,     \* history: an allocation failed in this thread's call
    rendered,   \* thread -> the list in its result
    crowded     \* history: two users of the list overlapped

list == <<items, count, capacity>>
vars == <<list, pc, todo, asked, added, failed, rendered, crowded>>

Item(thread, n, valid) == [by |-> thread, n |-> n, valid |-> valid]
NoItem == [by |-> "nobody", n |-> 0, valid |-> FALSE]

(* The items with a known status, in their order, of each beginning of s.     *)
Kept(s) ==
    LET kept[i \in 0 .. Len(s)] ==
            IF i = 0 THEN <<>>
            ELSE IF s[i].valid THEN Append(kept[i - 1], s[i]) ELSE kept[i - 1]
    IN  kept
Valid(s) == Kept(s)[Len(s)]

(* todo_init.                                                                 *)
EmptyList ==
    /\ items' = [i \in 1 .. InitialCapacity |-> NoItem] /\ count' = 0
    /\ capacity' = InitialCapacity

Init ==
    /\ items = [i \in 1 .. InitialCapacity |-> NoItem] /\ count = 0
    /\ capacity = InitialCapacity
    /\ pc = [t \in Threads |-> "idle"] /\ todo = [t \in Threads |-> <<>>]
    /\ asked = [t \in Threads |-> <<>>] /\ added = [t \in Threads |-> 0]
    /\ failed = [t \in Threads |-> FALSE] /\ rendered = [t \in Threads |-> <<>>]
    /\ crowded = FALSE

Running(t) == pc[t] \notin {"idle", "done"}
Go(t, from, to) == pc[t] = from /\ pc' = [pc EXCEPT ![t] = to]

-----------------------------------------------------------------------------
(* The call: todos as the model sent them, some without a known status.       *)
TodoWrite(t) ==
    \E n \in 0 .. MaxItems : \E valid \in [1 .. n -> BOOLEAN] :
        /\ Go(t, "idle", "clear")
        /\ asked' = [asked EXCEPT ![t] = [i \in 1 .. n |-> Item(t, i, valid[i])]]
        /\ todo' = [todo EXCEPT ![t] = asked'[t]]
        /\ crowded' = (crowded \/ \E u \in Threads : Running(u))
        /\ UNCHANGED <<list, added, failed, rendered>>

(* todo_clear keeps the array.                                                *)
ClearItems == count' = 0 /\ UNCHANGED <<items, capacity>>

Clear(t) ==
    /\ Go(t, "clear", "add") /\ ClearItems
    /\ UNCHANGED <<todo, asked, added, failed, rendered, crowded>>

SkipInvalid(t) ==
    /\ pc[t] = "add" /\ todo[t] # <<>> /\ ~Head(todo[t]).valid
    /\ todo' = [todo EXCEPT ![t] = Tail(@)]
    /\ UNCHANGED <<list, pc, asked, added, failed, rendered, crowded>>

Next1(t) == pc[t] = "add" /\ todo[t] # <<>> /\ Head(todo[t]).valid

(* todo_add, the room: twice the capacity when the array is full, or failure. *)
HasRoom(t) ==
    /\ Next1(t) /\ count < capacity /\ Go(t, "add", "store")
    /\ UNCHANGED <<list, todo, asked, added, failed, rendered, crowded>>

Expand(t) ==
    /\ Next1(t) /\ count >= capacity /\ Go(t, "add", "store")
    /\ capacity' = 2 * capacity
    /\ items' = [i \in 1 .. 2 * capacity |-> IF i <= capacity THEN items[i] ELSE NoItem]
    /\ UNCHANGED <<count, todo, asked, added, failed, rendered, crowded>>

AllocationFails(t) ==
    /\ pc[t] = "store" \/ (Next1(t) /\ count >= capacity)
    /\ pc' = [pc EXCEPT ![t] = "add"] /\ todo' = [todo EXCEPT ![t] = Tail(@)]
    /\ failed' = [failed EXCEPT ![t] = TRUE]
    /\ UNCHANGED <<list, asked, added, rendered, crowded>>

(* The slot, then the count. A slot past the array is memory of somebody else.*)
Store(t) ==
    /\ Go(t, "store", "count")
    /\ items' = IF count < capacity THEN [items EXCEPT ![count + 1] = Head(todo[t])] ELSE items
    /\ UNCHANGED <<count, capacity, todo, asked, added, failed, rendered, crowded>>

CountItem(t) ==
    /\ Go(t, "count", "add") /\ count' = count + 1
    /\ added' = [added EXCEPT ![t] = @ + 1] /\ todo' = [todo EXCEPT ![t] = Tail(@)]
    /\ UNCHANGED <<items, capacity, asked, failed, rendered, crowded>>

(* todo_render_to_string for the result.                                      *)
Shown == SubSeq(items, 1, count)

Render(t) ==
    /\ todo[t] = <<>> /\ Go(t, "add", "done")
    /\ rendered' = [rendered EXCEPT ![t] = IF count <= capacity THEN Shown ELSE items]
    /\ UNCHANGED <<list, todo, asked, added, failed, crowded>>

(* clear_conversation in the main thread: todo_free, todo_init.               *)
ClearConversation ==
    /\ EmptyList /\ crowded' = (crowded \/ \E t \in Threads : Running(t))
    /\ UNCHANGED <<pc, todo, asked, added, failed, rendered>>

Write(t) ==
    \/ TodoWrite(t) \/ Clear(t) \/ SkipInvalid(t) \/ HasRoom(t) \/ Expand(t)
    \/ AllocationFails(t) \/ Store(t) \/ CountItem(t) \/ Render(t)

Next == ClearConversation \/ \E t \in Threads : Write(t)
Spec == Init /\ [][Next]_vars

-----------------------------------------------------------------------------
TypeOK ==
    /\ count \in Nat /\ capacity \in Nat /\ DOMAIN items = 1 .. capacity
    /\ pc \in [Threads -> {"idle", "clear", "add", "store", "count", "done"}]
    /\ \A t \in Threads :
          Len(todo[t]) <= MaxItems /\ Len(asked[t]) <= MaxItems /\ added[t] <= MaxItems
    /\ failed \in [Threads -> BOOLEAN] /\ crowded \in BOOLEAN

(* A call that had the list to itself shows what it was given: the items with *)
(* a known status, in their order, none of an earlier list; the count it      *)
(* reports is theirs, and the array held them all. Calls that overlap promise *)
(* nothing.                                                                   *)
ShowsWhatWasWritten ==
    ~crowded =>
        /\ count <= capacity
        /\ \A t \in Threads : pc[t] = "done" =>
              /\ added[t] = Len(rendered[t])
              /\ ~failed[t] => rendered[t] = Valid(asked[t])
=============================================================================
