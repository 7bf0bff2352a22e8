---------------------------- MODULE BoundedFifo -----------------------------
(* What the AI instruction queue promises (message_queue.h): a bounded queue   *)
(* that refuses nothing before it is closed, loses nothing it accepted, and    *)
(* hands instructions out in the order in which it accepted them.              *)
EXTENDS Naturals, Sequences

CONSTANT Capacity

VARIABLES
    accepted,    \* number of instructions accepted so far
    contents,    \* numbers of the accepted instructions still queued
    taken,       \* number of the instruction handed out last
    closed

vars == <<accepted, contents, taken, closed>>

Init == accepted = 0 /\ contents = <<>> /\ taken = 0 /\ closed = FALSE

Enqueue ==
    /\ ~closed /\ Len(contents) < Capacity
    /\ accepted' = accepted + 1
    /\ contents' = Append(contents, accepted + 1)
    /\ UNCHANGED <<taken, closed>>

(* Closing does not drop what is queued: it can still be handed out.           *)
Dequeue ==
    /\ contents # <<>>
    /\ taken' = taken + 1 /\ Head(contents) = taken + 1
    /\ contents' = Tail(contents)
    /\ UNCHANGED <<accepted, closed>>

Close == closed' = TRUE /\ UNCHANGED <<accepted, contents, taken>>

Discard == closed /\ contents' = <<>> /\ UNCHANGED <<accepted, taken, closed>>

Next == Enqueue \/ Dequeue \/ Close \/ Discard

Spec == Init /\ [][Next]_vars
=============================================================================
