--------------------------- MODULE CircularBuffer ---------------------------
(* Index arithmetic of the two circular buffers of message_queue.c: `head` is  *)
(* the next write position, `tail` the next read position, `count` the number  *)
(* of occupied positions, and both indices move with (i + 1) % capacity.       *)
EXTENDS Integers, Sequences

CONSTANT Capacity    \* queue->capacity

(* tui_msg_queue_init and ai_queue_init return -1 for a capacity of 0.         *)
ASSUME CapacityAssumption == Capacity \in Nat \ {0}

Index == 0 .. Capacity - 1

Advance(i) == (i + 1) % Capacity

(* The position k places after position 0, for k below 2 * Capacity.           *)
Wrap(k) == IF k < Capacity THEN k ELSE k - Capacity

(* Positions that hold a message, and the messages from oldest to newest.      *)
Occupied(tail, count) == {Wrap(tail + k) : k \in 0 .. count - 1}

Contents(slots, tail, count) == [k \in 1 .. count |-> slots[Wrap(tail + k - 1)]]

(* What every critical section must leave behind for the next one.             *)
Consistent(head, tail, count) ==
    /\ head \in Index
    /\ tail \in Index
    /\ count \in 0 .. Capacity
    /\ head = Wrap(tail + count)
=============================================================================
