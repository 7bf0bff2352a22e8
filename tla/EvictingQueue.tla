--------------------------- MODULE EvictingQueue ----------------------------
(* What the TUI message queue promises (message_queue.h): a bounded queue that *)
(* never blocks its writers and drops the oldest entry when it is full. Posts  *)
(* are numbered in the order in which they enter, and the queue holds numbers. *)
EXTENDS Naturals, Sequences

CONSTANT Capacity

VARIABLES
    posted,      \* number of posts so far
    contents,    \* the posts still queued, oldest first
    taken        \* the post a reader took last, 0 before the first

vars == <<posted, contents, taken>>

Init == posted = 0 /\ contents = <<>> /\ taken = 0

Kept == IF Len(contents) = Capacity THEN Tail(contents) ELSE contents

Post ==
    /\ posted' = posted + 1
    /\ contents' = Append(Kept, posted + 1)
    /\ UNCHANGED taken

Take ==
    /\ contents # <<>>
    /\ taken' = Head(contents)
    /\ contents' = Tail(contents)
    /\ UNCHANGED posted

Discard == contents' = <<>> /\ UNCHANGED <<posted, taken>>

Next == Post \/ Take \/ Discard

Spec == Init /\ [][Next]_vars
=============================================================================
