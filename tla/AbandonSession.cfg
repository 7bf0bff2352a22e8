\* One tool thread is enough to outlive the queue.
CONSTANTS
    Tools = {"t1"}
    MaxQueued = 1
    MaxPending = 1
    MaxSubmits = 1
SPECIFICATION Spec
INVARIANT QueueOutlivesTools
CHECK_DEADLOCK FALSE
