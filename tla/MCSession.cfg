\* Two tool threads per round, two instructions, queues of two.
\* main = "done" is the end of the program.
CONSTANTS
    Tools = {"t1", "t2"}
    MaxQueued = 2
    MaxPending = 2
    MaxSubmits = 2
SPECIFICATION Spec
INVARIANTS
    TypeOK
    QueuesOutliveWorker
    UpdatesRendered
PROPERTIES
    NoAttemptAfterStop
    ExitCompletes
CHECK_DEADLOCK FALSE
