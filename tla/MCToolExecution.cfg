\* Two calls per response, two rounds, three instructions, one submission while tools run.
\* The program waits for the user when every instruction is done.
CONSTANTS
    ToolCount = 2
    MaxRounds = 2
    MaxQueued = 2
    MaxInstructions = 3
    MaxLateSubmits = 1
SPECIFICATION Spec
INVARIANTS
    TypeOK
    EveryCallAnswered
    TrackerOutlivesThreads
    AccountedForOnce
PROPERTIES
    InterruptEndsRound
    UndisturbedRoundEnds
CHECK_DEADLOCK FALSE
