\* One submission while tools run.
CONSTANTS
    ToolCount = 2
    MaxRounds = 1
    MaxQueued = 2
    MaxInstructions = 3
    MaxLateSubmits = 1
SPECIFICATION Spec
PROPERTIES
    RoundEnds
CHECK_DEADLOCK FALSE
