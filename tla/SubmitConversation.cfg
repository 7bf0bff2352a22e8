\* The user submits while tools run.
CONSTANTS
    MaxMessages = 8
    MaxTexts = 2
    MaxCalls = 2
    Disturbances = {"submit"}
SPECIFICATION Spec
INVARIANTS
    Paired
CHECK_DEADLOCK FALSE
