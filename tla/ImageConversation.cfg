\* An image upload interrupted before the next request.
CONSTANTS
    MaxMessages = 8
    MaxTexts = 2
    MaxCalls = 2
    Disturbances = {"image"}
SPECIFICATION Spec
INVARIANTS
    Paired
CHECK_DEADLOCK FALSE
