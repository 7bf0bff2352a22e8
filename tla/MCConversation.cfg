\* Everything that can happen to the history, and its limit within reach.
CONSTANTS
    MaxMessages = 7
    MaxTexts = 3
    MaxCalls = 2
    Disturbances = {"submit", "clear", "image", "abandon"}
SPECIFICATION Spec
INVARIANTS
    TypeOK
    AnsweredOnce
    RequestCarriesInstruction
    PairedWhenCalm
CHECK_DEADLOCK FALSE
