\* Capacity 2, three senders, two workers, five calls.
CONSTANTS
    s1 = s1  s2 = s2  s3 = s3  w1 = w1  w2 = w2
    Capacity = 2
    Senders <- MCSenders
    Workers <- MCWorkers
    MaxInstructions = 5
SPECIFICATION Spec
INVARIANTS
    TypeOK
    LosslessFifo
    TextsBalanced
PROPERTIES
    ImplementsBoundedFifo
    QueueMovesOn
CHECK_DEADLOCK FALSE
