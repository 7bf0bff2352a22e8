\* Capacity 2, two writers, two readers, three heap blocks, four posts.
CONSTANTS
    w1 = w1  w2 = w2  r1 = r1  r2 = r2  b1 = b1  b2 = b2  b3 = b3
    Capacity = 2
    Writers <- MCWriters
    Readers <- MCReaders
    Block <- MCBlock
    NULL = NULL
    Totals <- MCTotals
    MaxPosts = 4
SPECIFICATION Spec
INVARIANTS
    TypeOK
    OneOwnerPerText
    NoLostWakeup
    NewestPostsInOrder
PROPERTIES
    ImplementsEvictingQueue
    ShutdownReleasesReaders
CHECK_DEADLOCK FALSE
