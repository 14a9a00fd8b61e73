SPECIFICATION FairSpec
CONSTANTS
    w1 = w1
    w2 = w2
    none = none
    Writers <- MCWriters
    NoWriter = none
    MaxSends = 2
    TooLarge <- MCTooLarge
    Locking = {TRUE, FALSE}
CHECK_DEADLOCK FALSE
INVARIANTS
    TypeOK
    NonceUsedOnce
    NothingSkipped
    OpenedOnceInOrder
PROPERTIES
    ImplementsFifo
    WrittenIsReceived
