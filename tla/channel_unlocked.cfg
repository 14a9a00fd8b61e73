SPECIFICATION Spec
CONSTANTS
    w1 = w1
    w2 = w2
    none = none
    Writers <- MCWriters
    NoWriter = none
    MaxSends = 2
    TooLarge <- MCTooLarge
    Locking = {FALSE}
CHECK_DEADLOCK FALSE
INVARIANT
    EveryFrameOpens
