SPECIFICATION FairSpec
CONSTANTS
    c1 = c1
    c2 = c2
    m1 = m1
    r1 = r1
    r2 = r2
    l1 = l1
    l2 = l2
    app = app
    noID = noID
    noReply = noReply
    Calls <- MCCalls
    Methods <- MCMethods
    Replies <- MCReply
    Loops <- MCLoops
    App = app
    NoID = noID
    NoReply = noReply
PROPERTIES
    IngressReturns
    EveryCallReturns
INVARIANTS
    TypeOK
    PendingExact
    RepliesCorrelated
    ResponseFindsWaiter
PROPERTY
    ImplementsContract
