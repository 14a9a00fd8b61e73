SPECIFICATION FairSpec
CONSTANTS
    c1 = c1
    c2 = c2
    s1 = s1
    none = none
    Connects <- MCConnects
    Senders <- MCSenders
    None = none
    FirstMessage = {TRUE, FALSE}
INVARIANTS
    TypeOK
    FailedConnectLeavesNothing
PROPERTIES
    CloseEndsLoop
