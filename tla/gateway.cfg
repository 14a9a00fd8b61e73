SPECIFICATION FairSpec
CONSTANTS
    s1 = s1
    s2 = s2
    k1 = k1
    k2 = k2
    h1 = h1
    noSession = noSession
    noHost = noHost
    Sessions <- MCSessions
    Keys <- MCKeys
    Hosts <- MCHosts
    NoSession = noSession
    NoHost = noHost
    Grace = 1
    MaxTime = 2
    BusCapacity = 1
INVARIANTS
    TypeOK
    NothingOutlivesItsSession
PROPERTIES
    SilentSessionsClosed
CHECK_DEADLOCK FALSE
