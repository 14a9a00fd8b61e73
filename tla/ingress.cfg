SPECIFICATION FairSpec
CONSTANTS
    t1 = t1
    t2 = t2
    r1 = r1
    r2 = r2
    s1 = s1
    none = none
    Tunnels <- MCTunnels
    Requests <- MCRequests
    Sessions <- MCSessions
    Keys <- MCKeys
    NoTunnel = none
INVARIANTS
    TypeOK
    HandledOnce
    RefreshProvesBoundKey
PROPERTY
    LostTunnelRequestsEnd
