SPECIFICATION FairAgentSpec
CONSTANTS
    c1 = c1
    c2 = c2
    s1 = s1
    s2 = s2
    b1 = b1
    b2 = b2
    b3 = b3
    d1 = d1
    noConn = noConn
    noBind = noBind
    Conns <- MCConns
    Subdomains <- MCSubdomains
    Binds <- MCBinds
    Dials <- MCDials
    Ages <- MCAges
    ProofWindow = 60
    NoConn = noConn
    Subdomain = s1
    NoBind = noBind
INVARIANTS
    TypeOK
    EntriesAreWatched
    DialsOnlyBound
    AgentLeaksNothing
PROPERTIES
    ClosedEntriesGo
    AgentRedials
