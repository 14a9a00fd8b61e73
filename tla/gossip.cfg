SPECIFICATION Spec
CONSTANTS
    n1 = n1
    n2 = n2
    s1 = s1
    p1 = p1
    p2 = p2
    w1 = w1
    Nodes <- MCNodes
    Services <- MCServices
    Details <- MCDetails
    Publishers <- MCPublishers
    Workers <- MCWorker
    Window = 1
    MaxTime = 2
    MaxLamport = 3
    LamportModulus = 8
SYMMETRY MCSymmetry
INVARIANTS
    TypeOK
    ClockCondition
    StampsUnique
PROPERTY
    AdmitsOncePerWindow
