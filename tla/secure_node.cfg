SPECIFICATION Spec
CONSTANTS
    n1 = n1
    r1 = r1
    e1 = e1
    Nodes <- MCNodes
    Routes <- MCRoutes
    Evaluators <- MCEvaluators
    MaxStarts = 3
CHECK_DEADLOCK FALSE
INVARIANTS
    TypeOK
    IdentitySurvives
