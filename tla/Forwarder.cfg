SPECIFICATION Spec
CONSTANTS
    Process = {p1, p2}
    Deployment = {"web"}
    Request = {q1, q2, q3}
    ScaleDownAfter = {0, 3}
    minRenewInterval = 1
    maxRenewInterval = 3
    renewTimeout = 2
    Second = 1
    Start = 1
    Horizon = 5
    Budgets <- All
SYMMETRY Symmetry
INVARIANT TypeOK
 
CHECK_DEADLOCK FALSE
