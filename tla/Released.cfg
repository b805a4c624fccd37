SPECIFICATION Spec
CONSTANTS
    Process = {p1}
    Deployment = {"web"}
    Request = {q1, q2, q3}
    ScaleDownAfter = {6}
    minRenewInterval = 2
    maxRenewInterval = 5
    renewTimeout = 4
    Second = 1
    Start = 1
    Horizon = 6
    Budgets <- OnlyRacing
SYMMETRY Symmetry
PROPERTY OncePerInterval
CHECK_DEADLOCK FALSE
