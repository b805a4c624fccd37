SPECIFICATION MCFairSpec
CONSTANTS
    Scenarios <- LiveScenarios
    Configs <- StartConfigs
    Budgets <- MCBudgets
    Deployment = {"web"}
    NoApp = NoApp
    Image = {i1}
    NoImage = NoImage
    Env = {e1}
    NoEnv = NoEnv
    Forwarder = {f1, f2}
    Second = 1
    Start = 1
PROPERTIES VisitStarts Settles
CHECK_DEADLOCK FALSE
