SPECIFICATION MCSpec
CONSTANTS
    Scenarios <- SubsecondScenarios
    Configs <- StartConfigs
    Budgets <- MCBudgets
    Deployment = {"web"}
    NoApp = NoApp
    Image = {i1}
    NoImage = NoImage
    Env = {e1}
    NoEnv = NoEnv
    Forwarder = {f1}
    Second = 2
    Start = 2
INVARIANT ActiveRuns
CHECK_DEADLOCK FALSE
