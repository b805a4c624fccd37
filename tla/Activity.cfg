SPECIFICATION MCSpec
CONSTANTS
    Scenarios <- ActivityScenarios
    Configs <- StartConfigs
    Budgets <- MCBudgets
    Deployment = {"web"}
    NoApp = NoApp
    Image = {i1}
    NoImage = NoImage
    Env = {e1}
    NoEnv = NoEnv
    Forwarder = {f1, f2}
    Second = 1
    Start = 1
SYMMETRY Renewals
INVARIANTS TypeOK ActiveRuns 
PROPERTIES ScaleDownJustified DeleteJustified KeepsPromise
CHECK_DEADLOCK FALSE
