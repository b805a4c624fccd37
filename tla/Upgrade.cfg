SPECIFICATION MCSpec
CONSTANTS
    Scenarios <- UpgradeScenarios
    Configs <- StartConfigs
    Budgets <- MCBudgets
    Deployment = {"web"}
    NoApp = NoApp
    Image = {i1}
    NoImage = NoImage
    Env = {e1}
    NoEnv = NoEnv
    Forwarder = {f1}
    Second = 1
    Start = 1
PROPERTY UpgradeStartsNothing
CHECK_DEADLOCK FALSE
