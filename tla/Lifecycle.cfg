SPECIFICATION MCSpec
CONSTANTS
    Scenarios <- LifecycleScenarios
    Configs <- EditConfigs
    Budgets <- MCBudgets
    Deployment = {"web", "api"}
    NoApp = NoApp
    Image = {i1}
    NoImage = NoImage
    Env = {e1}
    NoEnv = NoEnv
    Forwarder = {f1}
    Second = 1
    Start = 1
INVARIANTS Converged ActiveRuns
PROPERTIES  KeepsPromise
CHECK_DEADLOCK FALSE
