SPECIFICATION FairSpec
CONSTANTS
    Scenarios <- All
    Request = {1, 2}
    Deployment = {"web", "api"}
    Host = {"web.pr"}
    NoApp = NoApp
    ConnectionTimeout = 4
    retryInterval = 1
    dialTimeout = 2
    ShutdownTimeout = 2
    Second = 1
    Start = 1
    LastArrival = 2
    Horizon = 9
INVARIANTS TypeOK  WaitsInTime  ReadyAccepts
PROPERTIES NotStartedIsTrue Answered Stops
CHECK_DEADLOCK FALSE
