SPECIFICATION FairSpec
CONSTANTS
    Scenarios <- All
    Request = {1, 2}
    Branch = {"a.b", "a-b", "a-b-c"}
    Name = {"a-b", "a-b-c"}
    PullRequestName <- Names
    Deployment = {"web", "api"}
    Object = {"web-a-b", "api-a-b", "api-a-b-c"}
    DeploymentName <- Deployments
    Image = {"v1", "v2"}
    NoImage = ""
    Repository = {"repo", "fork"}
    NoApp = NoApp
    Unwatched = Unwatched
    NoWebhook = NoWebhook
    maxWebhookAge = 1
    Gracious = 1
    maxAttempts = 1
    Start = 5
INVARIANTS TypeOK RefusedChangesNothing 
PROPERTIES  UpToDate Answered
CHECK_DEADLOCK FALSE
