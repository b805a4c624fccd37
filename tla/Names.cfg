SPECIFICATION Spec
CONSTANTS
    Letter <- Letters
    Digit <- Digits
    Upper <- Uppers
    lowercase <- ToLower
    Disallowed <- Others
    MaxLength = 5
    MaxHost = 8
    BranchCharacter <- BranchCharacters
    MaxBranch = 4
    OtherBranches <- ShortBranches
    App <- AppName
    RandomIDs <- IDs
    Deployments <- AllDeployments
    Image <- Images
INVARIANTS TypeOK ValidNames SameNames HasRandomID LongBranches DistinctHosts SameRepository
CHECK_DEADLOCK FALSE
