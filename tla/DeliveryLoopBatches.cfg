SPECIFICATION LoopSpec
CONSTANTS
    up = up
    down = down
    h1 = h1
    h2 = h2
    t1 = t1
    t2 = t2
    c1 = c1
    v1 = v1
    None = None
    Contracts <- NoContracts
    FirstHead = h1
    FirstTip = t1
    Checks <- OneCheck
    RequiredChecks <- OneCheck
    Repos <- TwoRepos
    Deps <- DownNeedsUp
    Batches <- TwoBatches
    Heads <- OneHead
    Tips <- OneTip
    Reviewers <- Nobody
    Occurs <- Nothing
    RequiredApprovals = 0
    RequireGovernance = TRUE
    RequireValidation = TRUE
    MaxPlans = 0
PROPERTIES AllDelivered
CHECK_DEADLOCK FALSE
