SPECIFICATION Spec
CONSTANTS
    up = up
    down = down
    aside = aside
    h1 = h1
    h2 = h2
    t1 = t1
    c1 = c1
    c2 = c2
    v1 = v1
    v2 = v2
    None = None
    Contracts <- NoContracts
    Heads <- TwoHeads
    FirstHead = h1
    Tips <- OneTip
    FirstTip = t1
    RequiredChecks <- OneCheck
    Repos <- ThreeRepos
    Deps <- DownNeedsUp
    Checks <- TwoChecks
    Reviewers <- TwoReviewers
    RequiredApprovals = 1
    RequireGovernance = FALSE
    RequireValidation = TRUE
    MaxPlans = 1
CONSTRAINT Slice
INVARIANTS
    TypeOK
    CursorExact
    SerialMerge
    OrderRespectsDeps
    MergeNeedsEvidence
    CompensatedMeansComplete
CHECK_DEADLOCK FALSE
