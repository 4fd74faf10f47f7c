SPECIFICATION LoopSpec
CONSTANTS
    up = up
    down = down
    h1 = h1
    h2 = h2
    t1 = t1
    t2 = t2
    c1 = c1
    v1 = v1
    None = None
    Contracts <- NoContracts
    FirstHead = h1
    FirstTip = t1
    Checks <- OneCheck
    RequiredChecks <- OneCheck
    Repos <- OneRepo
    Deps <- NoDeps
    Batches <- SingleBatch
    Heads <- OneHead
    Tips <- OneTip
    Reviewers <- Nobody
    Occurs <- RollbackAndWebhooks
    RequiredApprovals = 0
    RequireGovernance = TRUE
    RequireValidation = TRUE
    MaxPlans = 1
INVARIANTS RecoveryNotStranded
CHECK_DEADLOCK FALSE
