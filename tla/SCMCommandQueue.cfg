SPECIFICATION Spec
CONSTANTS
    m1 = m1
    u1 = u1
    d1 = d1
    d2 = d2
    NoOwner = NoOwner
    Commands <- MCCommands
    MergeCommands <- MCMergeCommands
    Dispatchers <- MCDispatchers
    LeaseTime = 2
    MaxAttempts = 2
INVARIANTS TypeOK LeaseHonoured AcceptedMeansDone
PROPERTIES AcceptedIsFinal Settles
CHECK_DEADLOCK FALSE
