SPECIFICATION Spec
CONSTANTS
    a = a
    b = b
    n1 = n1
    n2 = n2
    c1 = c1
    c2 = c2
    None = None
    Repos = {a, b}
    Batches <- OneThenOther
    FirstBatches = 1
    LeaderSide = {b}
    Nodes = {n1}
    FirstNode = n1
    MaxReworks = 0
    Callers = {c1, c2}
    DeliveryGated = TRUE
    Occurs = {"failures", "blocked", "untested", "interrupts", "replay", "rerun", "retell", "facts"}
    MaxDisturbances = 1
SYMMETRY CallSymmetry
INVARIANTS
    PlanTypeOK
    BatchesInOrder
    CompletedMeansDelivered
PROPERTIES
    CompletedIsFinal
    RefusalHolds
CHECK_DEADLOCK FALSE
