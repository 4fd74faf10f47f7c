SPECIFICATION FairSpec
CONSTANTS
    a = a
    b = b
    n1 = n1
    n2 = n2
    c1 = c1
    c2 = c2
    None = None
    Repos = {a, b}
    Batches <- LedThenServed
    FirstBatches = 2
    LeaderSide = {b}
    Nodes = {n1, n2}
    FirstNode = n1
    MaxReworks = 1
    Callers = {c1, c2}
    DeliveryGated = TRUE
    Occurs = {"failures", "untested"}
    MaxDisturbances = 0
PROPERTIES
    LeaderDecides
    PlanComesToRest
CHECK_DEADLOCK FALSE
