SPECIFICATION FairSpec
CONSTANTS
    a = a
    b = b
    n1 = n1
    n2 = n2
    c1 = c1
    c2 = c2
    None = None
    Repos = {b}
    Batches <- Alone
    FirstBatches = 1
    LeaderSide = {b}
    Nodes = {n1}
    FirstNode = n1
    MaxReworks = 1
    Callers = {c1, c2}
    DeliveryGated = TRUE
    Occurs = {}
    MaxDisturbances = 0
PROPERTIES
    ApprovedIsPublished
CHECK_DEADLOCK FALSE
