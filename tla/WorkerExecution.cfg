SPECIFICATION FairSpec
CONSTANTS
    w1 = w1
    w2 = w2
    c1 = c1
    c2 = c2
    r1 = r1
    h1 = h1
    None = None
    Workers = {w1, w2}
    FirstWorker = w1
    Callers = {c1, c2}
    Reconcilers = {r1}
    Handlers = {h1}
    MaxReassignments = 1
    MaxAttempts = 2
    Occurs = {"crash", "slow", "prepare_fails", "dispatch_fails", "failed", "input_required", "sessions", "unhealthy", "redelivered", "runner_dies", "operator", "busy", "start_twice", "start_again"}
    MaxDisturbances = 1
    MaxExecutions = 5
INVARIANTS WorkerTypeOK RunsAreBounded AttemptIsAssignee OneLiveRun ResultHasRun
PROPERTIES ResultIsAssignees TaskSettles
CHECK_DEADLOCK FALSE
