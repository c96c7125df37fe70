SPECIFICATION Spec
CONSTANTS
    Projects = {p1}
    Sources = {s1, s2}
    NoProject = none
    MaxRetries = 3
    MaxRuns = 2
    MaxTasks = 2
    MaxOps = 0
    Budgets <- MCTwoTasks
    LockPaths = {p1}
    MapLimit = 1
    MaxCalls = 1
CHECK_DEADLOCK FALSE
INVARIANTS
    QueueIsSerial
