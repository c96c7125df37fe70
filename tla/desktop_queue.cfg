SPECIFICATION Spec
CONSTANTS
    Projects = {p1, p2}
    Sources = {s1}
    NoProject = none
    MaxRetries = 2
    MaxRuns = 2
    MaxTasks = 2
    MaxOps = 2
    Budgets <- MCBudgets
    LockPaths = {p1, p2}
    MapLimit = 1
    MaxCalls = 3
CHECK_DEADLOCK FALSE
INVARIANTS
    QueueTypeOK
    WorkIsOwned
    FileMatchesMemory
    BodiesTakeTurns
PROPERTIES
    TasksSurvive
    EveryTaskSettles
    EveryCallReturns
