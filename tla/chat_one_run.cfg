SPECIFICATION ChatSpec
CONSTANTS
    MaxRuns = 3
    MaxCalls = 2
    Budgets <- MCThreeMessages
CHECK_DEADLOCK FALSE
INVARIANT OneActiveRun
