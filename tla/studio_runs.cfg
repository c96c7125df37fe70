SPECIFICATION Spec
CONSTANTS
    MaxRuns = 3
    MaxCalls = 2
    Budgets <- MCBudgets
    MaxExecutions = 2
    Instances <- MCInstances
    MaxProcesses = 2
    BridgeBudgets <- MCBridgeBudgets
    Members = {a, b}
    MaxDepth = 2
    MaxReplies = 3
    MaxRequests = 2
    GroupBudgets <- MCGroupBudgets
CHECK_DEADLOCK FALSE
INVARIANTS
    StudioTypeOK
    QueueIsExact
    MarkerIsAlive
    SessionIsServed
    CompletedRunFollowsItsGraph
    EndedRunIsClosed
    OneLiveBridge
    BridgeIsSupervised
    StopSticks
    ClearedStaysCleared
    RoomStaysOpen
    ChangesAreShown
PROPERTIES
    AbortSettles
    EveryMessageIsTaken
    EveryRunSettles
    BridgeCallsReturn
