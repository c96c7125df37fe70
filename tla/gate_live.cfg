SPECIFICATION LiveSpec
CONSTANTS
    MaxDrafts = 2
    MaxRevision = 2
    MaxKicks = 2
    MaxDisturbances = 0
    Contents = {c1, c2}
    TopicPages = {topic}
    None = None
    Workers = {w1, w2}
    Compilers = {}
    NativeCompile = FALSE
    Enrichment = TRUE
    Kinds = {"source", "generated"}
    Disturbances = {}
PROPERTIES
    QueueMoves
    QueueDrains
CHECK_DEADLOCK FALSE
