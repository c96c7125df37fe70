SPECIFICATION LiveSpec
CONSTANTS
    MaxDrafts = 2
    MaxRevision = 1
    MaxKicks = 2
    MaxDisturbances = 1
    Contents = {c1, c2}
    TopicPages = {topic}
    None = None
    Workers = {w1}
    Compilers = {}
    NativeCompile = FALSE
    Enrichment = FALSE
    Kinds = {"source", "generated"}
    Disturbances = {"crash"}

PROPERTIES
    PublishingResolves
CHECK_DEADLOCK FALSE
