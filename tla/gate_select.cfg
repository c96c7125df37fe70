SPECIFICATION Spec
CONSTANTS
    MaxDrafts = 2
    MaxRevision = 1
    MaxKicks = 2
    MaxDisturbances = 1
    Contents = {c1, c2}
    TopicPages = {topic}
    None = None
    Workers = {w1, w2}
    Compilers = {}
    NativeCompile = FALSE
    Enrichment = TRUE
    Kinds = {"source", "generated"}
    Disturbances = {"select"}

PROPERTIES
    TrustedIsFinal
CHECK_DEADLOCK FALSE
