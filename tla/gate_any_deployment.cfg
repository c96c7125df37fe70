SPECIFICATION Spec
CONSTANTS
    MaxDrafts = 2
    MaxRevision = 1
    MaxKicks = 1
    MaxDisturbances = 1
    Contents = {c1, c2}
    TopicPages = {topic}
    None = None
    Workers = {w1, w2}
    Compilers = {x1}
    NativeCompile = FALSE
    Enrichment = TRUE
    Kinds = {"source", "generated"}
    Disturbances = {"crash", "select", "io", "lost_kick"}
SYMMETRY Symmetry
PROPERTIES
    RejectedIsFinal
CHECK_DEADLOCK FALSE
