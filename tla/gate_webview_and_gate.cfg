SPECIFICATION Spec
CONSTANTS
    MaxDrafts = 2
    MaxRevision = 2
    MaxKicks = 2
    MaxDisturbances = 0
    Contents = {c1, c2}
    TopicPages = {topic}
    None = None
    Workers = {w1}
    Compilers = {x1}
    NativeCompile = FALSE
    Enrichment = FALSE
    Kinds = {"source"}
    Disturbances = {}

PROPERTIES
    ReviewIsStable
CHECK_DEADLOCK FALSE
