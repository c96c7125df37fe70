SPECIFICATION Spec
CONSTANTS
    MaxDrafts = 3
    MaxRevision = 2
    MaxKicks = 1
    MaxDisturbances = 1
    Contents = {c1, c2}
    TopicPages = {topic}
    None = None
    Workers = {w1, w2}
    Compilers = {}
    NativeCompile = FALSE
    Enrichment = TRUE
    Kinds = {"source", "generated"}
    Disturbances = {"crash", "io"}
SYMMETRY Symmetry
INVARIANTS
    TypeOK
    SingleWorker
    NoStalledQueue
    VisibleIsApproved
    PublicationIsConsistent
PROPERTIES
    ReviewIsStable
    ImplementsLedger
CHECK_DEADLOCK FALSE
