SPECIFICATION Spec
CONSTANTS
    MaxDrafts = 2
    MaxRevision = 2
    MaxKicks = 2
    MaxDisturbances = 1
    Contents = {c1, c2}
    TopicPages = {topic}
    None = None
    Workers = {w1, w2}
    Compilers = {x1, x2}
    NativeCompile = TRUE
    Enrichment = TRUE
    Kinds = {"source", "generated"}
    Disturbances = {"crash"}
SYMMETRY Symmetry
INVARIANTS
    ReviewedProposalIsCurrent
PROPERTIES
    TrustedIsFinal
CHECK_DEADLOCK FALSE
