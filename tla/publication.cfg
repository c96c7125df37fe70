SPECIFICATION MCSpec
CONSTANTS
    Source = Source
    Page = Page
    Index = Index
    Log = Log
    Overview = Overview
    Registry = Registry
    Draft = Draft
    Paths <- PublishedFiles
    Plans <- PublishedPlans
    MaxFaults = 3
    Crashes = TRUE
    Files = {f1, f2}
    NoFile = NoFile
    MaxRetry = 1
    MaxGeneration = 2
    SyncBudgets <- MCSyncBudgets
    Wiki = {p1, p2}
    Jobs = {j1, j2, j3}
    MaxWaits = 1
    EnrichFaults = 2
SYMMETRY WatchedFilesAreAlike
INVARIANTS
    WikiTypeOK
    NothingIsLost
    ChangeIsFollowedUp
    NoEnrichmentIsLost
PROPERTIES
    ImplementsAtomicPublication
CHECK_DEADLOCK FALSE
