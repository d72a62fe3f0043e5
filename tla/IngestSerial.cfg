SPECIFICATION FairSpec
CONSTANTS
    Workers = {w1}
    Jobs = {j1, bad}
    Poison = {bad}
    Selects <- AllSources
    CatalogueSize = 1
    DocumentCount = 2
    MaxEdition = 2
    Digest <- DistinctDigest
    InScope <- ScopeChanges
    Wordless <- LosesText
    Models = {titan1, titan2}
    MaxReceive = 2
INVARIANT CleanRunsLand
PROPERTIES ImplementsCorpus JobsSettle
CHECK_DEADLOCK FALSE
