SPECIFICATION Spec
CONSTANTS
    Workers = {w1, w2}
    Jobs = {j1}
    Poison = {}
    Selects <- AllSources
    CatalogueSize = 1
    DocumentCount = 1
    MaxEdition = 3
    Digest <- DistinctDigest
    InScope <- ScopeSteady
    Wordless = {}
    Models = {titan, nova}
    MaxReceive = 3
INVARIANT RowsAreWhole
CHECK_DEADLOCK FALSE
