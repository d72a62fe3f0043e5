SPECIFICATION Spec
CONSTANTS
    Workers = {w1, w2}
    Jobs = {j1}
    Poison = {}
    Selects <- AllSources
    CatalogueSize = 1
    DocumentCount = 2
    MaxEdition = 2
    Digest <- DistinctDigest
    InScope <- ScopeSteady
    Wordless = {}
    Models = {titan}
    MaxReceive = 3
SYMMETRY Symmetry
INVARIANT DocumentsUnique
CHECK_DEADLOCK FALSE
