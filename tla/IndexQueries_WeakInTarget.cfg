SPECIFICATION Spec
CONSTANTS
    NameCount = 3
    Main = 2
    Catalogs <- SmallCatalogs
    Questions <- SmallQuestions
    FindLimit = 2
    NeighborLimit = 1
INVARIANTS WeakInTarget
