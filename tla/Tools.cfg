SPECIFICATION ToolSpec
CONSTANTS
    Syms <- FourSyms
    EdgeSpace <- Edges
    Reachables <- TwoTargets
    Requests <- FromOne
    DefaultDepth = 2
    MaxDepth = 3
    ResultLimit = 2
    Objects = {1, 2}
    Reasons = {"r1", "r2"}
    MaxRows = 3
    ScanLimit = 3
    RowLimit = 1
    Indexes <- SmallIndexes
    Searches <- SmallSearches
    MatchLimit = 5
    MaxByFile = 2
    SourcePaths <- TwoPaths
    Contents = {"old", "new"}
    MaxSaves = 3
    NameCount = 3
    Main = 2
    Catalogs <- SmallCatalogs
    Questions <- SmallQuestions
    FindLimit = 2
    NeighborLimit = 1
INVARIANTS CallPathsExact VerdictExact SearchExact DriftExact QueriesAgree
