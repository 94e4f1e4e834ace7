SPECIFICATION PassSpec
CONSTANTS
    Ids <- MCIds
    Units <- MCUnits
    Objects = {1, 2}
    Names = {"f", "g"}
    Builds <- MCBuilds
    Links <- MCLinks
    Paths <- MCPaths
    Packs <- MCPacks
    MaxEdits = 2
INVARIANTS
    PruneIsExact OrderIndependent
    FactsBelong PlacedOnce TypeFromOneUnit
    DefinedWins WinnerIsTheLinkers SoleStaticIsOwn NoCallLost PassesAreAtomic
    StoreAddsUp NothingSkipped StrictHoldsForTheBytes
