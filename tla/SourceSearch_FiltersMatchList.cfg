SPECIFICATION Spec
CONSTANTS
    Indexes <- SmallIndexes
    Searches <- SmallSearches
    MatchLimit = 5
    MaxByFile = 2
INVARIANTS FiltersMatchList
