SPECIFICATION Spec
CONSTANTS
    Names = {"a.o", "x.h"}
    MaxRecords = 5
    MaxIns = 1
    Damaged <- DamagedLogs
    Maps <- LinkMaps
    Ids <- TwoIds
    CallLists <- ShortLists
    Flags = {"analyzed"}
    MaxLines = 5
    Targets = {"app", "lib", "test"}
    Unknown = {"typo"}
    MaxTargets = 4
    Functions = {1, 2, 3}
    MaxIcfLines = 5
    MaxDecisions = 2
    MaxDies = 6
    MaxDepth = 4
    Sites <- IndirectCalls
    Extent <- TwoSections
    AddressTaken <- ThreeFunctions
INVARIANTS
    ReplayIsExact  DumpsAreExact FilterIsExact EntriesFiled CandidatesKept
