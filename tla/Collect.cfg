SPECIFICATION FairSpec
CONSTANTS
    c1 = c1
    c2 = c2
    Collectors = {c1, c2}
    Replace <- ReplaceSecond
    Names = {t1, t2}
    MaxAttempts = 1
    Passes = 3
    Dest = out
    Old = old
    NoInode = none
INVARIANTS DestComplete NoLitter ExitIsTruthful ScratchIsPrivate
PROPERTIES ImplementsIndexPath CollectsEnd
