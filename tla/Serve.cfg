SPECIFICATION FairSpec
CONSTANTS
    good1 = good1
    good2 = good2
    upgraded = upgraded
    Calls = {c1}
    Reloads = {r1, r2}
    Files = {good1, good2, upgraded}
    Verdict <- VerdictSmall
    MaxIdle = 1
    MaxQueries = 1
    Startup = startup
    NoFile = nofile
    Nobody = nobody
INVARIANTS NoUseAfterClose ServedUsable NoHandleLeak NeverOlderThanServed
PROPERTIES ServedNeverRegresses CallsReturn ReloadsEnd
