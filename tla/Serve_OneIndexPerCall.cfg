SPECIFICATION Spec
CONSTANTS
    good1 = good1
    good2 = good2
    upgraded = upgraded
    Calls = {c1}
    Reloads = {r1}
    Files = {good1, good2, upgraded}
    Verdict <- VerdictSmall
    MaxIdle = 2
    MaxQueries = 2
    Startup = startup
    NoFile = nofile
    Nobody = nobody
INVARIANT OneIndexPerCall
