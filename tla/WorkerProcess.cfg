\* Two jobs, three process ids that other processes use too.
SPECIFICATION FairSpec
CONSTANTS
    j1 = j1
    j2 = j2
    Jobs = {j1, j2}
    Pids = {1, 2, 3}
    OwnReuse = FALSE
    StartsFail = TRUE
    MaxOutput = 1
INVARIANTS ReportsRight NoStrayKill
PROPERTY JobsEnd
CHECK_DEADLOCK FALSE
