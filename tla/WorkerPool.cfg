\* Three connections, any of which may be a specialized worker, one job each and
\* three jobs: lists fill up, jobs are refused, reassigned and dropped.  The
\* system stops when every job is settled and every connection used up.
SPECIFICATION FairSpec
CONSTANTS
    p = p
    q = q
    j1 = j1
    j2 = j2
    j3 = j3
    w1 = w1
    w2 = w2
    w3 = w3
    Workers = {w1, w2, w3}
    Plugins = {p}
    Core = Core
    Jobs = {j1, j2, j3}
    Command <- CommandOf
    PluginArgs <- OnePlugin
    MaxJobs = 1
    NumCheckWorkers = 1
    Cpus = 2
    MaxSpawned = 2
    NoWorker = NoWorker
CONSTRAINT InOrder
CHECK_DEADLOCK FALSE
INVARIANTS JobsAccounted ResultsBelong ListsLive WithinCapacity
PROPERTY JobsFinish
