\* A specialized worker that registers for two commands.
SPECIFICATION Spec
CONSTANTS
    p = p
    q = q
    j1 = j1
    j2 = j2
    j3 = j3
    w1 = w1
    w2 = w2
    w3 = w3
    Workers = {w1, w2, w3}
    Plugins = {p, q}
    Core = Core
    Jobs = {j1, j2, j3}
    Command <- CommandOf
    PluginArgs <- ManyPlugins
    MaxJobs = 1
    NumCheckWorkers = 1
    Cpus = 2
    MaxSpawned = 2
    NoWorker = NoWorker
CONSTRAINT InOrder
CHECK_DEADLOCK FALSE
INVARIANT ListsLive
