SPECIFICATION Spec
CONSTANTS
    Threads = {t0, t1, t2}
    Root = t0
    Cores = {0}
    NoCore = NoCore
    Null = Null
    EraseMiss = {"return"}
    MaxWatchers = 3
PROPERTY
    WatchersInformed
CHECK_DEADLOCK FALSE
