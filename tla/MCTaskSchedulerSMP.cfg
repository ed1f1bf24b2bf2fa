SPECIFICATION Spec
CONSTANTS
    Threads = {t0, t1, t2}
    Root = t0
    Cores = {0, 1}
    NoCore = NoCore
    Null = Null
    EraseMiss = {"return", "spin"}
    MaxWatchers = 1
INVARIANTS
    LockHoldersRun
CHECK_DEADLOCK FALSE
