\* The kernel's first thread and the ones it forks.  With three a thread runs, one waits
\* for it and one is queued meanwhile; a fourth lets one sleep queue hold two threads
\* while the run queue is not empty.
SPECIFICATION Spec
CONSTANTS
    Threads = {t0, t1, t2, t3}
    Root = t0
    Cores = {0}
    NoCore = NoCore
    Null = Null
    EraseMiss = {"return", "spin"}
    MaxWatchers = 4
INVARIANTS
    ThreadsAccounted
PROPERTIES
    ThreadsGoOn
CHECK_DEADLOCK FALSE
