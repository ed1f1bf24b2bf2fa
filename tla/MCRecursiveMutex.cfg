\* Three threads, so that two can queue on the semaphore behind the owner and
\* race for one permit; depth 2, so that an inner unlock() differs from an outer.
SPECIFICATION Spec
CONSTANTS
    Threads = {t1, t2, t3}
    NoOwner = NoOwner
    MaxDepth = 2
INVARIANTS
    MutualExclusion
    NoSelfDeadlock
    LockNotLost
PROPERTIES
    SomeoneLocks
