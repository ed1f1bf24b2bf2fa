SPECIFICATION MCSpec
CONSTANTS
    Threads = {t1, t2, t3, t4}
    f_max = 2
    Initial = 2
    Clients = {c1, c2}
    Loop = Loop
    NoThread = NoThread
    Idents = {"sync", "load"}
    Handlers <- Registered
    MaxRaises = 2
    QueueThreads = {q1, q2, q3, q4}
    Cores = {0, 1}
    NoCore = NoCore
    Null = Null
    Keys = {0, 1, 2, 3, 4}
    MapValues = {1, 2}
    InitialBuckets = 1
    Granule = 2
    Word = 16
    Nodes = 5
    ListValues = 2
    MaxValue = 6
    MaxRanges = 4
    Handles = {1, 2, 3}
    MaxObjects = 2
INVARIANTS
    Capacity
    EventsHandled
    ContainersExact
    CountsExact
PROPERTIES
    WaitingEnds
    ImplementsRunQueue
