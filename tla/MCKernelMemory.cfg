SPECIFICATION MCSpec
CONSTANTS
    Parts = {"pages", "pager", "heap"}
    Threads = {t1, t2}
    NoThread = NoThread
    NPages = 7
    MaxCount = 2
    MemoryMap <- MCMemoryMap
    LowPages = 1
    InitRuns <- MCInitRuns
    SizeT = 8
    Pagers = {p1, p2}
    Users = {p1}
    UserPages = {2}
    KernelPages = 2
    WorkPages = 6
    Frames = {20}
    MaxLength = 2
    MaxCalls = 3
    HeapPages = 3
    PageSize = 16
    PageCount = 1
    MajorSize = 2
    MinorSize = 1
    Alignment = 2
    AlignInfo = 2
    Requests = {2, 5, 12}
INVARIANTS
    NoFreeBelowHint
    NoPageLost
    PagingExact
    HeapExact
    FailsOnlyWhenFull
PROPERTIES
    ImplementsAllocator
    PallocReturns
CHECK_DEADLOCK FALSE
