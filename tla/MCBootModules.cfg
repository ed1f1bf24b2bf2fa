\* Module loading only: the numbers stored for a module's dependencies.
SPECIFICATION MCSpec
CONSTANTS
    Parts = {"modules"}
    Machines <- CpuMachines
    ApicIds = {0, 3, 7}
    Cores = {c1, c2}
    Threads = {t1, t2, t3}
    KernelThreads = {t3}
    Nested = 1
    Registrars = {"h1", "h2"}
    MaxInterrupts = 2
    MsPerSecond = 2
    Procs = {p1, p2}
    Deps <- ModuleDeps
    Needs <- ModuleNeeds
    MaxMajor = 6
    PerSector = 2
INVARIANT DependencyNumbers
CHECK_DEADLOCK FALSE
