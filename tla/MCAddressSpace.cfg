SPECIFICATION Spec
CONSTANTS
    Procs = {p1, p2}
    InitProc = p1
    Addrs = {a1}
    Pages = {x1, x2, x3}
    Vals = {zero, file}
    Zero = zero
    FileVal = file
    Offs = {0}
    Anons = {n1}
    Kinds = {"empty", "private", "shared", "data", "text", "file"}
    None = None
SYMMETRY Symmetry
INVARIANTS
    ObjectsExact
    PagesSound
CHECK_DEADLOCK FALSE
