SPECIFICATION Spec
CONSTANTS
    Procs = {p1, p2, p3}
    InitProc = p1
    Addrs = {a1}
    Pages = {x1, x2, x3, x4}
    Vals = {zero, file}
    Zero = zero
    FileVal = file
    Offs = {0}
    Anons = {n1}
    Kinds = {"private"}
    None = None
SYMMETRY Symmetry
PROPERTIES
    ImplementsPrivateMemory
CHECK_DEADLOCK FALSE
