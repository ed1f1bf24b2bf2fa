SPECIFICATION Spec
CONSTANTS
    Task = {t1, t2}
    Nodes = {R, D, B, V, S, n1, n2}
    Names = {"d", "b", "x"}
    R = R
    D = D
    B = B
    V = V
    S = S
    n1 = n1
    n2 = n2
    RootOf <- MCRootOf
    InitrdTree <- MCInitrdTree
    OpenPaths <- MCOpenPaths
    DirPaths <- MCDirPaths
    MountPaths <- MCMountPaths
    HeldDirs = {D}
    LinkDests <- MCLinkDests
    AddPaths <- MCAddPaths
    MaxDepth = 2
    Null = Null
INVARIANTS
    TreeConsistent
PROPERTIES
    WalksCorrect
SYMMETRY TaskSymmetry
CHECK_DEADLOCK FALSE
