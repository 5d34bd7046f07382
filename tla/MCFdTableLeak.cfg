CONSTANTS
    h1 = h1
    h2 = h2
    h3 = h3
    h4 = h4
    fa = fa
    fb = fb
    fz = fz
    NFD = 4
    Files <- MCFiles
    FileLen <- MCFileLen
    Handles <- MCHandles
    FdArgs = {2, 3}
    AddrArgs = {1, 2}
    UserTop = 3
    MaxMap = 3
    NULL = NULL
    Garbage = Garbage
    NoPage = NoPage
SYMMETRY HandleSymmetry
SPECIFICATION Spec
INVARIANT
    HandlesAccounted
