SPECIFICATION Spec
CONSTANTS
    p1 = p1
    p2 = p2
    f1 = f1
    f2 = f2
    NULL = NULL
    Procs = {p1, p2}
    Names = {f1, f2}
    Bytes = {1}
    NClusters = 2
    BytesPerClus = 2
    PAGE_SIZE = 2
    MaxSize = 3
    MaxRefs = 2
    CutFull = FALSE
INVARIANTS
    ChainsExact
    
PROPERTIES
    ImplementsFiles
SYMMETRY Symmetry
VIEW View
CHECK_DEADLOCK FALSE
