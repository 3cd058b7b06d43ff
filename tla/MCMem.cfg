SPECIFICATION Spec
CONSTANTS
    p1 = p1
    p2 = p2
    g1 = g1
    g2 = g2
    g3 = g3
    s1 = s1
    NULL = NULL
    Procs = {p1, p2}
    First = p1
    Pages = {g1, g2, g3}
    Vals = {0, 1}
    Zero = 0
    Segs = {s1}
    NVA = 2
    PASSIVE_THRESHOLD = 2
    Objects = {}
    Prots <- ReadOnly
INVARIANTS
    RefExact
    WritableIsPrivate
PROPERTIES
    ImplementsSpaces
SYMMETRY PageSymmetry
CHECK_DEADLOCK FALSE
