SPECIFICATION Spec
CONSTANTS
    A = A
    B = B
    C = C
    D = D
    f = f
    g = g
    MutexKeys = {A, B, C, D}
    Funcs = {f, g}
    Positions = {1, 2}
    Suppressed = {}
    Packages <- AllGraphs
INVARIANTS TypeOK CyclesReal ParentChainIntact LoopsFound LoopsReported
CHECK_DEADLOCK FALSE
