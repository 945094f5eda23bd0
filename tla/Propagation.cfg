SPECIFICATION OFairSpec
CONSTANTS
    f1 = f1
    f2 = f2
    f3 = f3
    f4 = f4
    K1 = K1
    K2 = K2
    Funcs = {f1, f2, f3, f4}
    MutexKeys = {K1, K2}
    Packages <- AllPackages
    MaxIterations = 4
    AccessOrigin = AccessOrigin
    NoOrigin = NoOrigin
    MaxDepth = 5
INVARIANTS TypeOK NothingSpurious NeverTruncated ReasonsGrounded ReasonsComplete
PROPERTIES Implements Termination
CHECK_DEADLOCK FALSE
