SPECIFICATION SSpec
CONSTANTS
    f1 = f1
    f2 = f2
    f3 = f3
    T1 = T1
    T2 = T2
    Funcs = {f1, f2, f3}
    MutexKeys <- MCMutexKeys
    Fields <- MCFields
    Exported <- MCExported
    Packages = {}
    Programs <- CalledUnderLock
    MaxIterations = 1000
INVARIANT SuppressedAppearAtCalls
CHECK_DEADLOCK FALSE
