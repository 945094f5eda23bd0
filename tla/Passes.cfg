SPECIFICATION SFairSpec
CONSTANTS
    f1 = f1
    f2 = f2
    f3 = f3
    T1 = T1
    T2 = T2
    Funcs = {f1, f2, f3}
    MutexKeys <- MCMutexKeys
    Fields <- MCFields
    Exported <- MCExported
    Packages = {}
    Programs <- AllPrograms
    MaxIterations = 1000
INVARIANTS STypeOK ReachableExact RootsToldOfAccess ReportsHaveCauses GuardsDetermined ModularExact
PROPERTIES AnalysisEnds
CHECK_DEADLOCK FALSE
