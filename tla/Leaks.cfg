SPECIFICATION LSpec
CONSTANTS
  a = a
  b = b
  K1 = K1
  K2 = K2
  S1 = S1
  S2 = S2
  F1 = F1
  F2 = F2
  nopos = nopos
  NoPos = nopos
  NoKey = NoKey
  LockRefs <- MCLockRefs
  Programs <- LeakPackages
  Positions <- MCPositions
  MutexKeys = {K1, K2}
  KeyOf <- MCKeyOf
  NormKeyOf <- MCKeyOf
  Bases = {S1, S2}
  BaseOf <- MCBaseOf
  Fields = {F1, F2}
  FuncIds = {1, 2, 3, 4}
  Suppressed <- IgnoredCalls
  FuncPos <- MCFuncPos
  GuardOf <- MCGuardOf
  ConstructorLike <- MCConstructorLike
  PrePublication <- MCPrePublication
  ImportedRequires <- MCImportedRequires
  Imported <- MCImported
  MaxDepth = 40
CHECK_DEADLOCK FALSE
INVARIANTS HelpersReal LeaksAccounted HelperLocksExcused
