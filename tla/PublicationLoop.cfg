SPECIFICATION Spec
CONSTANTS
    s = s
    t = t
    local = local
    shared = shared
    Values = {s, t, local, shared}
    LocalAllocs = {local}
    Constructors <- AllConstructors
INVARIANT NeverTheReverse
CHECK_DEADLOCK FALSE
