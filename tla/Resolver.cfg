SPECIFICATION Spec
CONSTANTS
    p = p
    q = q
    r = r
    l = l
    k = k
    c = c
    x = x
    y = y
    ap = ap
    aq = aq
    ar = ar
    al = al
    ax = ax
    Phis = {p, q, r}
    Loads = {l, k}
    FieldAddrs = {ap, aq, ar, al, ax}
    Others = {c, x, y}
    Functions <- AllFunctions
INVARIANTS BaseSound BaseStable NoPhiWithinItself
CHECK_DEADLOCK FALSE
