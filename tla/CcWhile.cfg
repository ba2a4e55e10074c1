SPECIFICATION Spec
CONSTANTS
    Clients = {c1, c2}
    Addresses = {a1}
    Busses = {b1}
    Caches = {k1}
    Timers = {t1, t2}
    MayFail = FALSE
    None = None
SYMMETRY MCSymmetry
INVARIANTS
    CachedForAWhile
CHECK_DEADLOCK FALSE
