SPECIFICATION FairSpec
CONSTANTS
    Clients = {c1, c2, c3}
    Addresses = {a1, a2}
    Busses = {}
    Caches = {k1, k2}
    Timers = {t1, t2, t3}
    MayFail = TRUE
    None = None
INVARIANTS
    TypeOK
    UsersHoldTheirClock
    OneClockPerAddress
    NobodyMissesSync
PROPERTIES
    UnusedClocksGo
CHECK_DEADLOCK FALSE
