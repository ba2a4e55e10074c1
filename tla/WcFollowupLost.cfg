SPECIFICATION Spec
CONSTANTS
    SECOND = 4
    U32 = 1024
    U64 = 1048576
    Exponents <- MCExponents
    ServerPrecision = 2
    LocalPrecision = 1
    LocalPpm = 1
    MILLION = 2
    ServerPpm = 1
    InitNow = 2
    MaxTime = 6
    InitSkews <- MCSkew3
    DriftPeriod = 2
    MaxInFlight = 2
    Faults = {"lose"}
    ClientStrays = {}
    ServerStrays = {}
    ActiveModes = {TRUE}
    FollowupModes = {TRUE}
    ServerMayStop = FALSE
    Timeout = 1
    Pause = 1
    ClientMayStop = FALSE
    None = None
INVARIANTS
    FollowupPairsItsResponse
CHECK_DEADLOCK FALSE
