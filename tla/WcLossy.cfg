SPECIFICATION Spec
CONSTANTS
    SECOND = 4
    U32 = 1024
    U64 = 1048576
    Exponents <- MCExponents
    ServerPrecision = 2
    LocalPrecision = 1
    LocalPpm = 1
    MILLION = 1
    ServerPpm = 1
    InitNow = 2
    MaxTime = 6
    InitSkews <- MCSkewMinus1
    DriftPeriod = 1
    MaxInFlight = 1
    Faults = {"lose", "reorder", "duplicate"}
    ClientStrays = {}
    ServerStrays = {}
    ActiveModes = {TRUE}
    FollowupModes = {FALSE}
    ServerMayStop = FALSE
    Timeout = 2
    Pause = 1
    ClientMayStop = FALSE
    None = None
INVARIANTS
    TypeOK
    Sound
    SoundInv
CHECK_DEADLOCK FALSE
