SPECIFICATION Spec
CONSTANTS
    SECOND = 4
    U32 = 1024
    U64 = 1048576
    Exponents <- MCExponents
    ServerPrecision = 2
    LocalPrecision = 1
    LocalPpm = 1
    MILLION = 2
    ServerPpm = 1
    InitNow = 2
    MaxTime = 4
    InitSkews <- MCSkew3
    DriftPeriod = 2
    MaxInFlight = 6
    Faults = {}
    ClientStrays = {"REQUEST", "OTHER", "SHORT"}
    ServerStrays = {}
    ActiveModes = {TRUE, FALSE}
    FollowupModes = {TRUE, FALSE}
    ServerMayStop = FALSE
    Timeout = 1
    Pause = 1
    ClientMayStop = FALSE
    None = None
INVARIANTS
    FollowupPairsItsResponse
    MeasuredOnce
    Sound
    SoundInv
    OnceInv
CHECK_DEADLOCK FALSE
