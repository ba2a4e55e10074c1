SPECIFICATION FairSpec
CONSTANTS
    SECOND = 4
    U32 = 1024
    U64 = 1048576
    Exponents <- MCExponents
    ServerPrecision = 2
    LocalPrecision = 1
    LocalPpm = 1
    MILLION = 2
    ServerPpm = 1
    InitNow = 2
    MaxTime = 2
    InitSkews <- MCSkew3
    DriftPeriod = 2
    MaxInFlight = 2
    Faults = {"lose"}
    ClientStrays = {}
    ServerStrays = {"OTHER", "SHORT"}
    ActiveModes = {TRUE}
    FollowupModes = {FALSE}
    ServerMayStop = TRUE
    Timeout = 0
    Pause = 0
    ClientMayStop = TRUE
    None = None
PROPERTIES
    EventuallySynced
    KeepsAsking
    ClientStops
    ServerStops
CHECK_DEADLOCK FALSE
