SPECIFICATION Spec
CONSTANTS
    Builds = {{"egl"}}
    MaxFrames = 1
    MaxReports = 2
    BusBound = 1
    MaxLoads = 2
    Setups <- MCSetups
    Components = {"texture", "capture"}
    Loop = TRUE
    None = None
INVARIANTS
    TypeOK
    NothingLeaks
    RendersInUnitysContext
    BaseTimeSetOnce
PROPERTIES
    KeepsPromise
CHECK_DEADLOCK FALSE
