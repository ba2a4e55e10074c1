SPECIFICATION Spec
CONSTANTS
    Builds = {{"egl"}}
    MaxFrames = 1
    MaxReports = 0
    BusBound = 1
    MaxLoads = 2
    Setups <- MCSetups
    Components = {"texture"}
    Loop = FALSE
    None = None
INVARIANTS
    CropsAsAsked
CHECK_DEADLOCK FALSE
