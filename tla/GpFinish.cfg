SPECIFICATION FairSpec
CONSTANTS
    Builds = {{"egl"}}
    MaxFrames = 1
    MaxReports = 1
    BusBound = 2
    MaxLoads = 2
    Setups <- MCSetups
    Components = {"texture"}
    Loop = FALSE
    None = None
PROPERTIES
    EndsAreTold
CHECK_DEADLOCK FALSE
