SPECIFICATION FairSpec
CONSTANTS
    Deploys = {}
    VarsKeys = {v1}
    Base = b0
    Embedded = TRUE
    MaxFaults = 3
    NoKey = NoKey
CHECK_DEADLOCK FALSE
PROPERTIES
    BootCompletes
