SPECIFICATION Spec
CONSTANTS
    Deploys = {}
    VarsKeys = {v1}
    Base = b0
    Embedded = TRUE
    MaxFaults = 2
    NoKey = NoKey
CHECK_DEADLOCK FALSE
PROPERTIES
    RecoveryKeepsSelection
