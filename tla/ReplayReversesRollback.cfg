SPECIFICATION Spec
CONSTANTS
    Deploys = {d1}
    VarsKeys = {}
    Base = b0
    Embedded = TRUE
    MaxFaults = 1
    NoKey = NoKey
CHECK_DEADLOCK FALSE
PROPERTIES
    ReplayKeepsRollback
