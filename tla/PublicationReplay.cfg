SPECIFICATION Spec
CONSTANTS
    Deploys = {d1, d2}
    VarsKeys = {}
    Base = b0
    Embedded = FALSE
    MaxFaults = 2
    NoKey = NoKey
SYMMETRY Symmetry
CHECK_DEADLOCK FALSE
PROPERTIES
    ReplayRespectsTraffic
