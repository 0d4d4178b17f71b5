SPECIFICATION Spec
CONSTANTS
    Deploys = {d1}
    VarsKeys = {v1}
    Base = b0
    Embedded = TRUE
    MaxFaults = 4
    NoKey = NoKey
CHECK_DEADLOCK FALSE
INVARIANTS
    RecordsTruthful
PROPERTIES
    StagesTruthful
    BootSettles
