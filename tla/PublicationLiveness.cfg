SPECIFICATION FairSpec
CONSTANTS
    Deploys = {d1}
    VarsKeys = {}
    Base = b0
    Embedded = FALSE
    MaxFaults = 2
    NoKey = NoKey
CHECK_DEADLOCK FALSE
PROPERTIES
    BootCompletes
    RunnerRepaired
