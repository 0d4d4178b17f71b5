SPECIFICATION RunnerSpec
CONSTANTS
    Revisions = {a, b, c}
    a = a
    b = b
    c = c
    Broken = {c}
    Deletable = {b}
    Publications <- MCPublications
    Budgets <- MCBudgets
    NoRevision = NoRevision
    MaxSessions = 3
    MaxProcesses = 2
    MaxDraws = 2
    MaxRunning = 1
    MaxAdmissions = 2
    MaxEpoch = 2
    MaxInvocationFaults = 2
    Inputs = {i1, i2}
    Dispatching = {i2}
    NoInput = NoInput
    MaxPools = 4
    MaxPublications = 2
    MaxLegacyFaults = 2
CHECK_DEADLOCK FALSE
INVARIANTS
    RoutesBacked
    InvocationsOfSession
    GrantsAccounted
    PinsExact
    LegacyServesCommitted
PROPERTIES
    RunnerRecovers
    
