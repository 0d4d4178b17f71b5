SPECIFICATION NodeSpec
SYMMETRY NodeSymmetry
CHECK_DEADLOCK FALSE
CONSTANTS
    t1 = t1
    t2 = t2
    BrowserThreads = {t1, t2}
    TokenTime = 2
    RefreshMargin = 1
    LeaseTime = 2
    IdleTime = 3
    AbsoluteTime = 5
    MaxIssued = 3
    MaxBrowserRequests = 4
    MaxBrowserClock = 5
    MaxBrowserCrashes = 1
    Runners = {1}
    MaxUpdates = 2
    Calendar <- MCCalendar
    Expressions <- MCExpressions
    BucketSize = 2
    Window = 3
    Durations = {2}
    MaxBatches = 3
    MaxTelemetryClock = 5
    MaxTelemetryFaults = 1
    Verifications = {t1, t2}
    MaxSigned = 2
    MaxRotations = 1
    MaxSeconds = 2
    DbThreads = {t1, t2}
    MaxDbRequests = 3
    MaxDbFaults = 1
    Batches = {t1, t2}
INVARIANTS
    SessionKept
    RefusedMeansRetired
    DatabasesKept
    TelemetryExact
    TriggersOnce
