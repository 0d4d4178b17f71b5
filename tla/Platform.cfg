SPECIFICATION PlatformSpec
SYMMETRY PlatformSymmetry
CHECK_DEADLOCK FALSE
CONSTANTS
    t1 = t1
    t2 = t2
    StorageThreads = {t1, t2}
    WorkerThreads = {t1, t2}
    NsThreads = {t1, t2}
    Sizes = {1, 2}
    ByteLimit = 3
    MaxRequests = 5
    Keys <- MCKeys
    MaxJobs = 3
    MaxWorkerFaults = 1
    MaxAttempts = 2
    AppLimit = 2
    Hostnames = {"h", "g"}
    ScriptLimit = 2
    SessionLimit = 2
    SessionTime = 2
    MaxNsRequests = 4
    MaxNsCrashes = 1
    MaxNsClock = 1
    Edits <- MCEdits
INVARIANTS
    PlatformBackendsAgree
    UsageHeld
    ListingComplete
    RoutingCurrent
    ActiveSecretsStable
    NoLostUpdate
    AssetsBoundOnce
