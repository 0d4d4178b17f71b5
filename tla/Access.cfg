SPECIFICATION AccessSpec
SYMMETRY AccessSymmetry
CHECK_DEADLOCK FALSE
CONSTANTS
    t1 = t1
    t2 = t2
    i1 = i1
    Threads = {t1, t2}
    OAuthThreads = {t1, t2}
    Emails = {"a", "b"}
    Identities = {i1}
    MaxTokens = 3
    MaxCodes = 2
    MaxInvites = 1
    MaxPats = 1
    ClientLimit = 1
    MaxClients = 2
    MaxGrants = 2
    MaxOAuthTokens = 2
    g1 = g1
    g2 = g2
    Callers = {t1, t2}
    DispatchRequests = {g1, g2}
    RootTime = 2
    DrainTime = 1
    MaxClock = 2
    RootLimit = 2
    LeaseLimit = 2
    DepthLimit = 1
    Budget = 3
    MaxToggles = 1
INVARIANTS
    AccessBackendsAgree
    RefreshRedeemedOnce
    OneAccountPerIdentity
    OneOrganizationPerAccount
    InvocationsBounded
    HoldsReturned
