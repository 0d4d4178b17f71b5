SPECIFICATION FairSpec
CONSTANTS
    Sessions = {s1, s2}
    Registrations = {r1}
    Snapshots = {x1}
    Bound = x1
    Resources = {k1}
    Tokens = {t1}
    Calls = {c1}
    MaxSeq = 1
    TTL = 1
    NoSession = NoSession
    NoGrant = NoGrant
    NoSnapshot = NoSnapshot
    NoToken = NoToken
    Declares <- MCDeclares
CHECK_DEADLOCK FALSE
PROPERTIES
    SilentSessionsReclaimed
    ShutdownClosesSessions
