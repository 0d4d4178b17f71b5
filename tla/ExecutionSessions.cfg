SPECIFICATION Spec
CONSTANTS
    Sessions = {s1, s2}
    Registrations = {r1}
    Snapshots = {x1, x2}
    Bound = x1
    Resources = {k1}
    Tokens = {t1, t2}
    Calls = {c1, c2}
    MaxSeq = 1
    TTL = 1
    NoSession = NoSession
    NoGrant = NoGrant
    NoSnapshot = NoSnapshot
    NoToken = NoToken
    Declares <- MCDeclares
CHECK_DEADLOCK FALSE
SYMMETRY Symmetry
INVARIANTS
    TypeOK
    CountsExact
    AdmittedWorkProtected
    NoStrandedRevision
    ClosedSessionHoldsNothing
    CanceledStaysCanceled
PROPERTIES
    ImplementsGrantLifecycle
