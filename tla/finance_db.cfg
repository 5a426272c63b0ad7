SPECIFICATION FairSpec
CONSTANTS
    Conn = {k1, k2}
    User = {c1, c2, p1, p2}
    Client = {c1, c2}
    Caller = {p1, p2}
    Path = {sA, sB, public}
    Schema = {sA, sB}
    sA = sA
    sB = sB
    DefaultPath = public
    Tenant = {t1}
    Rows <- MCRows
    Nobody = Nobody
    Closed = Closed
    Unlocked = Unlocked
    NULL = NULL
    Empty = Empty
INVARIANTS
    TypeOK
    ServesLookedUp
    NoLeak
    OneExecution
PROPERTIES
    SessionAnswered
    EnsureReturns
CHECK_DEADLOCK FALSE
