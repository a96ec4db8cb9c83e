\* Two users, of whom one owns the task and either may be named; two checks, or one
\* and a connecting client, in flight; the timers start at 1 and run twice, and the
\* clock runs past TTL + QueryTime after a cancellation.
SPECIFICATION Spec
CONSTANTS
    Task = {t1}
    User = {u1, u2}
    Owner <- MCOwner
    Socket = {s1}
    Handler = {h1, h2}
    Expiry = {1}
    StartTimes = {1}
    TTL = 1
    Period = 1
    QueryTime = 1
    MaxTime = 3
CONSTRAINT FewInFlight
SYMMETRY HandlerSymmetry
INVARIANTS
    TypeOK
    StaleRunningIsBounded
    SnapshotIsFresh
    OnlyNamedUserSees
    ExpiredSocketsLeave
    CacheIsCleaned
\* The clock is bounded and sockets do not come back.
CHECK_DEADLOCK FALSE
