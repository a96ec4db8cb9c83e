\* One user and one check in flight are enough: the stale status is in the cache.
SPECIFICATION Spec
CONSTANTS
    Task = {t1}
    User = {u1}
    Owner <- MCOwner
    Socket = {s1}
    Handler = {h1}
    Expiry = {3}
    StartTimes = {0}
    TTL = 1
    Period = 2
    QueryTime = 1
    MaxTime = 2
INVARIANT NoRunningAfterCancelled
CHECK_DEADLOCK FALSE
