\* The retry limit of the code, on a Redis that is reachable.
SPECIFICATION ReachableSpec
CONSTANT MAX_REDIS_RETRIES = 12
INVARIANTS
    TypeOK
    OneAttempt
    FlagIsTrue
PROPERTIES
    GivesUpUnconnected
    EventuallySettles
\* Subscribed, or given up, nothing is left to do.
CHECK_DEADLOCK FALSE
