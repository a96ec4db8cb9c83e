SPECIFICATION Spec
CONSTANTS
    Calls = {c1, c2}
    Passwords = {p1, p2}
    GoogleIds = {g1}
    Codes = {k1, k2, k3}
    Threshold = 2
    Users <- MCUsers
    MaxRequests = 4
    MaxSecond = 2
    Absent = Absent
    Flows = {f1, f2}
    BackupCodes = {b1, b2}
    CodeCount = 1
    MaxAttempts = 1
    MaxFlows = 7
    MaxClock = 3
    NoBackup = NoBackup
SYMMETRY Interchangeable
INVARIANTS
    SignInMethod
    CodesLimited
    OldTokensRejected
    LockNeedsFailures
    EnablingEndsAccess
    AttemptsLimited
    BackupCodesWearOut
CHECK_DEADLOCK FALSE
