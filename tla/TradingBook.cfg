SPECIFICATION BookSpec
CONSTANTS
    s1 = s1
    s2 = s2
    s3 = s3
    a1 = a1
    n1 = n1
    n2 = n2
    c1 = c1
    c2 = c2
    Calls = {c1, c2}
    Strategies = {s1, s2, s3}
    Accounts = {a1}
    Templates = Templates
    Names = {n1, n2}
    UpdateDtos <- MCUpdateDtos
    Populations <- MCPopulations
    Capital = 2
    MaxRequests = 3
    MaxTrades = 1
    None = None
SYMMETRY Symmetry
INVARIANTS
    
    GoneWasIdle
    LedgerBalances
PROPERTIES
    ModeChangesSafely
\* The bounds on requests and trades end the behaviour.
CHECK_DEADLOCK FALSE
