SPECIFICATION Spec
CONSTANTS
    Request = {r1}
    Client = {}
    MaxSymbols = 1
    MaxTimeframes = 1
    Outcome = {"ok", "refused"}
    MayCrash = FALSE
INVARIANT
    FailedWasNotSubmitted
CHECK_DEADLOCK FALSE
