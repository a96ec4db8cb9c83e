SPECIFICATION Spec
CONSTANTS
    Request = {r1}
    Client = {c1, c2}
    MaxSymbols = 1
    MaxTimeframes = 1
    Outcome = {"ok", "refused", "lost"}
    MayCrash = TRUE
INVARIANTS
    TypeOK
    JobBacked
    CancelledWasPushed
PROPERTIES
    CancelSticks
CHECK_DEADLOCK FALSE
