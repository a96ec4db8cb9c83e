SPECIFICATION Spec
CONSTANTS
    Request = {r1}
    Client = {}
    MaxSymbols = 2
    MaxTimeframes = 1
    Outcome = {"ok", "refused", "lost"}
    MayCrash = TRUE
INVARIANTS
    LinkedWasPushed
    AnsweredIsComplete
    OneOrphanAtMost
PROPERTIES
    RequestEnds
    IsBatchSubmission
CHECK_DEADLOCK FALSE
