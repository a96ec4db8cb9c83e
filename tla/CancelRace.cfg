SPECIFICATION Spec
CONSTANTS
    Request = {r1}
    Client = {c1}
    MaxSymbols = 1
    MaxTimeframes = 1
    Outcome = {"ok"}
    MayCrash = FALSE
PROPERTY
    CancelsOnlyQueuedOrRunning
CHECK_DEADLOCK FALSE
