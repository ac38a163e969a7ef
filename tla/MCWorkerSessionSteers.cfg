SPECIFICATION MCSpec
CONSTANTS
    Followed = {"worker", "records"}
    MaxQueued = 2
    MaxInputs = 2
    WindowFull = {FALSE}
INVARIANTS
    RetryableMeansFresh
    SteersInOrder
    CrashRecordStands
PROPERTIES
    EndedStaysEnded
    KeepsPromise
CHECK_DEADLOCK FALSE
