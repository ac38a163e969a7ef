SPECIFICATION MCFair
CONSTANTS
    Followed = {"worker", "fleet"}
    MaxQueued = 2
    MaxInputs = 1
    WindowFull = {TRUE, FALSE}
INVARIANTS
    TypeOK
    SlotHasOneOwner
    NoOrphanAgent
    RecordMatchesLane
PROPERTIES
    OpenAskIsRecorded
    SlotComesBack
    ResultIsDelivered
CHECK_DEADLOCK FALSE
