SPECIFICATION MCSpec
CONSTANTS
    Followed = {"records"}
    MaxQueued = 2
    MaxInputs = 1
    WindowFull = {FALSE}
INVARIANT HandleFollowsRecord
CHECK_DEADLOCK FALSE
