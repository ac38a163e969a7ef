SPECIFICATION MCSpec
CONSTANTS
    Followed = {"worker"}
    MaxQueued = 2
    MaxInputs = 1
    WindowFull = {TRUE, FALSE}
PROPERTY EndedStaysEnded
CHECK_DEADLOCK FALSE
