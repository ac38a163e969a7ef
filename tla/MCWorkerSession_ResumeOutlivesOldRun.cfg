SPECIFICATION MCSpec
CONSTANTS
    Followed = {"worker"}
    MaxQueued = 2
    MaxInputs = 1
    WindowFull = {FALSE}
PROPERTY ResumeOutlivesOldRun
CHECK_DEADLOCK FALSE
