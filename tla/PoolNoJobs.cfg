SPECIFICATION Spec
CONSTANTS
    None = None
    Inputs <- NoJobs
    MaxJobs = 1
CHECK_DEADLOCK FALSE
INVARIANT
    WaitMeansDone
