CONSTANTS
    Nil = Nil
    NumPaths = 1
    MaxJobs = 2
    MaxLives = 1
    MaxCrashes = 1
    MaxFailures = 0
SPECIFICATION Spec
INVARIANT
    CrashRecoverable
CHECK_DEADLOCK FALSE
