CONSTANTS
    Nil = Nil
    NumPaths = 2
    MaxJobs = 2
    MaxLives = 2
    MaxCrashes = 2
    MaxFailures = 2
SPECIFICATION FairSpec
INVARIANTS
    SourceMatchesActive
    NothingLost
PROPERTIES
    ImplementsDocuments
    RestartsUnlessStuck
CHECK_DEADLOCK FALSE
