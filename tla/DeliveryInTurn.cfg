SPECIFICATION FairSpec
CONSTANTS
    NumRuns = 3
    Recovery = 2
    Keep = 1
    Overlap = FALSE
    Late = FALSE
    ZipFails = {2}
    StoreFails = {1}
    MaxPaths = 2
    MaxCrashes = 1
INVARIANT TypeOK
INVARIANT SkippedOnlyIfResent
INVARIANT CountedByOneSync
INVARIANT NewFileListed
PROPERTY UnsentArchivesStay
PROPERTY ListedIsReached
CHECK_DEADLOCK FALSE
