SPECIFICATION FairSpec
CONSTANTS
    Inodes = {1, 2, 3}
    None = 0
    Gens = 2
    LogSize = 2
    Limit = 2
    FirstLimit = 1
    Rows = 2
    MaxLines = 7
    MaxKills = 1
INVARIANT TypeOK
INVARIANT NoRepeat
INVARIANT Complete
INVARIANT NewestRead
PROPERTY CursorKept
PROPERTY CatchesUp
CHECK_DEADLOCK FALSE
