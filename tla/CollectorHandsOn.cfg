SPECIFICATION FairSpec
CONSTANTS
    c = c
    s = s
    Tasks = {c, s}
    MaxRuns = 1
    Serial = {s}
    NumJobs = 2
    Cyclic = {2}
    Step <- OnceAndTwice
    MaxLoops = 0
    Prompt = TRUE
    IdReuse = FALSE
    DirLost = FALSE
INVARIANT TypeOK
PROPERTY PromiseKept
PROPERTY EveryRunEnds
CHECK_DEADLOCK FALSE
