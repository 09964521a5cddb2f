SPECIFICATION StopSpec
CONSTANTS
    c = c
    s = s
    Tasks = {c, s}
    MaxRuns = 1
    Serial = {s}
    NumJobs = 2
    Cyclic = {2}
    Step <- OnceAndTwice
    MaxLoops = 0
    Prompt = FALSE
    IdReuse = TRUE
    DirLost = TRUE
INVARIANT OnlyMarkedOutlive
INVARIANT OrphansExplained
INVARIANT VisitStopsCycles
CHECK_DEADLOCK FALSE
