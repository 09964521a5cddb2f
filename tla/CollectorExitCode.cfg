SPECIFICATION Spec
CONSTANTS
    c = c
    s = s
    Tasks = {c}
    MaxRuns = 1
    Serial = {}
    NumJobs = 2
    Cyclic = {}
    Step <- OnceOnly
    MaxLoops = 0
    Prompt = TRUE
    IdReuse = FALSE
    DirLost = FALSE
INVARIANT ExitCodeIsOwn
CHECK_DEADLOCK FALSE
