CONSTANTS
    Procs = {p1, p2, p3}
    None = none
    Timeout = 2
SPECIFICATION FairSpec
INVARIANT TypeOK
INVARIANT OneScheduler
PROPERTY RequestStopsTarget
PROPERTY StopsInTheEnd
CHECK_DEADLOCK FALSE
