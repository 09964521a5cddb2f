CONSTANTS
    Procs = {p1, p2, p3}
    None = none
    Timeout = 2
SPECIFICATION FairSpec
CHECK_DEADLOCK FALSE
PROPERTY KilledAtTimeout
