CONSTANTS
    p1 = p1
    p2 = p2
    a = a
    b = b
    c = c
    Procs = {p1, p2}
    Threads = {a, b, c}
    Owner <- ThreadOwner
    None = none
    Rounds = 2
    MaxAttempts = 2
SPECIFICATION FairSpec
INVARIANT TypeOK
INVARIANT Exclusive
INVARIANT NeverStuck
PROPERTY WaitersEnter
PROPERTY StopEnds
CHECK_DEADLOCK FALSE
