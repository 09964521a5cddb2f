\* Three processes of two turns each, so that one can end, or die, while two
\* others are in lock_process; one archive, sent up to twice.
CONSTANTS
    Procs = {p1, p2, p3}
    NoPid = NoPid
    Zips = {z1}
    Times = 2
    MaxSends = 2
    MaxCuts = 1
    MaxCrashes = 1
SPECIFICATION Spec
SYMMETRY Symmetry
INVARIANTS
    TypeOK
    OneAtWork
    CopiedIsAggregated
    AggregatedOncePerTurn
CHECK_DEADLOCK FALSE
