\* Three servlet threads, four keys, two places: the table can be overrun by
\* both other threads and still have a key to refuse.
CONSTANTS
    Threads = {t1, t2, t3}
    Keys = {k1, k2, k3, k4}
    NoKey = NoKey
    MaxServers = 2
    AtomicMap = TRUE
SPECIFICATION Spec
SYMMETRY Symmetry
INVARIANTS
    TypeOK
    OvershootBounded
