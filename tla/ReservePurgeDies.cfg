\* Two reservations whose clients are gone; the map itself is sound.
CONSTANTS
    Threads = {t1}
    Keys = {k1, k2}
    NoKey = NoKey
    MaxServers = 2
    AtomicMap = TRUE
SPECIFICATION FairSpec
PROPERTY FullTableDrains
