\* Intervals of two and three polls, up to three runs of a collector, a clock
\* set back by up to two polls, one shift of the local time and back, restarts.
CONSTANTS
    Collectors <- MCCollectors
    Interval <- MCInterval
    Poller = 1
    Offsets = {0, 2}
    Restarts = TRUE
    MaxTime = 6
    MaxBack = 2
SPECIFICATION Spec
INVARIANTS
    TypeOK
    RunInItsSlot
    DueWithin
PROPERTIES
    DirectoriesAscend
    NoBurst
CONSTANTS
    c1 = c1
    c2 = c2
    c3 = c3
