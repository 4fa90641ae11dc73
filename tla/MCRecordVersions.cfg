\* submissions overlap, retractions overlap, one with the other does not
SPECIFICATION Spec
CONSTANTS
    Packets = {p1, p2, p3}
    Submitters = {s1, s2}
    Retracters = {r1, r2}
    LastDay = 2
    MaxClock = 4
    Apart = TRUE
    NoHash = NoHash
    Idle = Idle
INVARIANTS
    TypeOK
    OneVersionEach
PROPERTIES
    HistoryStable
    KeepsTimeline

\* with every packet recorded and the stamps used up nothing is left to do
CHECK_DEADLOCK FALSE
