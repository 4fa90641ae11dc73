\* a retraction among submissions under way
SPECIFICATION Spec
CONSTANTS
    Packets = {p1, p2, p3}
    Submitters = {s1, s2}
    Retracters = {r1}
    LastDay = 2
    MaxClock = 4
    Apart = FALSE
    NoHash = NoHash
    Idle = Idle
INVARIANTS
    RetractedIsGone

\* with every packet recorded and the stamps used up nothing is left to do
CHECK_DEADLOCK FALSE
