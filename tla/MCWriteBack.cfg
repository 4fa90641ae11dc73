SPECIFICATION FairSpec
CONSTANTS
    Packets = {p1, p2}
    Values = {a, b}
    Workers = {w1, w2}
    MaxAttempts = 2
    MaxEdits = 1
    MaxFaults = 1
    None = None
INVARIANTS
    TypeOK
    NoticeIsExplained
    MarkMatchesNotices
PROPERTIES
    KeepsSignedWrites
    EveryJobSettles
    DriftIsNoticed
CHECK_DEADLOCK FALSE
