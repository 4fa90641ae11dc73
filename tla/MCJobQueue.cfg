SPECIFICATION FairSpec

CONSTANTS
    Kinds = {extract, rebind, orphan}
    Unique = {extract}
    Direct = {rebind}
    Handled = {extract, rebind}
    Producers = {p1, p2}
    extract = extract
    rebind = rebind
    orphan = orphan
    p1 = p1
    p2 = p2
    MaxJobs = 2
    MaxAttempts = 2
    MaxCrashes = 1
    MaxClaimLocks = 1
    MaxSettleLocks = 1
    MaxSkips = 1

INVARIANTS
    TypeOK
    CoalescedIsPending
    AttemptsBounded
    NoLostWake

PROPERTIES
    KeepsContract
    EveryJobSettles

\* a dead thread with every bound used up stops the system
CHECK_DEADLOCK FALSE
