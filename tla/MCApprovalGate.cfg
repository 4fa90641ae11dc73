SPECIFICATION FairSpec
CONSTANTS
    Requests = {r1, r2}
    MaxPackets = 2
    MaxResets = 1
    None = None
INVARIANTS
    TypeOK
    OneClickEach
PROPERTIES
    ApprovalIsBound
    KeepsConsent
    ResetFreesLane
